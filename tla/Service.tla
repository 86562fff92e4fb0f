------------------------------ MODULE Service ------------------------------
(***************************************************************************)
(* How clients find a server: the DNS's thread (dns.cpp), the registration *)
(* of a primary (main.cpp and setElected of the server), the connect loop  *)
(* of a client (thread_function of network.cpp), and the sessions of a     *)
(* server from accept to client_remove (server.cpp, client.cpp).           *)
(*                                                                         *)
(* A primary that was started by hand serves clients; one that was elected *)
(* only registers.  Processes may end at any step.  What a session and its *)
(* client say to each other is in Requests and FileSync, how a primary is  *)
(* elected in RingElection.                                                *)
(***************************************************************************)
EXTENDS Integers, Sequences, FiniteSets

CONSTANTS
  Clients,         \* processes
  Servers,         \* addresses
  Configured,      \* the primary on the DNS's command line
  User,            \* the user name of each client
  MaxActive,       \* MAX_ACTIVE_CONNECTIONS
  ClientFiles,     \* sockets a client's process may have open
  ServerFiles,     \* connections a server's process may have open
  MaxEvents        \* bound on events, elections and connections left behind

ASSUME ConfiguredAssumption == Configured \in Servers
ASSUME ClientsAssumption == IsFiniteSet(Clients) /\ Clients \cap Servers = {}
ASSUME LimitsAssumption ==
  /\ MaxActive \in Nat \ {0} /\ ClientFiles \in Nat \ {0}
  /\ ServerFiles \in Nat \ {0} /\ MaxEvents \in Nat

\* The sockets of a client, in the order of their creation.  It closes none.
Socket == Clients \X (1 .. ClientFiles)
Address == [ip : Servers, port : Servers]
NoAddress == [ip |-> "none", port |-> "none"]
Unused == [at |-> "none", is |-> "unused"]
Over == [at |-> "none", is |-> "over"]

VARIABLES
  dns,      \* state.primary_ip and state.primary_port of the DNS, and
  dnsUp,    \* whether it runs
  line,     \* the connections to it, and the fields that reach it of each
  taken,    \* how many fields it has read of the first
  server,   \* the primary at each address
  events,   \* number of those events
  client,   \* where the network thread of each client is
  target,   \* the answer of the DNS that each client is about to use
  files,    \* how many sockets it has made
  conn      \* each socket: its server, and what that has made of it

dnsVars == <<dns, dnsUp, line, taken>>
serverVars == <<server, events>>
clientVars == <<client, target, files>>
vars == <<dns, dnsUp, line, taken, server, events, client, target, files, conn>>

-----------------------------------------------------------------------------
(* The DNS *)

\* Type, address and port; a client sends only the type.
Fields(who) == IF who \in Servers THEN 3 ELSE 1
Caller == line[1].from
Call(who) == line' = Append(line, [from |-> who, fields |-> Fields(who)])

\* What a process that ends had sent may not arrive.
Tear(who) ==
  \E n \in [1 .. Len(line) -> 0 .. 3] :
    /\ \A i \in 1 .. Len(line) :
         IF line[i].from = who
           THEN n[i] <= line[i].fields /\ (i = 1 => n[i] >= taken)
           ELSE n[i] = line[i].fields
    /\ line' = [i \in 1 .. Len(line) |-> [line[i] EXCEPT !.fields = n[i]]]

\* Mutant: the address is stored before the port has been read.
DnsRead_StoreAddress ==
  /\ line # << >> /\ taken < line[1].fields
  /\ taken + 1 < Fields(Caller)
  /\ taken' = taken + 1
  /\ dns' = IF taken = 1 THEN [dns EXCEPT !.ip = Caller] ELSE dns
  /\ UNCHANGED <<dnsUp, line, serverVars, clientVars, conn>>

DnsRead ==
  /\ line # << >> /\ taken < line[1].fields
  /\ taken + 1 < Fields(Caller)
  /\ taken' = taken + 1
  /\ UNCHANGED <<dns, dnsUp, line, serverVars, clientVars, conn>>

HangUp == line' = Tail(line) /\ taken' = 0

DnsSet ==
  /\ line # << >> /\ Caller \in Servers
  /\ taken = 2 /\ line[1].fields = 3
  /\ dns' = [ip |-> Caller, port |-> Caller]
  /\ HangUp
  /\ UNCHANGED <<dnsUp, serverVars, clientVars, conn>>

DnsAnswer ==
  /\ line # << >> /\ Caller \in Clients /\ line[1].fields = 1
  /\ IF client[Caller] = "waiting"
       THEN /\ client' = [client EXCEPT ![Caller] = "connecting"]
            /\ target' = [target EXCEPT ![Caller] = dns]
       ELSE UNCHANGED <<client, target>>
  /\ HangUp
  /\ UNCHANGED <<dns, dnsUp, serverVars, files, conn>>

DnsDrops ==
  /\ line # << >>
  /\ taken = line[1].fields /\ taken < Fields(Caller)
  /\ HangUp
  /\ UNCHANGED <<dns, dnsUp, serverVars, clientVars, conn>>

\* A client that waits for its answer exits.
DnsEnds ==
  /\ dnsUp
  /\ dnsUp' = FALSE /\ line' = << >> /\ taken' = 0
  /\ client' = [c \in Clients |->
                  IF client[c] = "waiting" THEN "ended" ELSE client[c]]
  /\ UNCHANGED <<dns, serverVars, target, files, conn>>

-----------------------------------------------------------------------------
(* The servers *)

Event == events < MaxEvents /\ events' = events + 1
Begins(s, as) == Event /\ server' = [server EXCEPT ![s] = as]

Start(s) ==
  /\ server[s] \in {"none", "ended"}
  /\ Begins(s, "starting")
  /\ UNCHANGED <<dnsVars, clientVars, conn>>

\* It does not wait for an answer.
Register(s) ==
  /\ server[s] = "starting"
  /\ IF dnsUp THEN Call(s) /\ server' = [server EXCEPT ![s] = "registered"]
              ELSE server' = [server EXCEPT ![s] = "ended"] /\ UNCHANGED line
  /\ UNCHANGED <<dns, dnsUp, taken, events, clientVars, conn>>

Listen(s) ==
  /\ server[s] = "registered"
  /\ server' = [server EXCEPT ![s] = "listening"]
  /\ UNCHANGED <<dnsVars, events, clientVars, conn>>

\* A backup wins an election.  It never listens for clients.
Elected(s) ==
  /\ server[s] = "none"
  /\ \E t \in Servers : server[t] = "ended"
  /\ IF dnsUp THEN Call(s) /\ Begins(s, "elected")
              ELSE Begins(s, "ended") /\ UNCHANGED line
  /\ UNCHANGED <<dns, dnsUp, taken, clientVars, conn>>

\* Its process ends, and its sockets are closed.
Ends(s) ==
  /\ server' = [server EXCEPT ![s] = "ended"]
  /\ conn' = [x \in Socket |-> IF conn[x].at = s THEN Over ELSE conn[x]]

ServerEnds(s) ==
  /\ server[s] \notin {"none", "ended"}
  /\ Ends(s)
  /\ Tear(s)
  /\ UNCHANGED <<dns, dnsUp, taken, events, clientVars>>

-----------------------------------------------------------------------------
(* Sessions.  A connection waits in the backlog, is accepted ("new"), and is *)
(* then in the list of clients or refused.  A session whose client ended    *)
(* while it had an answer to write ("cut") finds its socket broken.         *)

Listed == {"listed", "cut", "broken"}
Held == Listed \cup {"new", "refused"}
At(s, states) == {x \in Socket : conn[x].at = s /\ conn[x].is \in states}
OfUser(s, u) == {x \in At(s, Listed) : User[x[1]] = u}

Becomes(x, state) == conn' = [conn EXCEPT ![x].is = state]
IsOver(x) == conn' = [conn EXCEPT ![x] = Over]

\* When accept fails, tcp_dump_1 closes its socket, and the process goes on.
Accept(s) ==
  /\ server[s] = "listening" /\ At(s, {"backlog"}) # {}
  /\ IF Cardinality(At(s, Held)) < ServerFiles
       THEN /\ \E x \in At(s, {"backlog"}) : Becomes(x, "new")
            /\ UNCHANGED server
       ELSE /\ server' = [server EXCEPT ![s] = "deaf"]
            /\ conn' = [x \in Socket |-> IF x \in At(s, {"backlog"})
                                           THEN Over ELSE conn[x]]
  /\ UNCHANGED <<dnsVars, events, clientVars>>

\* Mutant: a connection that is refused gets no answer.
Admit_NoAnswer(x) ==
  /\ conn[x].is = "new"
  /\ IF At(conn[x].at, {"broken"}) # {}
       THEN Ends(conn[x].at)
       ELSE /\ IF Cardinality(OfUser(conn[x].at, User[x[1]])) < MaxActive
                 THEN Becomes(x, "listed") ELSE UNCHANGED conn
            /\ UNCHANGED server
  /\ UNCHANGED <<dnsVars, events, clientVars>>

\* Mutant: one more connection than the limit allows.
Admit_OneMore(x) ==
  /\ conn[x].is = "new"
  /\ IF At(conn[x].at, {"broken"}) # {}
       THEN Ends(conn[x].at)
       ELSE /\ Becomes(x, IF Cardinality(OfUser(conn[x].at, User[x[1]])) <= MaxActive
                            THEN "listed" ELSE "refused")
            /\ UNCHANGED server
  /\ UNCHANGED <<dnsVars, events, clientVars>>

\* client_new, with the mutex of the list.  can_connect means to erase the
\* clients whose sockets are broken, but its index wraps around and the process
\* ends.  A connection that is refused stays open.
Admit(x) ==
  /\ conn[x].is = "new"
  /\ IF At(conn[x].at, {"broken"}) # {}
       THEN Ends(conn[x].at)
       ELSE /\ Becomes(x, IF Cardinality(OfUser(conn[x].at, User[x[1]])) < MaxActive
                            THEN "listed" ELSE "refused")
            /\ UNCHANGED server
  /\ UNCHANGED <<dnsVars, events, clientVars>>

\* The end of a client's process comes before the whole handshake.
HandshakeFails(x) ==
  /\ conn[x].is = "new" /\ client[x[1]] = "ended"
  /\ IsOver(x)
  /\ UNCHANGED <<dnsVars, serverVars, clientVars>>

Breaks(x) ==
  /\ conn[x].is = "cut"
  /\ Becomes(x, "broken")
  /\ UNCHANGED <<dnsVars, serverVars, clientVars>>

\* Mutant: a session whose socket is broken forgets to leave the list.
SessionEnds_NotBroken(x) ==
  /\ conn[x].is \in {"listed", "cut"} /\ client[x[1]] = "ended"
  /\ IsOver(x)
  /\ UNCHANGED <<dnsVars, serverVars, clientVars>>

\* receive_packet fails, and client_remove.
SessionEnds(x) ==
  /\ conn[x].is \in Listed /\ client[x[1]] = "ended"
  /\ IsOver(x)
  /\ UNCHANGED <<dnsVars, serverVars, clientVars>>

-----------------------------------------------------------------------------
(* The clients *)

Current(c) == <<c, files[c]>>
Goes(c, to) == client' = [client EXCEPT ![c] = to]

\* Mutant: a failure of socket is not noticed.
AskDns_Unchecked(c) ==
  /\ client[c] = "asking"
  /\ IF dnsUp
       THEN Call(c) /\ Goes(c, "waiting")
       ELSE Goes(c, "ended") /\ UNCHANGED line
  /\ UNCHANGED <<dns, dnsUp, taken, serverVars, target, files, conn>>

\* A socket for the DNS, or an exit.
AskDns(c) ==
  /\ client[c] = "asking"
  /\ IF dnsUp /\ files[c] < ClientFiles
       THEN Call(c) /\ Goes(c, "waiting")
       ELSE Goes(c, "ended") /\ UNCHANGED line
  /\ UNCHANGED <<dns, dnsUp, taken, serverVars, target, files, conn>>

\* The kernel of a server that listens accepts for it.  Whatever becomes of
\* the connect, the socket is not closed.
Connect(c) ==
  /\ client[c] = "connecting"
  /\ files' = [files EXCEPT ![c] = @ + 1]
  /\ LET s == target[c].ip IN
       IF target[c].port = s /\ server[s] = "listening"
         THEN /\ Goes(c, "greeting")
              /\ conn' = [conn EXCEPT ![<<c, files'[c]>>] =
                             [at |-> s, is |-> "backlog"]]
         ELSE Goes(c, "asking") /\ UNCHANGED conn
  /\ target' = [target EXCEPT ![c] = NoAddress]
  /\ UNCHANGED <<dnsVars, serverVars>>

\* The answer to the handshake, or the end of the connection.
Greeted(c) ==
  /\ client[c] = "greeting" /\ conn[Current(c)].is \in {"listed", "refused", "over"}
  /\ Goes(c, CASE conn[Current(c)].is = "listed"  -> "on"
               [] conn[Current(c)].is = "refused" -> "ended"
               [] OTHER                        -> "asking")
  /\ UNCHANGED <<dnsVars, serverVars, target, files, conn>>

\* Its server has ended.  An update that fails leads back to the DNS; a task or
\* an event's download that fails is followed by a second request on the same
\* socket, which may kill the process (SIGPIPE).
MeetsEnd(c) ==
  /\ client[c] = "on" /\ conn[Current(c)].is = "over"
  /\ Goes(c, "asking") \/ Goes(c, "ended")
  /\ UNCHANGED <<dnsVars, serverVars, target, files, conn>>

\* A task whose file cannot be read: the connection is left behind, open.
Leaves(c) ==
  /\ Event /\ client[c] = "on"
  /\ Goes(c, "asking")
  /\ UNCHANGED <<dnsVars, server, target, files, conn>>

\* An exit task that the process survives: the session ends, and the update
\* that follows it finds that.
ExitTask(c) ==
  /\ Event /\ client[c] = "on" /\ conn[Current(c)].is = "listed"
  /\ IsOver(Current(c))
  /\ Goes(c, "asking")
  /\ UNCHANGED <<dnsVars, server, target, files>>

\* The user ends it, at any step.
ClientEnds(c) ==
  /\ client[c] # "ended"
  /\ Goes(c, "ended")
  /\ target' = [target EXCEPT ![c] = NoAddress]
  /\ Tear(c)
  /\ \/ UNCHANGED conn
     \/ /\ client[c] = "on" /\ conn[Current(c)].is = "listed"
        /\ Becomes(Current(c), "cut")
  /\ UNCHANGED <<dns, dnsUp, taken, serverVars, files>>

-----------------------------------------------------------------------------

DnsStep == DnsRead \/ DnsSet \/ DnsAnswer \/ DnsDrops
ServerStep(s) == Register(s) \/ Listen(s) \/ Accept(s)
SessionStep(x) == Admit(x) \/ HandshakeFails(x) \/ Breaks(x) \/ SessionEnds(x)
ClientStep(c) == AskDns(c) \/ Connect(c) \/ Greeted(c) \/ MeetsEnd(c)
Environment ==
  \/ DnsEnds
  \/ \E s \in Servers : Start(s) \/ Elected(s) \/ ServerEnds(s)
  \/ \E c \in Clients : Leaves(c) \/ ExitTask(c) \/ ClientEnds(c)

Init ==
  /\ dns = [ip |-> Configured, port |-> Configured] /\ dnsUp = TRUE
  /\ line = << >> /\ taken = 0
  /\ server = [s \in Servers |-> "none"] /\ events = 0
  /\ client = [c \in Clients |-> "asking"]
  /\ target = [c \in Clients |-> NoAddress]
  /\ files = [c \in Clients |-> 0]
  /\ conn = [x \in Socket |-> Unused]

ProgramStep ==
  \/ DnsStep
  \/ \E s \in Servers : ServerStep(s)
  \/ \E x \in Socket : SessionStep(x)
  \/ \E c \in Clients : ClientStep(c)

Next == ProgramStep \/ Environment

Spec == Init /\ [][Next]_vars

\* While a thread can go on, one does.  Which one does not matter, as no thread
\* goes on for ever.
FairSpec == Spec /\ WF_vars(ProgramStep)

-----------------------------------------------------------------------------
(* Properties *)

Entry == [from : Clients \cup Servers, fields : 0 .. 3]

LineOK ==
  /\ line \in Seq(Entry)
  /\ \A i \in 1 .. Len(line) : line[i].fields <= Fields(line[i].from)
  /\ taken \in 0 .. 2 /\ (line = << >> => taken = 0)
  /\ line # << >> => taken <= line[1].fields

TypeOK ==
  /\ dns \in Address /\ dnsUp \in BOOLEAN
  /\ LineOK
  /\ server \in [Servers -> {"none", "starting", "registered", "listening",
                             "elected", "deaf", "ended"}]
  /\ events \in 0 .. MaxEvents
  /\ client \in [Clients -> {"asking", "waiting", "connecting", "greeting",
                             "on", "ended"}]
  /\ target \in [Clients -> Address \cup {NoAddress}]
  /\ files \in [Clients -> 0 .. ClientFiles]
  /\ conn \in [Socket -> {Unused, Over} \cup
               [at : Servers, is : Held \cup {"backlog"}]]

\* The DNS names one server, by the address and the port of the same one,
\* although the process that registers may end between the fields of its
\* message (dns.cpp:126-143).
WholeAddress == dns.ip = dns.port

\* A user never has more sessions at a server than MAX_ACTIVE_CONNECTIONS
\* (client.cpp:67), although clients leave their connections behind and connect
\* again, and sessions end at any time.
LimitKept ==
  \A s \in Servers : \A c \in Clients : Cardinality(OfUser(s, User[c])) <= MaxActive

Served(c) == client[c] = "on" /\ conn[Current(c)].is = "listed"

\* No client looks for a server for ever: whatever servers start, win elections,
\* register, listen and end meanwhile, each is served in the end, or its process
\* ends.  An address that nobody serves costs it a socket at each turn
\* (network.cpp:148-160), and so it can take only so many turns.
ServedOrEnded == []<>(\A c \in Clients : Served(c) \/ client[c] = "ended")

\* The places of a client whose process has ended are free again, those of the
\* connections it had left behind too (client.cpp:110-121).  Requests are not in
\* this module: a session that loops in read_file (file_manager.cpp:68-80), which
\* Requests has, would keep its place.
PlacesReturned ==
  []<>(\A x \in Socket : client[x[1]] = "ended" => conn[x].is \notin Listed)
=============================================================================
