---------------------------- MODULE RingElection ----------------------------
(***************************************************************************)
(* Failover of the replicated file server: the ring election of            *)
(* server/src/election.cpp, the heartbeat thread that starts it            *)
(* (heartbeat.cpp), the coms thread that answers metadata fetches while it *)
(* runs (coms.cpp) and the DNS register it writes (dns/src).               *)
(*                                                                         *)
(* A server is named by its position in the join order, which is also the  *)
(* order of every metadata list: registration only appends, a fetch copies *)
(* and the election only removes.  So a list is a set of servers plus the  *)
(* set of its entries whose server_type is primary.  Server 1 is the one   *)
(* started with `p'; the others have all registered before Init.           *)
(***************************************************************************)
EXTENDS Integers, Sequences, FiniteSets

CONSTANTS
  N,                    \* servers that joined
  Rank,                 \* the order of comp: (ip, port) as a number
  Crashable,            \* servers the environment may stop
  MaxCrashes,           \* bound on those stops
  Initiators,           \* servers whose heartbeat may be first to notice
  BusyComs,             \* servers that may still run deferred updates in Init
  DnsMayFail,           \* may a connection to the DNS be refused?
  SleepCoversElection   \* is sleep(5) longer than a running election?

Server == 1 .. N

ASSUME NAssumption == N \in Nat \ {0}
ASSUME RankAssumption ==
  /\ Rank \in [Server -> Nat]
  /\ \A a, b \in Server : Rank[a] = Rank[b] => a = b
ASSUME EnvironmentAssumption ==
  /\ Crashable \subseteq Server
  /\ Initiators \subseteq Server
  /\ BusyComs \subseteq Server
  /\ MaxCrashes \in Nat
  /\ DnsMayFail \in BOOLEAN
  /\ SleepCoversElection \in BOOLEAN

VARIABLES
  status,      \* of each process: "up", or why it ended
  serverType,  \* state.current_server.server_type
  metadata,    \* state.metadata: the servers listed, those listed as primary
  inbox,       \* connections waiting on the election port, in accept order
  el,          \* election_listener_thread
  hb,          \* heartbeat_writer_thread
  coms,        \* coms_listener_thread
  dns          \* the DNS process's primary_ip and primary_port

vars == <<status, serverType, metadata, inbox, el, hb, coms, dns>>

Up(s) == status[s] = "up"
ListsPrimary(s) == metadata[s].flagged # {}
Backups == {s \in Server : serverType[s] = "backup"}

-----------------------------------------------------------------------------
(* Data *)

Metadata == [servers : SUBSET Server, flagged : SUBSET Server]

\* A torn message is a connection whose sender died before its bytes left.
Message == [type : {"election", "elected", "torn"}, who : Server]

ElState ==
  [pc : {"accept", "next", "set_elected", "register", "send_election",
         "send_elected", "fetch", "store", "next_elected"},
   who : Server, next : Server, reply : Metadata]

HbState ==
  [pc : {"stopped", "lookup", "connect", "connected", "beating", "check",
         "filter", "next", "send"},
   who : Server, next : Server]

ComsState ==
  [pc : {"accept", "deferred", "store", "wedged"}, left : 0 .. N,
   reply : Metadata]

Remove(list, S) ==
  [servers |-> list.servers \ S, flagged |-> list.flagged \ S]

\* The first entry of the list that is marked primary, as a set.
FirstFlagged(list) ==
  {p \in list.flagged : \A q \in list.flagged : p <= q}

\* Mutant: the index of the primary is off by one.
Transmitted_OffByOne(list) ==
  [servers |-> list.servers,
   flagged |-> {p + 1 : p \in FirstFlagged(list)} \cap list.servers]

\* What a fetch transmits: the list and the index of one primary.
Transmitted(list) ==
  [servers |-> list.servers, flagged |-> FirstFlagged(list)]

\* Servers strictly after a and strictly before b, going round the ring.
Between(a, b) ==
  {x \in Server : IF a < b THEN a < x /\ x < b ELSE a < x \/ x < b}

\* b is the entry after a in the list of the members of S.
IsNext(b, a, S) == b \in S /\ S \cap Between(a, b) = {}

Outranks(a, b) == Rank[a] > Rank[b]

\* Every registration after its own left one deferred update at a backup.
Deferred(s) == IF s = 1 THEN 0 ELSE N - s

-----------------------------------------------------------------------------
(* The end of a process, and messages to one *)

\* The servers to which a thread of s is writing an election message.
Sending(s) ==
  {n \in Server :
     \/ el[s].pc \in {"send_election", "send_elected"} /\ el[s].next = n
     \/ hb[s].pc = "send" /\ hb[s].next = n}

\* The process s ends; a message being written may be cut short.
End(s, why) ==
  /\ status' = [status EXCEPT ![s] = why]
  /\ \E torn \in SUBSET Sending(s) :
       inbox' = [j \in Server |->
                   IF j = s THEN << >>
                   ELSE IF j \in torn /\ Up(j)
                        THEN Append(inbox[j], [type |-> "torn", who |-> s])
                        ELSE inbox[j]]
  /\ UNCHANGED <<serverType, metadata, el, hb, coms, dns>>

\* A message to a process that has ended is lost, and nobody is told.
Deliver(j, m) ==
  inbox' = IF Up(j) THEN [inbox EXCEPT ![j] = Append(@, m)] ELSE inbox

\* Stopped by the environment; a bounded number of times.
Crash(s) ==
  /\ Up(s) /\ s \in Crashable
  /\ Cardinality({c \in Server : status[c] = "crashed"}) < MaxCrashes
  /\ End(s, "crashed")

-----------------------------------------------------------------------------
(* election_listener_thread: one message at a time *)

ElGoto(s, pc) == el' = [el EXCEPT ![s].pc = pc]

ElRead(s, type) ==
  /\ Up(s) /\ el[s].pc = "accept" /\ inbox[s] # << >>
  /\ Head(inbox[s]).type = type

\* The listener cannot read a whole message: it ends the process.
ReadTorn(s) ==
  /\ ElRead(s, "torn")
  /\ End(s, "read_failed")

\* Mutant: the entries marked primary are kept.
HandleElection_KeepPrimary(s) ==
  /\ ElRead(s, "election")
  /\ inbox' = [inbox EXCEPT ![s] = Tail(@)]
  /\ el' = [el EXCEPT ![s].pc = "next", ![s].who = Head(inbox[s]).who]
  /\ UNCHANGED <<status, serverType, metadata, hb, coms, dns>>

\* handle_async_election_message, first critical section.
HandleElection(s) ==
  /\ ElRead(s, "election")
  /\ inbox' = [inbox EXCEPT ![s] = Tail(@)]
  /\ metadata' = [metadata EXCEPT ![s] = Remove(@, metadata[s].flagged)]
  /\ el' = [el EXCEPT ![s].pc = "next", ![s].who = Head(inbox[s]).who]
  /\ UNCHANGED <<status, serverType, hb, coms, dns>>

\* getNextServer when the own entry is gone: the consistency check.
InconsistentList(s) ==
  /\ Up(s) /\ s \notin metadata[s].servers
  /\ End(s, "inconsistent")

ElInconsistent(s) ==
  el[s].pc \in {"next", "next_elected"} /\ InconsistentList(s)

\* Mutant: a better candidate does not replace the one in the message.
ElNext_NoComparison(s) ==
  /\ Up(s) /\ el[s].pc = "next" /\ s \in metadata[s].servers
  /\ \E n \in Server :
       /\ IsNext(n, s, metadata[s].servers)
       /\ el' = [el EXCEPT
            ![s].next = n,
            ![s].pc = IF el[s].who = s THEN "set_elected"
                      ELSE "send_election"]
  /\ UNCHANGED <<status, serverType, metadata, inbox, hb, coms, dns>>

\* handle_async_election_message, from getNextServer on: won, or forward
\* the better candidate.
ElNext(s) ==
  /\ Up(s) /\ el[s].pc = "next" /\ s \in metadata[s].servers
  /\ \E n \in Server :
       /\ IsNext(n, s, metadata[s].servers)
       /\ el' = [el EXCEPT
            ![s].next = n,
            ![s].pc = IF el[s].who = s THEN "set_elected"
                      ELSE "send_election",
            ![s].who = IF Outranks(s, el[s].who) THEN s ELSE el[s].who]
  /\ UNCHANGED <<status, serverType, metadata, inbox, hb, coms, dns>>

SendElection(s) ==
  /\ Up(s) /\ el[s].pc = "send_election"
  /\ Deliver(el[s].next, [type |-> "election", who |-> el[s].who])
  /\ ElGoto(s, "accept")
  /\ UNCHANGED <<status, serverType, metadata, hb, coms, dns>>

\* Mutant: the message is sent before the write to the DNS.
SetElected_AnnounceFirst(s) ==
  /\ Up(s) /\ el[s].pc = "set_elected"
  /\ serverType' = [serverType EXCEPT ![s] = "primary"]
  /\ metadata' = [metadata EXCEPT
       ![s].flagged = @ \cup ({s} \cap metadata[s].servers)]
  /\ Deliver(el[s].next, [type |-> "elected", who |-> s])
  /\ ElGoto(s, "register")
  /\ UNCHANGED <<status, hb, coms, dns>>

\* setElected, the critical section.
SetElected(s) ==
  /\ Up(s) /\ el[s].pc = "set_elected"
  /\ serverType' = [serverType EXCEPT ![s] = "primary"]
  /\ metadata' = [metadata EXCEPT
       ![s].flagged = @ \cup ({s} \cap metadata[s].servers)]
  /\ ElGoto(s, "register")
  /\ UNCHANGED <<status, inbox, hb, coms, dns>>

\* Mutant: the server written to the DNS is the successor.
RegisterWithDns_Next(s) ==
  /\ Up(s) /\ el[s].pc = "register"
  /\ dns' = el[s].next
  /\ ElGoto(s, "send_elected")
  /\ UNCHANGED <<status, serverType, metadata, inbox, hb, coms>>

\* setElected, the write to the DNS.
RegisterWithDns(s) ==
  /\ Up(s) /\ el[s].pc = "register"
  /\ dns' = s
  /\ ElGoto(s, "send_elected")
  /\ UNCHANGED <<status, serverType, metadata, inbox, hb, coms>>

DnsUnreachable(s) ==
  /\ DnsMayFail /\ Up(s) /\ el[s].pc = "register"
  /\ End(s, "no_dns")

SendElected(s) ==
  /\ Up(s) /\ el[s].pc = "send_elected"
  /\ Deliver(el[s].next, [type |-> "elected", who |-> el[s].who])
  /\ ElGoto(s, "accept")
  /\ UNCHANGED <<status, serverType, metadata, hb, coms, dns>>

\* handle_async_elected_message: at the elected server the round ends.
HandleElected(s) ==
  /\ ElRead(s, "elected")
  /\ inbox' = [inbox EXCEPT ![s] = Tail(@)]
  /\ el' = IF Head(inbox[s]).who = s THEN el
           ELSE [el EXCEPT ![s].pc = "fetch", ![s].who = Head(inbox[s]).who]
  /\ UNCHANGED <<status, serverType, metadata, hb, coms, dns>>

\* The coms thread after it served a connection: deferred requests again.
Served(c, s) ==
  IF Deferred(s) = 0 THEN c
  ELSE [c EXCEPT ![s].pc = "deferred", ![s].left = Deferred(s)]

\* updateElected: connect to the elected server, which must be accepting.
FetchFromElected(s) ==
  LET e == el[s].who IN
  /\ Up(s) /\ el[s].pc = "fetch" /\ Up(e) /\ coms[e].pc = "accept"
  /\ el' = [el EXCEPT ![s].pc = "store",
                      ![s].reply = Transmitted(metadata[e])]
  /\ coms' = Served(coms, e)
  /\ UNCHANGED <<status, serverType, metadata, inbox, hb, dns>>

\* updateElected returns false; the result is ignored.
FetchFails(s) ==
  /\ Up(s) /\ el[s].pc = "fetch" /\ ~Up(el[s].who)
  /\ ElGoto(s, "next_elected")
  /\ UNCHANGED <<status, serverType, metadata, inbox, hb, coms, dns>>

StoreElected(s) ==
  /\ Up(s) /\ el[s].pc = "store"
  /\ metadata' = [metadata EXCEPT ![s] = el[s].reply]
  /\ ElGoto(s, "next_elected")
  /\ UNCHANGED <<status, serverType, inbox, hb, coms, dns>>

\* Mutant: the elected message is not forwarded.
ElNextElected_Stop(s) ==
  /\ Up(s) /\ el[s].pc = "next_elected" /\ s \in metadata[s].servers
  /\ ElGoto(s, "accept")
  /\ UNCHANGED <<status, serverType, metadata, inbox, hb, coms, dns>>

ElNextElected(s) ==
  /\ Up(s) /\ el[s].pc = "next_elected" /\ s \in metadata[s].servers
  /\ \E n \in Server :
       /\ IsNext(n, s, metadata[s].servers)
       /\ el' = [el EXCEPT ![s].next = n, ![s].pc = "send_elected"]
  /\ UNCHANGED <<status, serverType, metadata, inbox, hb, coms, dns>>

ElThread(s) ==
  \/ ReadTorn(s) \/ HandleElection(s) \/ ElNext(s) \/ SendElection(s)
  \/ SetElected(s) \/ RegisterWithDns(s) \/ DnsUnreachable(s)
  \/ SendElected(s) \/ HandleElected(s) \/ FetchFromElected(s)
  \/ FetchFails(s) \/ StoreElected(s) \/ ElNextElected(s)
  \/ ElInconsistent(s)

-----------------------------------------------------------------------------
(* heartbeat_writer_thread *)

\* No election message is queued, handled or being sent.
ElectionQuiet ==
  \A s \in Server : Up(s) =>
    /\ inbox[s] = << >> /\ el[s].pc = "accept"
    /\ hb[s].pc \notin {"check", "filter", "next", "send"}

HbGoto(s, pc) == hb' = [hb EXCEPT ![s].pc = pc]

HbWakes(s) ==
  /\ Up(s) /\ hb[s].pc = "lookup"
  /\ SleepCoversElection => ElectionQuiet

\* get_primary_server finds an entry; a primary's own heartbeat stops.
HbLookup(s) ==
  /\ HbWakes(s)
  /\ \E p \in FirstFlagged(metadata[s]) :
       hb' = [hb EXCEPT ![s].pc = IF p = s THEN "stopped" ELSE "connect",
                        ![s].who = p]
  /\ UNCHANGED <<status, serverType, metadata, inbox, el, coms, dns>>

\* get_primary_server returns NULL and is dereferenced.
HbNoPrimary(s) ==
  /\ HbWakes(s) /\ ~ListsPrimary(s)
  /\ End(s, "null_primary")

\* Connected; the port stays in the writer's buffer until the first beat.
HbConnect(s) ==
  /\ Up(s) /\ hb[s].pc = "connect" /\ Up(hb[s].who)
  /\ HbGoto(s, "connected")
  /\ UNCHANGED <<status, serverType, metadata, inbox, el, coms, dns>>

HbFirstBeat(s) ==
  /\ Up(s) /\ hb[s].pc = "connected" /\ Up(hb[s].who)
  /\ HbGoto(s, "beating")
  /\ UNCHANGED <<status, serverType, metadata, inbox, el, coms, dns>>

\* Mutant: the result of a beat is not looked at.
HbDetect_AnyBeat(s) ==
  /\ Up(s) /\ hb[s].pc \in {"connect", "connected", "beating"}
  /\ s \in Initiators \/ hb[s].who \notin metadata[s].servers
  /\ HbGoto(s, "check")
  /\ UNCHANGED <<status, serverType, metadata, inbox, el, coms, dns>>

\* A connect or a write fails: initiateElection is called.
HbDetect(s) ==
  /\ Up(s) /\ hb[s].pc \in {"connect", "connected", "beating"}
  /\ ~Up(hb[s].who)
  /\ s \in Initiators \/ hb[s].who \notin metadata[s].servers
  /\ HbGoto(s, "check")
  /\ UNCHANGED <<status, serverType, metadata, inbox, el, coms, dns>>

\* initiateElection reads server_type before it takes the mutex.
HbCheckType(s) ==
  /\ Up(s) /\ hb[s].pc = "check"
  /\ HbGoto(s, IF serverType[s] = "primary" THEN "lookup" ELSE "filter")
  /\ UNCHANGED <<status, serverType, metadata, inbox, el, coms, dns>>

\* Mutant: the list is compared with the current server.
HbFilter_Self(s) ==
  /\ Up(s) /\ hb[s].pc = "filter"
  /\ metadata' = [metadata EXCEPT ![s] = Remove(@, {s})]
  /\ HbGoto(s, IF hb[s].who \in metadata[s].servers THEN "next" ELSE "lookup")
  /\ UNCHANGED <<status, serverType, inbox, el, coms, dns>>

\* Mutant: an unchanged list does not end the initiation.
HbFilter_NeverIgnored(s) ==
  /\ Up(s) /\ hb[s].pc = "filter"
  /\ metadata' = [metadata EXCEPT ![s] = Remove(@, {hb[s].who})]
  /\ HbGoto(s, "next")
  /\ UNCHANGED <<status, serverType, inbox, el, coms, dns>>

\* initiateElection, the critical section.
HbFilter(s) ==
  /\ Up(s) /\ hb[s].pc = "filter"
  /\ metadata' = [metadata EXCEPT ![s] = Remove(@, {hb[s].who})]
  /\ HbGoto(s, IF hb[s].who \in metadata[s].servers THEN "next" ELSE "lookup")
  /\ UNCHANGED <<status, serverType, inbox, el, coms, dns>>

HbNext(s) ==
  /\ Up(s) /\ hb[s].pc = "next" /\ s \in metadata[s].servers
  /\ \E n \in Server :
       /\ IsNext(n, s, metadata[s].servers)
       /\ hb' = [hb EXCEPT ![s].pc = "send", ![s].next = n]
  /\ UNCHANGED <<status, serverType, metadata, inbox, el, coms, dns>>

HbInconsistent(s) == hb[s].pc = "next" /\ InconsistentList(s)

HbSend(s) ==
  /\ Up(s) /\ hb[s].pc = "send"
  /\ Deliver(hb[s].next, [type |-> "election", who |-> s])
  /\ HbGoto(s, "lookup")
  /\ UNCHANGED <<status, serverType, metadata, el, coms, dns>>

\* heartbeat_listener_thread of s: a client died before its first flush.
HeartbeatReadFails(s) ==
  /\ Up(s)
  /\ \E c \in Server : ~Up(c) /\ hb[c].pc = "connected" /\ hb[c].who = s
  /\ End(s, "read_failed")

HbThread(s) ==
  \/ HbLookup(s) \/ HbNoPrimary(s) \/ HbConnect(s) \/ HbFirstBeat(s)
  \/ HbDetect(s) \/ HbCheckType(s) \/ HbFilter(s) \/ HbNext(s) \/ HbSend(s)
  \/ HbInconsistent(s)

-----------------------------------------------------------------------------
(* coms_listener_thread: the deferred updates are never removed, so they   *)
(* are executed again after every connection it served.                    *)

\* Mutant: one iteration more than there are deferred requests.
NextDeferred_OneMore(s) ==
  [coms EXCEPT ![s].pc = IF coms[s].left >= 0 THEN "deferred" ELSE "accept",
               ![s].left = @ - 1]

NextDeferred(s) ==
  [coms EXCEPT ![s].pc = IF coms[s].left > 1 THEN "deferred" ELSE "accept",
               ![s].left = IF @ > 1 THEN @ - 1 ELSE 0]

ComsNoPrimary(s) ==
  /\ Up(s) /\ coms[s].pc = "deferred" /\ ~ListsPrimary(s)
  /\ End(s, "null_primary")

\* The primary is this very server: it waits for an answer from itself.
ComsSelfConnect(s) ==
  /\ Up(s) /\ coms[s].pc = "deferred" /\ s \in FirstFlagged(metadata[s])
  /\ coms' = [coms EXCEPT ![s].pc = "wedged"]
  /\ UNCHANGED <<status, serverType, metadata, inbox, el, hb, dns>>

ComsFetch(s) ==
  /\ Up(s) /\ coms[s].pc = "deferred"
  /\ \E p \in FirstFlagged(metadata[s]) \ {s} :
       \/ /\ Up(p) /\ coms[p].pc = "accept"
          /\ coms' = [Served(coms, p) EXCEPT
               ![s].pc = "store", ![s].reply = Transmitted(metadata[p])]
       \/ /\ ~Up(p)
          /\ coms' = NextDeferred(s)
  /\ UNCHANGED <<status, serverType, metadata, inbox, el, hb, dns>>

ComsStore(s) ==
  /\ Up(s) /\ coms[s].pc = "store"
  /\ metadata' = [metadata EXCEPT ![s] = coms[s].reply]
  /\ coms' = NextDeferred(s)
  /\ UNCHANGED <<status, serverType, inbox, el, hb, dns>>

ComsThread(s) ==
  ComsNoPrimary(s) \/ ComsSelfConnect(s) \/ ComsFetch(s) \/ ComsStore(s)

-----------------------------------------------------------------------------
(* Startup is over: all have registered, every list is complete.           *)

Everybody == [servers |-> Server, flagged |-> {1}]

Init ==
  /\ status = [s \in Server |-> "up"]
  /\ serverType = [s \in Server |-> IF s = 1 THEN "primary" ELSE "backup"]
  /\ metadata = [s \in Server |-> Everybody]
  /\ inbox = [s \in Server |-> << >>]
  /\ el = [s \in Server |->
             [pc |-> "accept", who |-> s, next |-> s, reply |-> Everybody]]
  /\ hb = [s \in Server |->
             [pc |-> IF s = 1 THEN "stopped" ELSE "lookup",
              who |-> 1, next |-> s]]
  /\ \E left \in [Server -> 0 .. N] :
       /\ \A s \in Server :
            left[s] <= IF s \in BusyComs THEN Deferred(s) ELSE 0
       /\ coms = [s \in Server |->
                    [pc |-> IF left[s] = 0 THEN "accept" ELSE "deferred",
                     left |-> left[s], reply |-> Everybody]]
  /\ dns = 1

Next ==
  \E s \in Server :
    \/ ElThread(s) \/ HbThread(s) \/ ComsThread(s)
    \/ HeartbeatReadFails(s) \/ Crash(s)

Spec == Init /\ [][Next]_vars

\* Every thread keeps running while its process does.
Fairness ==
  \A s \in Server :
    /\ WF_vars(ElThread(s))
    /\ WF_vars(HbThread(s))
    /\ WF_vars(ComsThread(s))
    /\ WF_vars(HeartbeatReadFails(s))

FairSpec == Spec /\ Fairness

-----------------------------------------------------------------------------
(* Properties *)

\* Every variable keeps the shape the program's structures give it; a thread
\* never follows a server that does not exist.
TypeOK ==
  /\ status \in [Server -> {"up", "crashed", "read_failed", "inconsistent",
                            "null_primary", "no_dns"}]
  /\ serverType \in [Server -> {"primary", "backup"}]
  /\ metadata \in [Server -> Metadata]
  /\ inbox \in [Server -> Seq(Message)]
  /\ el \in [Server -> ElState]
  /\ hb \in [Server -> HbState]
  /\ coms \in [Server -> ComsState]
  /\ dns \in Server

\* A server that won an election outranks, in the order of comp, every server
\* that is still a backup, whatever concurrent initiations, crashes and lost
\* messages the ring went through (handle_async_election_message).
ElectedOutranksBackups ==
  \A e \in Server \ {1} : \A b \in Backups :
    serverType[e] = "primary" => Outranks(e, b)

\* No list ever loses a server that is still a backup: what initiateElection
\* and handle_async_election_message remove, and what a fetch overwrites, are
\* former primaries, so the ring of each server visits every backup.
BackupsNeverForgotten ==
  \A s \in Server : Backups \subseteq metadata[s].servers

\* An entry marked primary, in anybody's list, is a server that itself took
\* the role: the index a fetch transmits never marks a backup.
FlaggedArePrimaries ==
  \A s \in Server : metadata[s].flagged \cap Backups = {}

\* When no deferred update is left over from startup, then once somebody took
\* over no other server lists the old primary: a late detection of its death
\* is ignored by initiateElection instead of starting one more election (the
\* log line of election.cpp:58).
OldPrimaryForgotten ==
  (\E e \in Server \ {1} : serverType[e] = "primary")
    => \A s \in Server \ {1} : 1 \notin metadata[s].servers

\* No list names two primaries: get_primary_server and the fetch handler, which
\* stop at the first entry marked primary, lose nothing by it.
AtMostOneFlagged ==
  \A s \in Server : Cardinality(metadata[s].flagged) <= 1

\* While an <elected, e> message is on its way, e is past its write to the DNS:
\* nobody learns of a primary that clients cannot find (setElected, then
\* sendElectedMessage).
AnnouncedAfterRegistered ==
  \A s, e \in Server :
    (\E i \in 1 .. Len(inbox[s]) :
       inbox[s][i] = [type |-> "elected", who |-> e])
      => el[e].pc # "register"

\* Two running processes never both hold the role of primary. An <election>
\* that arrives late strips the winner of the round before and is carried on
\* without it, so this needs that nobody else starts a round meanwhile.  That
\* there is a primary at all is FailoverCompletes; an election lost with its
\* receiver (election.cpp:149), or won by a server that cannot reach the DNS
\* (election.cpp:272), leaves none.
AtMostOneLivePrimary ==
  \A a, b \in Server \ Backups : Up(a) /\ Up(b) => a = b

\* As long as one server alone is the first to notice a death, getNextServer
\* finds the current server in the metadata, as its consistency check demands
\* (election.cpp:98).  A second detector's <election>, which makes the winner of
\* the first round remove itself (election.cpp:395), ends that winner there.
NoInconsistentList == \A s \in Server : status[s] # "inconsistent"

\* Every takeover and every write to the DNS is one the succession allows.
Succession ==
  INSTANCE PrimarySuccession WITH
    primaries <- {s \in Server : serverType[s] = "primary"},
    registered <- dns
RefinesSuccession == Succession!Spec

\* All servers that were not stopped run and know e, and only e, as the
\* primary, and the DNS too.
Agreed(e) ==
  /\ Up(e) /\ serverType[e] = "primary" /\ dns = e
  /\ \A s \in Server :
       status[s] # "crashed" => Up(s) /\ FirstFlagged(metadata[s]) = {e}

\* A server other than the old primary that has ended.
Disturbed == \E s \in Server \ {1} : ~Up(s)

\* A server whose coms thread waits for itself; it stays that way.
Wedged == \E s \in Server : coms[s].pc = "wedged"

\* After the primary died, the remaining servers come to agree, for good, on
\* one new primary that the DNS names (handle_async_election_message and
\* handle_async_elected_message, until the round is back at the winner), on two
\* conditions: that none of them ends as well, and that the winner's coms thread
\* is not wedged.  It is whenever the winner has an update left over from
\* startup, that is, unless it joined last (coms.cpp:597, ElectionWedged); so
\* this promises agreement only where the server that joined last wins.
FailoverCompletes ==
  ~Up(1) ~> [](Disturbed \/ Wedged \/ \E e \in Server : Agreed(e))

\* Only an election that is still running leaves a server without a primary to
\* look up (the NULL of get_primary_server in heartbeat_writer_thread), as long
\* as no server but the old primary has ended: sleep(5) is all it takes to be
\* safe from it.
PrimaryLookupSafe ==
  [][\A s \in Server :
       ~Disturbed /\ status'[s] = "null_primary" => ~ElectionQuiet]_vars

\* A server that connects to the elected one in updateElected gets its
\* metadata: the fetch ends (the comment of election.cpp:308).
FetchEnds ==
  \A s \in Server : (el[s].pc = "fetch") ~> (el[s].pc # "fetch")
=============================================================================
