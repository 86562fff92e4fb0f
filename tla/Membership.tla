----------------------------- MODULE Membership -----------------------------
(***************************************************************************)
(* How a server joins: backup_init of server/src/main.cpp, and the coms    *)
(* thread of every server (server/src/coms.cpp), which answers requests,   *)
(* notifies the other backups of a registration, and fetches the list      *)
(* again for every notification it ever received.                          *)
(*                                                                         *)
(* Server 1 is the primary and runs for good; elections are the subject of *)
(* RingElection.  The coms thread of a server serves one connection at a   *)
(* time, until the client closes it.  A client is <<"main", s>>, the main  *)
(* thread of the joining server s, or <<"coms", s>>, the coms thread of s. *)
(* A reply is read in the step that writes it; what the client does with   *)
(* it is a step of its own.  req_hello, which changes nothing, is part of  *)
(* the request that follows it.                                            *)
(***************************************************************************)
EXTENDS Integers, Sequences, FiniteSets

CONSTANTS
  N,            \* servers
  Contact,      \* the other server on the command line of each
  Crashable,    \* backups the environment may stop
  MaxCrashes    \* bound on those stops

Server == 1 .. N
Client == {"main", "coms"} \X Server

ASSUME NAssumption == N \in Nat \ {0}
ASSUME ContactAssumption == Contact \in [Server -> Server]
ASSUME EnvironmentAssumption ==
  /\ Crashable \subseteq Server \ {1}
  /\ MaxCrashes \in Nat

VARIABLES
  status,    \* of each process: "off", "up", or why it ended
  list,      \* state.metadata.servers, in order
  deferred,  \* the length of state.deferred_requests
  backlog,   \* clients waiting to be accepted on the coms port
  main,      \* the main thread, in backup_init
  coms       \* coms_listener_thread

vars == <<status, list, deferred, backlog, main, coms>>

Up(s) == status[s] = "up"
Lists(s, t) == \E i \in 1 .. Len(list[s]) : list[s][i] = t

\* The entry of server 1 is the only one whose server_type is primary.
ListsPrimary(s) == Lists(s, 1)
Joined(s) == main[s].pc = "joined"

MainState ==
  [pc : {"off", "connect", "ask", "asked", "closed", "register", "fetch",
         "store", "joined"},
   reply : Seq(Server)]

ComsState ==
  [pc : {"off", "deferred", "fetch", "store", "accept", "serve", "notify",
         "await", "defer"},
   conn : Client, todo : Seq(Server), left : Nat, reply : Seq(Server)]

-----------------------------------------------------------------------------
(* The end of a process *)

End(s, why) ==
  /\ status' = [status EXCEPT ![s] = why]
  /\ UNCHANGED <<list, deferred, backlog, main, coms>>

\* Stopped by the environment; a bounded number of times.
Crash(s) ==
  /\ Up(s) /\ s \in Crashable
  /\ Cardinality({c \in Server : status[c] = "crashed"}) < MaxCrashes
  /\ End(s, "crashed")

-----------------------------------------------------------------------------
(* The loop of the coms thread *)

\* The state c of the coms thread of t at the top of its loop, with d
\* deferred requests.
Top(c, d) ==
  [c EXCEPT !.pc = IF d = 0 THEN "accept" ELSE "deferred", !.left = d]

\* The client of whoever serves conn closes it.
Closed(conn) ==
  [t \in Server |->
     IF coms[t].pc = "serve" /\ coms[t].conn = conn
     THEN Top(coms[t], deferred[t]) ELSE coms[t]]

Enqueue(t, conn) == backlog' = [backlog EXCEPT ![t] = Append(@, conn)]

Accept(t) ==
  /\ Up(t) /\ coms[t].pc = "accept" /\ backlog[t] # << >>
  /\ coms' = [coms EXCEPT ![t].pc = "serve", ![t].conn = Head(backlog[t])]
  /\ backlog' = [backlog EXCEPT ![t] = Tail(@)]
  /\ UNCHANGED <<status, list, deferred, main>>

Serves(t, thread, pc) ==
  /\ Up(t) /\ coms[t].pc = "serve"
  /\ coms[t].conn[1] = thread
  /\ LET c == coms[t].conn[2] IN
       Up(c) /\ pc = (IF thread = "main" THEN main[c].pc ELSE coms[c].pc)

\* The client's process ended: the next read fails.
ClientGone(t) ==
  /\ Up(t) /\ coms[t].pc = "serve" /\ ~Up(coms[t].conn[2])
  /\ coms' = [coms EXCEPT ![t] = Top(@, deferred[t])]
  /\ UNCHANGED <<status, list, deferred, backlog, main>>

\* Mutant: the loop does not end with the last request.
NextDeferred_NoEnd(c) == [c EXCEPT !.pc = "deferred", !.left = c.left - 1]

\* The deferred request that was executed is not removed, only passed.
NextDeferred(c) ==
  [c EXCEPT !.pc = IF c.left = 1 THEN "accept" ELSE "deferred",
            !.left = c.left - 1]

DeferredConnect(t) ==
  /\ Up(t) /\ coms[t].pc = "deferred" /\ ListsPrimary(t)
  /\ Enqueue(1, <<"coms", t>>)
  /\ coms' = [coms EXCEPT ![t].pc = "fetch"]
  /\ UNCHANGED <<status, list, deferred, main>>

\* Store the list, close the connection.
DeferredStore(t) ==
  /\ Up(t) /\ coms[t].pc = "store"
  /\ list' = [list EXCEPT ![t] = coms[t].reply]
  /\ coms' = [Closed(<<"coms", t>>) EXCEPT ![t] = NextDeferred(@)]
  /\ UNCHANGED <<status, deferred, backlog, main>>

-----------------------------------------------------------------------------
(* coms_handle_request *)

\* Mutant: the connection is closed before the list is stored.
ServeFetchMain_CloseFirst(t) ==
  LET m == coms[t].conn[2] IN
  /\ Serves(t, "main", "fetch")
  /\ main' = [main EXCEPT ![m].pc = "store", ![m].reply = list[t]]
  /\ coms' = Closed(<<"main", m>>)
  /\ UNCHANGED <<status, list, deferred, backlog>>

ServeFetchMain(t) ==
  LET m == coms[t].conn[2] IN
  /\ Serves(t, "main", "fetch")
  /\ main' = [main EXCEPT ![m].pc = "store", ![m].reply = list[t]]
  /\ UNCHANGED <<status, list, deferred, backlog, coms>>

ServeFetchComs(t) ==
  LET c == coms[t].conn[2] IN
  /\ Serves(t, "coms", "fetch")
  /\ coms' = [coms EXCEPT ![c].pc = "store", ![c].reply = list[t]]
  /\ UNCHANGED <<status, list, deferred, backlog, main>>

ServeGetPrimary(t) ==
  /\ Serves(t, "main", "ask") /\ ListsPrimary(t)
  /\ main' = [main EXCEPT ![coms[t].conn[2]].pc = "asked"]
  /\ UNCHANGED <<status, list, deferred, backlog, coms>>

\* get_primary_server returns NULL and is dereferenced.
NullPrimary(t) ==
  /\ Up(t) /\ ~ListsPrimary(t)
  /\ coms[t].pc = "deferred" \/ Serves(t, "main", "ask")
  /\ End(t, "null_primary")

\* Mutant: a new server is put first.
ServeRegister_First(t) ==
  LET m == coms[t].conn[2]
      servers == <<m>> \o list[t]
  IN
  /\ Serves(t, "main", "register")
  /\ list' = [list EXCEPT ![t] = servers]
  /\ main' = [main EXCEPT ![m].pc = "fetch"]
  /\ coms' = [coms EXCEPT ![t].pc = "notify",
                ![t].todo = servers]
  /\ UNCHANGED <<status, deferred, backlog>>

\* Append, answer, and take a copy of the list to notify the others from.
ServeRegister(t) ==
  LET m == coms[t].conn[2]
      servers == Append(list[t], m)
  IN
  /\ Serves(t, "main", "register")
  /\ list' = [list EXCEPT ![t] = servers]
  /\ main' = [main EXCEPT ![m].pc = "fetch"]
  /\ coms' = [coms EXCEPT ![t].pc = "notify",
                ![t].todo = servers]
  /\ UNCHANGED <<status, deferred, backlog>>

\* Neither the primary nor the server that registered is notified.
Excluded(t) == {1, coms[t].conn[2]}

NotifySkip(t) ==
  /\ Up(t) /\ coms[t].pc = "notify" /\ coms[t].todo # << >>
  /\ Head(coms[t].todo) \in Excluded(t)
  /\ coms' = [coms EXCEPT ![t].todo = Tail(@)]
  /\ UNCHANGED <<status, list, deferred, backlog, main>>

NotifyConnect(t) ==
  /\ Up(t) /\ coms[t].pc = "notify" /\ coms[t].todo # << >>
  /\ Head(coms[t].todo) \notin Excluded(t) /\ Up(Head(coms[t].todo))
  /\ Enqueue(Head(coms[t].todo), <<"coms", t>>)
  /\ coms' = [coms EXCEPT ![t].pc = "await"]
  /\ UNCHANGED <<status, list, deferred, main>>

\* A backup cannot be reached or does not answer: the handler fails, and
\* the connection of the server that registered is left open but unserved.
NotifyFails(t) ==
  /\ Up(t) /\ coms[t].pc \in {"notify", "await"} /\ coms[t].todo # << >>
  /\ Head(coms[t].todo) \notin Excluded(t) /\ ~Up(Head(coms[t].todo))
  /\ coms' = [coms EXCEPT ![t] = Top(@, deferred[t])]
  /\ UNCHANGED <<status, list, deferred, backlog, main>>

NotifyDone(t) ==
  /\ Up(t) /\ coms[t].pc = "notify" /\ coms[t].todo = << >>
  /\ coms' = [coms EXCEPT ![t].pc = "serve"]
  /\ UNCHANGED <<status, list, deferred, backlog, main>>

\* Mutant: the update is not answered.
ServeUpdate_NoAnswer(t) ==
  /\ Serves(t, "coms", "await")
  /\ coms' = [coms EXCEPT ![t].pc = "defer"]
  /\ UNCHANGED <<status, list, deferred, backlog, main>>

\* The answer: the notifier closes the connection and goes on.
ServeUpdate(t) ==
  LET c == coms[t].conn[2] IN
  /\ Serves(t, "coms", "await")
  /\ coms' = [coms EXCEPT ![t].pc = "defer",
                          ![c].pc = "notify", ![c].todo = Tail(@)]
  /\ UNCHANGED <<status, list, deferred, backlog, main>>

\* Mutant: a second pending update is not deferred.
Defer_Coalesce(t) ==
  /\ Up(t) /\ coms[t].pc = "defer"
  /\ deferred' = [deferred EXCEPT ![t] = 1]
  /\ coms' = [coms EXCEPT ![t] = Top(@, deferred'[t])]
  /\ UNCHANGED <<status, list, backlog, main>>

\* The update that was answered is deferred, and then no request follows it.
Defer(t) ==
  /\ Up(t) /\ coms[t].pc = "defer"
  /\ deferred' = [deferred EXCEPT ![t] = @ + 1]
  /\ coms' = [coms EXCEPT ![t] = Top(@, deferred'[t])]
  /\ UNCHANGED <<status, list, backlog, main>>

ComsThread(t) ==
  \/ Accept(t) \/ ClientGone(t)
  \/ DeferredConnect(t) \/ DeferredStore(t)
  \/ ServeFetchMain(t) \/ ServeFetchComs(t)
  \/ ServeGetPrimary(t) \/ NullPrimary(t)
  \/ ServeRegister(t) \/ NotifySkip(t) \/ NotifyConnect(t) \/ NotifyFails(t)
  \/ NotifyDone(t) \/ ServeUpdate(t) \/ Defer(t)

-----------------------------------------------------------------------------
(* backup_init *)

\* state_init; the coms thread starts and does not wait for the main one.
Start(s) ==
  /\ status[s] = "off"
  /\ status' = [status EXCEPT ![s] = "up"]
  /\ list' = [list EXCEPT ![s] = <<s>>]
  /\ main' = [main EXCEPT ![s].pc = "connect"]
  /\ coms' = [coms EXCEPT ![s] = Top(@, deferred[s])]
  /\ UNCHANGED <<deferred, backlog>>

MainConnect(s) ==
  /\ Up(s) /\ main[s].pc = "connect" /\ Up(Contact[s])
  /\ Enqueue(Contact[s], <<"main", s>>)
  /\ main' = [main EXCEPT ![s].pc = "ask"]
  /\ UNCHANGED <<status, list, deferred, coms>>

\* The other server refuses or does not answer.  After a refused connection
\* the code goes on with a pointer that was never set: the process ends,
\* with a signal or with the same error as for no answer.
MainUnreachable(s) ==
  /\ Up(s) /\ main[s].pc \in {"connect", "ask"} /\ ~Up(Contact[s])
  /\ End(s, "no_contact")

\* Close the connection to the other server.
MainClose(s) ==
  /\ Up(s) /\ main[s].pc = "asked"
  /\ coms' = Closed(<<"main", s>>)
  /\ main' = [main EXCEPT ![s].pc = "closed"]
  /\ UNCHANGED <<status, list, deferred, backlog>>

MainConnectPrimary(s) ==
  /\ Up(s) /\ main[s].pc = "closed"
  /\ Enqueue(1, <<"main", s>>)
  /\ main' = [main EXCEPT ![s].pc = "register"]
  /\ UNCHANGED <<status, list, deferred, coms>>

\* Store the list, close the connection, start the heartbeat.
MainStore(s) ==
  /\ Up(s) /\ main[s].pc = "store"
  /\ list' = [list EXCEPT ![s] = main[s].reply]
  /\ coms' = Closed(<<"main", s>>)
  /\ main' = [main EXCEPT ![s].pc = "joined"]
  /\ UNCHANGED <<status, deferred, backlog>>

MainThread(s) ==
  \/ MainConnect(s) \/ MainUnreachable(s) \/ MainClose(s)
  \/ MainConnectPrimary(s) \/ MainStore(s)

-----------------------------------------------------------------------------

Init ==
  /\ status = [s \in Server |-> IF s = 1 THEN "up" ELSE "off"]
  /\ list = [s \in Server |-> IF s = 1 THEN <<1>> ELSE << >>]
  /\ deferred = [s \in Server |-> 0]
  /\ backlog = [s \in Server |-> << >>]
  /\ main = [s \in Server |->
               [pc |-> IF s = 1 THEN "joined" ELSE "off", reply |-> << >>]]
  /\ coms = [s \in Server |->
               [pc |-> IF s = 1 THEN "accept" ELSE "off",
                conn |-> <<"main", s>>, todo |-> << >>, left |-> 0,
                reply |-> << >>]]

Next ==
  \E s \in Server : Start(s) \/ MainThread(s) \/ ComsThread(s) \/ Crash(s)

Spec == Init /\ [][Next]_vars

\* Every thread keeps running while its process does.
Fairness ==
  \A s \in Server : WF_vars(MainThread(s)) /\ WF_vars(ComsThread(s))

FairSpec == Spec /\ Fairness

-----------------------------------------------------------------------------
(* Properties *)

TypeOK ==
  /\ status \in [Server -> {"off", "up", "crashed", "null_primary",
                            "no_contact"}]
  /\ list \in [Server -> Seq(Server)]
  /\ deferred \in [Server -> Nat]
  /\ backlog \in [Server -> Seq(Client)]
  /\ main \in [Server -> MainState]
  /\ coms \in [Server -> ComsState]

\* The lists of servers that have joined are prefixes of one order that only
\* grows, and none ever moves back, although a joining server's main thread
\* and its coms thread both store lists they fetched earlier.
Log ==
  INSTANCE RegistrationLog WITH
    log <- list[1],
    view <- [s \in Server |-> IF Joined(s) THEN list[s] ELSE << >>]
RefinesLog == Log!Spec

\* Whoever has joined, or has an update to repeat, has a primary in its list,
\* crashes included: coms.cpp:235 and 601 dereference what they find.  Only a
\* server that is asked while it still joins does not.
DeferredFindsPrimary ==
  \A s \in Server :
    Up(s) /\ (Joined(s) \/ coms[s].pc = "deferred") => ListsPrimary(s)

\* Servers that registered after s, in the primary's order.
After(s) ==
  {i \in 1 .. Len(list[1]) :
     \E j \in 1 .. i - 1 : list[1][j] = s}

\* An update that has been answered and is not deferred yet.
Due(s) == IF coms[s].pc = "defer" THEN 1 ELSE 0

\* When no registration is being handled, every backup holds one deferred
\* update for each server that registered after it, or has answered the last
\* one and is about to defer it (coms.cpp:246-250; the comment of coms.cpp:214
\* says that every other server is asked to update).  As long as no process has
\* ended: NotifyFails skips whoever is behind a dead one.
EverybodyNotified ==
  (\A s \in Server : status[s] \in {"off", "up"})
  /\ coms[1].pc \notin {"notify", "await"}
    => \A s \in Server \ {1} :
         Up(s) /\ Lists(1, s) => deferred[s] + Due(s) = Cardinality(After(s))

\* Each server the operator starts joins, and all lists become complete.
AllJoin ==
  <>[](\A s \in Server : Up(s) => Joined(s) /\ list[s] = list[1])

\* The operator starts a server when those that run have joined and have
\* nothing left to do, and names one of them that Fits; nobody is stopped.
TakenInTurn(Fits(_)) ==
  /\ \A s \in Server : status[s] \in {"off", "up"}
  /\ \A s \in Server : Up(s) /\ main[s].pc = "connect" =>
       /\ Up(Contact[s]) /\ Fits(Contact[s])
       /\ \A t \in Server \ {s} : Up(t) =>
            Joined(t) /\ coms[t].pc = "accept" /\ backlog[t] = << >>

\* Servers taken one after another all join (backup_init, `On startup').
AllJoinInTurn == []TakenInTurn(LAMBDA c : TRUE) => AllJoin

\* They do when each is given the primary or the server that joined last: such
\* a contact has no update to repeat after it has answered (coms.cpp:597), and
\* is not waiting for the primary when the primary notifies it.
AllJoinByNewest == []TakenInTurn(LAMBDA c : deferred[c] = 0) => AllJoin
=============================================================================
