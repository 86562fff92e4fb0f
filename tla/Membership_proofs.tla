-------------------------- MODULE Membership_proofs --------------------------
(***************************************************************************)
(* Proofs about Membership for any number of servers, any contact of each  *)
(* and any stops of backups.                                               *)
(***************************************************************************)
EXTENDS Membership, FiniteSetTheorems, SequenceTheorems, TLAPS

-----------------------------------------------------------------------------
(* The inductive invariant.  list[1] is the order of registration; every   *)
(* other list is a prefix of it.                                           *)

\* conn waits on the coms port of u, or is served by its coms thread.
In(conn, u) == \E i \in 1 .. Len(backlog[u]) : backlog[u][i] = conn
At(conn, u) == coms[u].pc = "serve" /\ coms[u].conn = conn

Prefix(k, l) ==
  /\ Len(k) <= Len(l)
  /\ \A i \in 1 .. Len(k) : k[i] = l[i]

\* While the primary notifies the others of a registration, it has passed
\* the first Passed of its list.
InRound == coms[1].pc \in {"notify", "await"}
Passed == Len(list[1]) - Len(coms[1].todo)

PrimaryRuns ==
  /\ Up(1) /\ Joined(1) /\ deferred[1] = 0
  /\ coms[1].pc \in {"accept", "serve", "notify", "await"}
  /\ Len(list[1]) > 0 /\ list[1][1] = 1
  /\ \A i, j \in 1 .. Len(list[1]) : list[1][i] = list[1][j] => i = j

NotStarted ==
  \A s \in Server :
    /\ status[s] = "off" <=> main[s].pc = "off"
    /\ status[s] = "off" =>
         coms[s].pc = "off" /\ deferred[s] = 0 /\ backlog[s] = << >>

Registered ==
  \A s \in Server :
    Lists(1, s) <=> main[s].pc \in {"fetch", "store", "joined"}

Prefixes ==
  \A s \in Server :
    /\ Joined(s) => Prefix(list[s], list[1]) /\ Lists(s, s)
    /\ main[s].pc = "store" =>
         /\ Prefix(main[s].reply, list[1])
         /\ \E i \in 1 .. Len(main[s].reply) : main[s].reply[i] = s
    /\ coms[s].pc = "store" =>
         /\ Prefix(coms[s].reply, list[1])
         /\ Len(list[s]) <= Len(coms[s].reply)

\* Updates are deferred by servers that have joined.
Repeating ==
  \A s \in Server :
    /\ deferred[s] > 0 \/ coms[s].pc = "defer" => Joined(s)
    /\ coms[s].pc \in {"deferred", "fetch", "store"} =>
         deferred[s] > 0 /\ coms[s].left > 0
    /\ coms[s].pc \in {"notify", "await"} => s = 1

\* Where the connections of the main thread of m and of the coms thread of c
\* may be.
OfMain(m, u) ==
  /\ main[m].pc \notin {"off", "connect", "closed"}
  /\ main[m].pc \in {"ask", "asked"} => u = Contact[m]
  /\ main[m].pc = "asked" => ~In(<<"main", m>>, u)
  /\ main[m].pc \in {"register", "fetch", "store"} => u = 1

OfComs(c, u) ==
  IF c = 1
  THEN Up(u) => coms[1].pc = "await" /\ Head(coms[1].todo) = u
  ELSE u = 1 /\ coms[c].pc \in {"fetch", "store"}

Places ==
  \A s, u \in Server :
    /\ In(<<"main", s>>, u) \/ At(<<"main", s>>, u) => OfMain(s, u)
    /\ In(<<"coms", s>>, u) \/ At(<<"coms", s>>, u) => OfComs(s, u)

\* No connection is twice at one server.
Once ==
  \A u \in Server :
    /\ \A i, j \in 1 .. Len(backlog[u]) :
         backlog[u][i] = backlog[u][j] => i = j
    /\ coms[u].pc \in {"serve", "notify", "await"} => ~In(coms[u].conn, u)

\* A round is for the last of the list, and what is left of it is the end of
\* the list.
Round ==
  InRound =>
    /\ coms[1].conn = <<"main", list[1][Len(list[1])]>>
    /\ Passed >= 0
    /\ \A i \in 1 .. Len(coms[1].todo) :
         coms[1].todo[i] = list[1][Passed + i]
    /\ coms[1].pc = "await" =>
         coms[1].todo # << >> /\ Head(coms[1].todo) \notin Excluded(1)

\* Behind one that has ended: s, which is never notified.
Stuck(s) ==
  \E i, j \in 1 .. Len(list[1]) :
    /\ i < j /\ list[1][j] = s /\ ~Up(list[1][i])
    /\ InRound => i > Passed

\* Who has registered and not fetched is served by the primary, or is stuck:
\* it is not notified before it has joined.
Fetching ==
  \A s \in Server : Up(s) =>
    /\ main[s].pc = "store" => At(<<"main", s>>, 1)
    /\ coms[s].pc = "store" => At(<<"coms", s>>, 1)
    /\ main[s].pc = "fetch" =>
         \/ coms[1].pc # "accept" /\ coms[1].conn = <<"main", s>>
         \/ Stuck(s)

IInv ==
  /\ TypeOK /\ PrimaryRuns /\ NotStarted /\ Registered /\ Prefixes
  /\ Repeating /\ Places /\ Once /\ Round /\ Fetching

-----------------------------------------------------------------------------
(* Type correctness *)

LEMMA OneIsServer == 1 \in Server
  BY NAssumption DEF Server

LEMMA TopFields ==
  ASSUME NEW c \in ComsState, NEW d \in Nat
  PROVE  /\ Top(c, d) \in ComsState
         /\ Top(c, d).pc = IF d = 0 THEN "accept" ELSE "deferred"
         /\ Top(c, d).left = d
         /\ Top(c, d).conn = c.conn
         /\ Top(c, d).todo = c.todo
         /\ Top(c, d).reply = c.reply
  BY DEF Top, ComsState

LEMMA ClosedFields ==
  ASSUME TypeOK, NEW conn, NEW t \in Server
  PROVE  /\ Closed(conn) \in [Server -> ComsState]
         /\ Closed(conn)[t] =
              IF coms[t].pc = "serve" /\ coms[t].conn = conn
              THEN Top(coms[t], deferred[t]) ELSE coms[t]
  BY TopFields DEF Closed, TypeOK

\* A client in the conn field, taken apart.
LEMMA ConnType ==
  ASSUME TypeOK, NEW t \in Server
  PROVE  /\ coms[t].conn \in Client /\ coms[t].conn[2] \in Server
         /\ coms[t].conn[1] \in {"main", "coms"}
         /\ coms[t].conn = <<coms[t].conn[1], coms[t].conn[2]>>
<1>1. coms[t].conn \in Client
  BY DEF TypeOK, ComsState
<1>. QED
  BY <1>1 DEF Client

\* A connection arrives on the coms port of t.
LEMMA EnqueueType ==
  ASSUME TypeOK, NEW t \in Server, NEW conn \in Client, Enqueue(t, conn)
  PROVE  /\ backlog' \in [Server -> Seq(Client)]
         /\ Len(backlog[t]) \in Nat
         /\ Len(backlog'[t]) = Len(backlog[t]) + 1
         /\ \A i \in 1 .. Len(backlog[t]) : backlog'[t][i] = backlog[t][i]
         /\ backlog'[t][Len(backlog[t]) + 1] = conn
         /\ \A u \in Server \ {t} : backlog'[u] = backlog[u]
<1>1. backlog \in [Server -> Seq(Client)] /\ backlog[t] \in Seq(Client)
  BY DEF TypeOK
<1>2. backlog' = [backlog EXCEPT ![t] = Append(backlog[t], conn)]
  BY DEF Enqueue
<1>3. Append(backlog[t], conn) \in Seq(Client)
  BY <1>1, AppendProperties
<1>4. backlog'[t] = Append(backlog[t], conn)
  BY <1>1, <1>2
<1>. QED
  BY <1>1, <1>2, <1>3, <1>4, AppendProperties, LenProperties

LEMMA TypeInit == Init => TypeOK
<1>. SUFFICES ASSUME Init PROVE TypeOK
  OBVIOUS
<1>1. list \in [Server -> Seq(Server)]
  BY OneIsServer DEF Init
<1>2. main \in [Server -> MainState]
  BY DEF Init, MainState
<1>3. coms \in [Server -> ComsState]
  BY DEF Init, ComsState, Client
<1>. QED
  BY <1>1, <1>2, <1>3 DEF Init, TypeOK

LEMMA TypeStep == IInv /\ [Next]_vars => TypeOK'
<1>. SUFFICES ASSUME TypeOK, Repeating, Round, [Next]_vars PROVE TypeOK'
  BY DEF IInv
<1>. USE OneIsServer
<1>1. CASE UNCHANGED vars
  BY <1>1 DEF vars, TypeOK
<1>2. CASE \E s \in Server : Start(s) \/ MainThread(s) \/ Crash(s)
  <2>. PICK s \in Server : Start(s) \/ MainThread(s) \/ Crash(s)
    BY <1>2
  <2>0. /\ status \in [Server -> {"off", "up", "crashed", "null_primary",
                                  "no_contact"}]
        /\ list \in [Server -> Seq(Server)] /\ deferred[s] \in Nat
        /\ main \in [Server -> MainState] /\ coms \in [Server -> ComsState]
        /\ main[s] \in MainState /\ coms[s] \in ComsState
        /\ Contact[s] \in Server
    BY ContactAssumption DEF TypeOK
  <2>1. CASE Start(s)
    <3>1. <<s>> \in Seq(Server)
      OBVIOUS
    <3>2. list' \in [Server -> Seq(Server)]
      BY <2>0, <2>1, <3>1 DEF Start
    <3>3. main' \in [Server -> MainState]
      BY <2>0, <2>1 DEF Start, MainState
    <3>4. coms' \in [Server -> ComsState]
      BY <2>0, <2>1, TopFields DEF Start
    <3>. QED
      BY <2>1, <3>2, <3>3, <3>4 DEF Start, TypeOK
  <2>2. CASE MainConnect(s)
    <3>1. backlog' \in [Server -> Seq(Client)]
      <4>1. <<"main", s>> \in Client
        BY DEF Client
      <4>. QED
        BY <2>0, <2>2, <4>1, EnqueueType DEF MainConnect
    <3>2. main' \in [Server -> MainState]
      BY <2>0, <2>2 DEF MainConnect, MainState
    <3>. QED
      BY <2>2, <3>1, <3>2 DEF MainConnect, TypeOK
  <2>3. CASE MainUnreachable(s) \/ Crash(s)
    BY <2>3 DEF MainUnreachable, Crash, End, TypeOK
  <2>4. CASE MainConnectPrimary(s)
    <3>1. backlog' \in [Server -> Seq(Client)]
      <4>1. <<"main", s>> \in Client
        BY DEF Client
      <4>. QED
        BY <2>4, <4>1, EnqueueType DEF MainConnectPrimary
    <3>2. main' \in [Server -> MainState]
      BY <2>0, <2>4 DEF MainConnectPrimary, MainState
    <3>. QED
      BY <2>4, <3>1, <3>2 DEF MainConnectPrimary, TypeOK
  <2>5. CASE MainStore(s)
    <3>1. list' \in [Server -> Seq(Server)]
      BY <2>0, <2>5 DEF MainStore, MainState
    <3>2. main' \in [Server -> MainState]
      BY <2>0, <2>5 DEF MainStore, MainState
    <3>3. coms' \in [Server -> ComsState]
      BY <2>5, ClosedFields DEF MainStore
    <3>. QED
      BY <2>5, <3>1, <3>2, <3>3 DEF MainStore, TypeOK
  <2>6. CASE MainClose(s)
    <3>1. main' \in [Server -> MainState]
      BY <2>0, <2>6 DEF MainClose, MainState
    <3>2. coms' \in [Server -> ComsState]
      BY <2>6, ClosedFields DEF MainClose
    <3>. QED
      BY <2>6, <3>1, <3>2 DEF MainClose, TypeOK
  <2>. QED
    BY <2>1, <2>2, <2>3, <2>4, <2>5, <2>6 DEF MainThread
<1>3. CASE \E t \in Server : ComsThread(t)
  <2>. PICK t \in Server : ComsThread(t)
    BY <1>3
  <2>0. /\ list \in [Server -> Seq(Server)] /\ list[t] \in Seq(Server)
        /\ deferred \in [Server -> Nat] /\ deferred[t] \in Nat
        /\ backlog \in [Server -> Seq(Client)] /\ backlog[t] \in Seq(Client)
        /\ main \in [Server -> MainState] /\ coms \in [Server -> ComsState]
        /\ coms[t] \in ComsState /\ coms[t].todo \in Seq(Server)
        /\ coms[t].left \in Nat /\ coms[t].conn[2] \in Server
    BY ConnType DEF TypeOK, ComsState
  <2>1. CASE Accept(t)
    <3>1. Head(backlog[t]) \in Client /\ Tail(backlog[t]) \in Seq(Client)
      BY <2>0, <2>1, HeadTailProperties DEF Accept
    <3>. HIDE DEF Client
    <3>2. coms' \in [Server -> ComsState]
      BY <2>0, <2>1, <3>1 DEF Accept, ComsState
    <3>. QED
      BY <2>0, <2>1, <3>1, <3>2 DEF Accept, TypeOK
  <2>2. CASE ClientGone(t) \/ NotifyFails(t)
    <3>0. Top(coms[t], deferred[t]) \in ComsState
      BY <2>0, TopFields
    <3>1. coms' \in [Server -> ComsState]
      <4> HIDE DEF ComsState
      <4>. QED
        BY <2>0, <2>2, <3>0 DEF ClientGone, NotifyFails
    <3>. QED
      BY <2>2, <3>1 DEF ClientGone, NotifyFails, TypeOK
  <2>3. CASE DeferredConnect(t)
    <3>1. backlog' \in [Server -> Seq(Client)]
      <4>1. <<"coms", t>> \in Client
        BY DEF Client
      <4>. QED
        BY <2>3, <4>1, EnqueueType DEF DeferredConnect
    <3>2. coms' \in [Server -> ComsState]
      BY <2>0, <2>3 DEF DeferredConnect, ComsState
    <3>. QED
      BY <2>3, <3>1, <3>2 DEF DeferredConnect, TypeOK
  <2>4. CASE DeferredStore(t)
    <3>1. list' \in [Server -> Seq(Server)]
      BY <2>0, <2>4 DEF DeferredStore, ComsState
    <3>2. coms' \in [Server -> ComsState]
      <4> DEFINE closed == Closed(<<"coms", t>>)
      <4>1. closed \in [Server -> ComsState] /\ closed[t] = coms[t]
        BY <2>4, ClosedFields DEF DeferredStore
      <4> HIDE DEF closed
      <4>2. coms' = [closed EXCEPT ![t] = NextDeferred(closed[t])]
        BY <2>4 DEF DeferredStore, closed
      <4>. QED
        <5>1. NextDeferred(coms[t]) \in ComsState
          <6>1. coms[t].left - 1 \in Nat
            BY <2>0, <2>4 DEF DeferredStore, Repeating
          <6>. QED
            BY <2>0, <6>1 DEF NextDeferred, ComsState
        <5>. QED
          BY <2>0, <4>1, <4>2, <5>1
    <3>. QED
      BY <2>4, <3>1, <3>2 DEF DeferredStore, TypeOK
  <2>5. CASE ServeFetchMain(t) \/ ServeFetchComs(t)
    <3>1. CASE ServeFetchMain(t)
      <4>1. main' \in [Server -> MainState]
        BY <2>0, <3>1 DEF ServeFetchMain, MainState
      <4>. QED
        BY <3>1, <4>1 DEF ServeFetchMain, TypeOK
    <3>2. CASE ServeFetchComs(t)
      <4>1. coms' \in [Server -> ComsState]
        BY <2>0, <3>2 DEF ServeFetchComs, ComsState
      <4>. QED
        BY <3>2, <4>1 DEF ServeFetchComs, TypeOK
    <3>. QED
      BY <2>5, <3>1, <3>2
  <2>6. CASE ServeGetPrimary(t)
    <3>1. main' \in [Server -> MainState]
      BY <2>0, <2>6 DEF ServeGetPrimary, MainState
    <3>. QED
      BY <2>6, <3>1 DEF ServeGetPrimary, TypeOK
  <2>7. CASE NullPrimary(t)
    BY <2>7 DEF NullPrimary, End, TypeOK
  <2>8. CASE ServeRegister(t)
    <3> DEFINE servers == Append(list[t], coms[t].conn[2])
    <3>1. servers \in Seq(Server)
      BY <2>0, AppendProperties
    <3> HIDE DEF servers
    <3>2. /\ list' = [list EXCEPT ![t] = servers]
          /\ main' = [main EXCEPT ![coms[t].conn[2]].pc = "fetch"]
          /\ coms' = [coms EXCEPT ![t].pc = "notify", ![t].todo = servers]
          /\ UNCHANGED <<status, deferred, backlog>>
      BY <2>8 DEF ServeRegister, servers
    <3>3. main' \in [Server -> MainState] /\ coms' \in [Server -> ComsState]
      BY <2>0, <3>1, <3>2 DEF MainState, ComsState
    <3>. QED
      BY <2>0, <3>1, <3>2, <3>3 DEF TypeOK
  <2>9. CASE NotifySkip(t)
    <3>1. Tail(coms[t].todo) \in Seq(Server)
      BY <2>0, <2>9, HeadTailProperties DEF NotifySkip
    <3>2. coms' \in [Server -> ComsState]
      BY <2>0, <2>9, <3>1 DEF NotifySkip, ComsState
    <3>. QED
      BY <2>9, <3>2 DEF NotifySkip, TypeOK
  <2>10. CASE NotifyConnect(t)
    <3>1. backlog' \in [Server -> Seq(Client)]
      <4>1. Head(coms[t].todo) \in Server
        BY <2>0, <2>10, HeadTailProperties DEF NotifyConnect
      <4>2. <<"coms", t>> \in Client
        BY DEF Client
      <4>. QED
        BY <2>10, <4>1, <4>2, EnqueueType DEF NotifyConnect
    <3>2. coms' \in [Server -> ComsState]
      BY <2>0, <2>10 DEF NotifyConnect, ComsState
    <3>. QED
      BY <2>10, <3>1, <3>2 DEF NotifyConnect, TypeOK
  <2>11. CASE NotifyDone(t)
    <3>1. coms' \in [Server -> ComsState]
      BY <2>0, <2>11 DEF NotifyDone, ComsState
    <3>. QED
      BY <2>11, <3>1 DEF NotifyDone, TypeOK
  <2>12. CASE ServeUpdate(t)
    <3> DEFINE c == coms[t].conn[2]
               mid == [coms EXCEPT ![t].pc = "defer"]
    <3>1. c \in Server \ {t} /\ coms[c].todo # << >>
      BY <2>0, <2>12 DEF ServeUpdate, Serves, Repeating, Round, InRound
    <3>2. mid \in [Server -> ComsState] /\ mid[c] = coms[c]
      BY <2>0, <3>1 DEF ComsState
    <3>3. Tail(coms[c].todo) \in Seq(Server)
      BY <2>0, <3>1, HeadTailProperties DEF ComsState
    <3>4. coms' = [mid EXCEPT ![c].pc = "notify",
                              ![c].todo = Tail(coms[c].todo)]
      BY <2>0, <2>12, <3>1 DEF ServeUpdate
    <3>5. coms' \in [Server -> ComsState]
      <4> HIDE DEF c, mid
      <4>. QED
        BY <3>1, <3>2, <3>3, <3>4 DEF ComsState
    <3>. QED
      BY <2>12, <3>5 DEF ServeUpdate, TypeOK
  <2>13. CASE Defer(t)
    <3>1. deferred' \in [Server -> Nat] /\ deferred'[t] \in Nat
      BY <2>0, <2>13 DEF Defer
    <3>2. Top(coms[t], deferred'[t]) \in ComsState
      BY <2>0, <3>1, TopFields
    <3>3. coms' \in [Server -> ComsState]
      <4> HIDE DEF ComsState
      <4>. QED
        BY <2>0, <2>13, <3>2 DEF Defer
    <3>. QED
      BY <2>13, <3>1, <3>3 DEF Defer, TypeOK
  <2>14. \/ Accept(t) \/ ClientGone(t) \/ NotifyFails(t)
         \/ DeferredConnect(t) \/ DeferredStore(t) \/ ServeFetchMain(t)
         \/ ServeFetchComs(t) \/ ServeGetPrimary(t) \/ NullPrimary(t)
         \/ ServeRegister(t) \/ NotifySkip(t) \/ NotifyConnect(t)
         \/ NotifyDone(t) \/ ServeUpdate(t) \/ Defer(t)
    BY Zenon DEF ComsThread
  <2>. QED
    BY <2>1, <2>2, <2>3, <2>4, <2>5, <2>6, <2>7, <2>8, <2>9, <2>10, <2>11,
       <2>12, <2>13, <2>14
<1>. QED
  BY <1>1, <1>2, <1>3 DEF Next

-----------------------------------------------------------------------------
(* What the steps do *)

LEMMA OnlyPrimaryNotifies ==
  ASSUME IInv, NEW c \in Server, coms[c].pc \in {"notify", "await"}
  PROVE  c = 1
<1>1. Repeating
  BY DEF IInv
<1>. QED
  BY <1>1 DEF Repeating

LEMMA ServesMain ==
  ASSUME IInv, NEW t \in Server, NEW pc, Serves(t, "main", pc),
         NEW m, m = coms[t].conn[2]
  PROVE  /\ m \in Server /\ Up(m) /\ Up(t) /\ main[m].pc = pc
         /\ coms[t].conn = <<"main", m>> /\ coms[t].pc = "serve"
         /\ OfMain(m, t)
<1>1. /\ m \in Server /\ Up(m) /\ Up(t) /\ main[m].pc = pc
      /\ coms[t].conn = <<"main", m>> /\ coms[t].pc = "serve"
  BY ConnType DEF IInv, Serves
<1>2. At(<<"main", m>>, t)
  BY <1>1 DEF At
<1>. QED
  BY <1>1, <1>2 DEF IInv, Places

LEMMA ServesComs ==
  ASSUME IInv, NEW t \in Server, NEW pc, Serves(t, "coms", pc),
         NEW c, c = coms[t].conn[2]
  PROVE  /\ c \in Server /\ Up(c) /\ Up(t) /\ coms[c].pc = pc
         /\ coms[t].conn = <<"coms", c>> /\ coms[t].pc = "serve"
         /\ OfComs(c, t)
<1>1. /\ c \in Server /\ Up(c) /\ Up(t) /\ coms[c].pc = pc
      /\ coms[t].conn = <<"coms", c>> /\ coms[t].pc = "serve"
  BY ConnType DEF IInv, Serves
<1>2. At(<<"coms", c>>, t)
  BY <1>1 DEF At
<1>. QED
  BY <1>1, <1>2 DEF IInv, Places

\* The process of s ends; that of the primary does not.
Stops(s) ==
  /\ s # 1 /\ Up(s)
  /\ \E why \in {"crashed", "null_primary", "no_contact"} : End(s, why)

\* Who takes which step.
LEMMA StepCases ==
  ASSUME IInv, [Next]_vars
  PROVE  \/ UNCHANGED vars
         \/ \E s \in Server :
              \/ Start(s) \/ MainConnect(s) \/ MainClose(s)
              \/ MainConnectPrimary(s) \/ MainStore(s) \/ Accept(s)
              \/ ClientGone(s) \/ ServeGetPrimary(s)
         \/ \E s \in Server \ {1} :
              \/ DeferredConnect(s) \/ DeferredStore(s) \/ ServeUpdate(s)
              \/ Defer(s) \/ Stops(s)
         \/ ServeFetchMain(1) \/ ServeFetchComs(1) \/ ServeRegister(1)
         \/ NotifySkip(1) \/ NotifyConnect(1) \/ NotifyFails(1)
         \/ NotifyDone(1)
<1>. USE OneIsServer
<1>1. CASE \E s \in Server : Start(s) \/ MainThread(s) \/ Crash(s)
  <2>1. \A s \in Server : Crash(s) => s # 1 /\ Stops(s)
    BY EnvironmentAssumption DEF Crash, Stops
  <2>2. \A s \in Server : MainUnreachable(s) => s # 1 /\ Stops(s)
    BY DEF MainUnreachable, Stops, IInv, PrimaryRuns, Joined
  <2>. QED
    BY <1>1, <2>1, <2>2 DEF MainThread
<1>2. ASSUME NEW t \in Server, ComsThread(t)
      PROVE  \/ Accept(t) \/ ClientGone(t) \/ ServeGetPrimary(t)
             \/ /\ t # 1
                /\ \/ DeferredConnect(t) \/ DeferredStore(t)
                   \/ ServeUpdate(t) \/ Defer(t) \/ Stops(t)
             \/ /\ t = 1
                /\ \/ ServeFetchMain(1) \/ ServeFetchComs(1)
                   \/ ServeRegister(1) \/ NotifySkip(1) \/ NotifyConnect(1)
                   \/ NotifyFails(1) \/ NotifyDone(1)
  <2>1. CASE DeferredConnect(t) \/ DeferredStore(t) \/ Defer(t)
    BY <2>1 DEF DeferredConnect, DeferredStore, Defer, IInv, PrimaryRuns
  <2>2. CASE NotifySkip(t) \/ NotifyConnect(t) \/ NotifyFails(t) \/ NotifyDone(t)
    <3>1. t = 1
      BY <2>2 DEF NotifySkip, NotifyConnect, NotifyFails, NotifyDone, IInv,
                  Repeating
    <3>. QED
      BY <2>2, <3>1
  <2>3. CASE NullPrimary(t)
    <3>1. Lists(1, 1)
      BY DEF IInv, PrimaryRuns, Lists, TypeOK
    <3>. QED
      BY <2>3, <3>1 DEF NullPrimary, Stops, ListsPrimary
  <2>4. CASE ServeRegister(t) \/ ServeFetchMain(t)
    <3> DEFINE m == coms[t].conn[2]
    <3>1. main[m].pc \in {"register", "fetch"} /\ OfMain(m, t)
      <4>1. CASE ServeRegister(t)
        BY <4>1, ServesMain DEF ServeRegister
      <4>2. CASE ServeFetchMain(t)
        BY <4>2, ServesMain DEF ServeFetchMain
      <4>. QED
        BY <2>4, <4>1, <4>2
    <3>2. t = 1
      BY <3>1 DEF OfMain
    <3>. QED
      BY <2>4, <3>2
  <2>5. CASE ServeFetchComs(t)
    <3> DEFINE c == coms[t].conn[2]
    <3>1. coms[c].pc = "fetch" /\ OfComs(c, t) /\ Up(t)
      BY <2>5, ServesComs DEF ServeFetchComs
    <3>2. t = 1
      BY <3>1 DEF OfComs
    <3>. QED
      BY <2>5, <3>2
  <2>6. CASE ServeUpdate(t)
    <3> DEFINE c == coms[t].conn[2]
    <3>0. Serves(t, "coms", "await")
      BY <2>6 DEF ServeUpdate
    <3>1. coms[c].pc = "await" /\ OfComs(c, t) /\ Up(t) /\ c \in Server
      BY <3>0, ServesComs
    <3>2. c = 1
      BY <3>1, OnlyPrimaryNotifies
    <3>3. Head(coms[1].todo) = t
      BY <3>1, <3>2 DEF OfComs
    <3>4. Head(coms[1].todo) \notin Excluded(1)
      BY <3>1, <3>2 DEF IInv, Round, InRound
    <3>5. t # 1
      BY <3>3, <3>4 DEF Excluded
    <3>. QED
      BY <2>6, <3>5
  <2>. QED
    BY <1>2, <2>1, <2>2, <2>3, <2>4, <2>5, <2>6 DEF ComsThread
<1>. QED
  BY <1>1, <1>2 DEF Next

\* A registration: m comes from the bottom of the line, into the list.
LEMMA Registration ==
  ASSUME IInv, ServeRegister(1), NEW m, m = coms[1].conn[2]
  PROVE  /\ m \in Server /\ Up(m) /\ main[m].pc = "register" /\ m # 1
         /\ coms[1].pc = "serve" /\ coms[1].conn = <<"main", m>>
         /\ ~Lists(1, m)
         /\ list' \in [Server -> Seq(Server)]
         /\ Len(list[1]) \in Nat
         /\ Len(list'[1]) = Len(list[1]) + 1
         /\ \A i \in 1 .. Len(list[1]) : list'[1][i] = list[1][i]
         /\ list'[1][Len(list[1]) + 1] = m
         /\ \A s \in Server \ {1} : list'[s] = list[s]
         /\ main' = [main EXCEPT ![m].pc = "fetch"]
         /\ coms' = [coms EXCEPT ![1].pc = "notify", ![1].todo = list'[1]]
         /\ UNCHANGED <<status, deferred, backlog>>
<1>. USE OneIsServer
<1>1. list \in [Server -> Seq(Server)] /\ list[1] \in Seq(Server)
  BY DEF IInv, TypeOK
<1>2. /\ m \in Server /\ Up(m) /\ main[m].pc = "register"
      /\ coms[1].pc = "serve" /\ coms[1].conn = <<"main", m>>
  BY ServesMain DEF ServeRegister
<1>3. m # 1 /\ ~Lists(1, m)
  BY <1>2 DEF IInv, PrimaryRuns, Joined, Registered
<1> DEFINE servers == Append(list[1], m)
<1>4. /\ list' = [list EXCEPT ![1] = servers]
      /\ main' = [main EXCEPT ![m].pc = "fetch"]
      /\ coms' = [coms EXCEPT ![1].pc = "notify", ![1].todo = servers]
      /\ UNCHANGED <<status, deferred, backlog>>
  BY DEF ServeRegister
<1>5. /\ servers \in Seq(Server) /\ Len(servers) = Len(list[1]) + 1
      /\ \A i \in 1 .. Len(list[1]) : servers[i] = list[1][i]
      /\ servers[Len(list[1]) + 1] = m
  BY <1>1, <1>2, AppendProperties
<1> HIDE DEF servers
<1>6. list'[1] = servers
  BY <1>1, <1>4
<1>. QED
  BY <1>1, <1>2, <1>3, <1>4, <1>5, <1>6, LenProperties

\* Only a registration changes the order of registration.
LEMMA OrderStep ==
  ASSUME IInv, [Next]_vars
  PROVE  ServeRegister(1) \/ list'[1] = list[1]
<1>. USE OneIsServer
<1>1. ASSUME NEW s \in Server, Start(s) \/ MainStore(s) PROVE s # 1
  BY <1>1 DEF Start, MainStore, IInv, PrimaryRuns, Up, Joined
<1>2. list \in [Server -> Seq(Server)]
  BY DEF IInv, TypeOK
<1>3. CASE \E s \in Server : Start(s) \/ MainStore(s)
  BY <1>1, <1>2, <1>3 DEF Start, MainStore
<1>4. CASE \E s \in Server \ {1} : DeferredStore(s)
  BY <1>2, <1>4 DEF DeferredStore
<1>5. CASE \/ \E s \in Server : \/ MainConnect(s) \/ MainClose(s)
                               \/ MainConnectPrimary(s) \/ Accept(s)
                               \/ ClientGone(s) \/ ServeGetPrimary(s)
                               \/ DeferredConnect(s) \/ ServeUpdate(s)
                               \/ Defer(s) \/ Stops(s)
          \/ ServeFetchMain(1) \/ ServeFetchComs(1) \/ NotifySkip(1)
          \/ NotifyConnect(1) \/ NotifyFails(1) \/ NotifyDone(1)
          \/ UNCHANGED vars
  BY <1>5 DEF MainConnect, MainClose, MainConnectPrimary, Accept, ClientGone,
     ServeGetPrimary, DeferredConnect, ServeUpdate, Defer, Stops, End,
     ServeFetchMain, ServeFetchComs, NotifySkip, NotifyConnect, NotifyFails,
     NotifyDone, vars
<1>. QED
  BY StepCases, <1>3, <1>4, <1>5

\* What was a prefix of it stays one.
LEMMA PrefixStep ==
  ASSUME IInv, [Next]_vars
  PROVE  /\ \A l \in Seq(Server) : Prefix(l, list[1]) => Prefix(l, list'[1])
         /\ Prefix(list[1], list'[1])
         /\ \A s \in Server : Lists(1, s) => Lists(1, s)'
<1>1. /\ Len(list[1]) \in Nat /\ Len(list'[1]) \in Nat
      /\ Len(list[1]) <= Len(list'[1])
      /\ \A i \in 1 .. Len(list[1]) : list'[1][i] = list[1][i]
  <2>1. Len(list[1]) \in Nat
    BY OneIsServer DEF IInv, TypeOK
  <2>2. CASE ServeRegister(1)
    BY <2>1, <2>2, Registration
  <2>. QED
    BY <2>1, <2>2, OrderStep
<1>2. ASSUME NEW l \in Seq(Server), Prefix(l, list[1])
      PROVE  Prefix(l, list'[1])
  <2>1. Len(l) \in Nat
    OBVIOUS
  <2>. QED
    BY <1>1, <1>2, <2>1 DEF Prefix
<1>. QED
  BY <1>1, <1>2 DEF Lists, Prefix

\* A notification: t, the head of the round, answers and is about to defer.
LEMMA Notification ==
  ASSUME IInv, NEW t \in Server \ {1}, ServeUpdate(t)
  PROVE  /\ Up(t) /\ coms[t].pc = "serve" /\ coms[t].conn = <<"coms", 1>>
         /\ coms[1].pc = "await" /\ coms[1].todo # << >>
         /\ Head(coms[1].todo) = t
         /\ coms'[t] = [coms[t] EXCEPT !.pc = "defer"]
         /\ coms'[1] = [coms[1] EXCEPT !.pc = "notify", !.todo = Tail(@)]
         /\ \A u \in Server \ {1, t} : coms'[u] = coms[u]
         /\ UNCHANGED <<status, list, deferred, backlog, main>>
<1>. USE OneIsServer
<1> DEFINE c == coms[t].conn[2]
<1>0. Serves(t, "coms", "await")
  BY DEF ServeUpdate
<1>1. /\ c \in Server /\ coms[c].pc = "await" /\ OfComs(c, t) /\ Up(t)
      /\ coms[t].pc = "serve" /\ coms[t].conn = <<"coms", c>>
  BY <1>0, ServesComs
<1>2. c = 1
  BY <1>1, OnlyPrimaryNotifies
<1>3. coms[1].todo # << >> /\ Head(coms[1].todo) = t
  BY <1>1, <1>2 DEF OfComs, IInv, Round, InRound
<1>4. /\ coms' = [coms EXCEPT ![t].pc = "defer",
                              ![c].pc = "notify", ![c].todo = Tail(@)]
      /\ UNCHANGED <<status, list, deferred, backlog, main>>
  BY DEF ServeUpdate
<1>5. coms \in [Server -> ComsState]
  BY DEF IInv, TypeOK
<1>. HIDE DEF c
<1>6. coms' = [coms EXCEPT ![t].pc = "defer",
                           ![1].pc = "notify", ![1].todo = Tail(@)]
  BY <1>2, <1>4
<1>. QED
  BY <1>1, <1>2, <1>3, <1>4, <1>5, <1>6

\* What was answered is deferred.
LEMMA Deferral ==
  ASSUME IInv, NEW t \in Server \ {1}, Defer(t)
  PROVE  /\ Up(t) /\ coms[t].pc = "defer" /\ deferred[t] \in Nat
         /\ deferred' = [deferred EXCEPT ![t] = deferred[t] + 1]
         /\ deferred'[t] = deferred[t] + 1
         /\ coms'[t] = Top(coms[t], deferred[t] + 1)
         /\ \A u \in Server \ {t} : coms'[u] = coms[u]
         /\ UNCHANGED <<status, list, backlog, main>>
<1>1. deferred \in [Server -> Nat] /\ coms \in [Server -> ComsState]
  BY DEF IInv, TypeOK
<1>2. deferred' = [deferred EXCEPT ![t] = deferred[t] + 1]
  BY DEF Defer
<1>3. deferred'[t] = deferred[t] + 1
  BY <1>1, <1>2
<1>4. coms' = [coms EXCEPT ![t] = Top(coms[t], deferred[t] + 1)]
  BY <1>3 DEF Defer
<1>. QED
  BY <1>1, <1>2, <1>3, <1>4 DEF Defer

\* A deferred update is done with.
LEMMA DeferredStoreNext ==
  ASSUME IInv, NEW s \in Server, DeferredStore(s)
  PROVE  /\ coms'[s].pc \in {"accept", "deferred"}
         /\ \A u \in Server \ {s} : ~At(<<"coms", s>>, u)'
<1> DEFINE closed == Closed(<<"coms", s>>)
<1>0. TypeOK /\ coms \in [Server -> ComsState] /\ deferred \in [Server -> Nat]
  BY DEF IInv, TypeOK
<1>1. closed \in [Server -> ComsState] /\ closed[s] = coms[s]
  BY <1>0, ClosedFields DEF DeferredStore
<1>3. ASSUME NEW u \in Server
      PROVE  ~(closed[u].pc = "serve" /\ closed[u].conn = <<"coms", s>>)
  <2>1. CASE At(<<"coms", s>>, u)
    <3>1. closed[u] = Top(coms[u], deferred[u])
      BY <1>0, <2>1, ClosedFields DEF At
    <3>2. coms[u] \in ComsState /\ deferred[u] \in Nat
      BY <1>0
    <3>3. Top(coms[u], deferred[u]).pc \in {"accept", "deferred"}
      BY <3>2, TopFields
    <3>. HIDE DEF closed
    <3>. QED
      BY <3>1, <3>3
  <2>2. CASE ~At(<<"coms", s>>, u)
    <3>1. closed[u] = coms[u]
      BY <1>0, <2>2, ClosedFields DEF At
    <3>. HIDE DEF closed
    <3>. QED
      BY <2>2, <3>1 DEF At
  <2>. QED
    BY <2>1, <2>2
<1> HIDE DEF closed
<1>2. coms' = [closed EXCEPT ![s] = NextDeferred(closed[s])]
  BY DEF DeferredStore, closed
<1>4. coms'[s].pc \in {"accept", "deferred"}
  BY <1>1, <1>2 DEF NextDeferred, ComsState
<1>5. \A u \in Server \ {s} : coms'[u] = closed[u]
  BY <1>1, <1>2
<1>. QED
  BY <1>3, <1>4, <1>5 DEF At

\* How the main thread of a server goes on.
LEMMA MainChange ==
  ASSUME IInv, [Next]_vars, NEW s \in Server
  PROVE  \/ main'[s] = main[s]
         \/ Start(s) /\ main[s].pc = "off" /\ main'[s].pc = "connect"
         \/ /\ MainConnect(s) /\ Up(s)
            /\ main[s].pc = "connect" /\ main'[s].pc = "ask"
         \/ /\ \E t \in Server :
                 ServeGetPrimary(t) /\ coms[t].conn = <<"main", s>>
            /\ Up(s) /\ main[s].pc = "ask" /\ main'[s].pc = "asked"
         \/ /\ MainClose(s) /\ Up(s)
            /\ main[s].pc = "asked" /\ main'[s].pc = "closed"
         \/ /\ MainConnectPrimary(s) /\ Up(s)
            /\ main[s].pc = "closed" /\ main'[s].pc = "register"
         \/ /\ ServeRegister(1) /\ coms[1].conn = <<"main", s>>
            /\ Up(s) /\ main[s].pc = "register" /\ main'[s].pc = "fetch"
         \/ /\ ServeFetchMain(1) /\ coms[1].conn = <<"main", s>>
            /\ Up(s) /\ main[s].pc = "fetch" /\ main'[s].pc = "store"
            /\ main'[s].reply = list[1]
         \/ /\ MainStore(s) /\ Up(s)
            /\ main[s].pc = "store" /\ main'[s].pc = "joined"
<1>. USE OneIsServer
<1>0. main \in [Server -> MainState]
  BY DEF IInv, TypeOK
<1>1. CASE \E t \in Server : \/ Start(t) \/ MainConnect(t) \/ MainClose(t)
                            \/ MainConnectPrimary(t) \/ MainStore(t)
  <2>. PICK t \in Server : \/ Start(t) \/ MainConnect(t) \/ MainClose(t)
                           \/ MainConnectPrimary(t) \/ MainStore(t)
    BY <1>1
  <2>1. CASE t # s
    BY <1>0, <2>1
       DEF Start, MainConnect, MainClose, MainConnectPrimary, MainStore
  <2>2. CASE t = s /\ Start(s)
    <3>1. main[s].pc = "off"
      BY <2>2 DEF Start, IInv, NotStarted
    <3>. QED
      BY <1>0, <2>2, <3>1 DEF MainState, Start
  <2>3. CASE /\ t = s
             /\ MainConnect(s) \/ MainClose(s) \/ MainConnectPrimary(s)
    BY <1>0, <2>3 DEF MainState, MainConnect, MainClose, MainConnectPrimary
  <2>4. CASE t = s /\ MainStore(s)
    BY <1>0, <2>4 DEF MainState, MainStore
  <2>. QED
    BY <2>1, <2>2, <2>3, <2>4
<1>2. ASSUME NEW t \in Server, ServeGetPrimary(t), main'[s] # main[s]
      PROVE  /\ ServeGetPrimary(t) /\ coms[t].conn = <<"main", s>>
             /\ Up(s) /\ main[s].pc = "ask"
             /\ main'[s].pc = "asked"
  <2> DEFINE m == coms[t].conn[2]
  <2>1. /\ m \in Server /\ Up(m) /\ main[m].pc = "ask"
        /\ coms[t].conn = <<"main", m>>
    BY <1>2, ServesMain DEF ServeGetPrimary
  <2>2. main' = [main EXCEPT ![m].pc = "asked"]
    BY <1>2 DEF ServeGetPrimary
  <2>3. m = s
    BY <1>0, <1>2, <2>1, <2>2
  <2>. QED
    BY <1>0, <1>2, <2>1, <2>2, <2>3 DEF MainState
<1>3. CASE ServeRegister(1)
  <2> DEFINE m == coms[1].conn[2]
  <2>1. /\ m \in Server /\ Up(m) /\ main[m].pc = "register"
        /\ coms[1].conn = <<"main", m>>
        /\ main' = [main EXCEPT ![m].pc = "fetch"]
    BY <1>3, Registration
  <2>. QED
    BY <1>0, <1>3, <2>1 DEF MainState
<1>4. CASE ServeFetchMain(1)
  <2> DEFINE m == coms[1].conn[2]
  <2>1. /\ m \in Server /\ Up(m) /\ main[m].pc = "fetch"
        /\ coms[1].conn = <<"main", m>>
    BY <1>4, ServesMain DEF ServeFetchMain
  <2>2. main' = [main EXCEPT ![m].pc = "store", ![m].reply = list[1]]
    BY <1>4 DEF ServeFetchMain
  <2>. QED
    BY <1>0, <1>4, <2>1, <2>2 DEF MainState
<1>5. CASE \/ \E t \in Server : \/ Accept(t) \/ ClientGone(t)
                               \/ DeferredConnect(t) \/ DeferredStore(t)
                               \/ ServeUpdate(t) \/ Defer(t) \/ Stops(t)
          \/ ServeFetchComs(1) \/ NotifySkip(1) \/ NotifyConnect(1)
          \/ NotifyFails(1) \/ NotifyDone(1) \/ UNCHANGED vars
  BY <1>5 DEF Accept, ClientGone, DeferredConnect, DeferredStore, ServeUpdate,
     Defer, Stops, End, ServeFetchComs, NotifySkip, NotifyConnect, NotifyFails,
     NotifyDone, vars
<1>. QED
  BY StepCases, <1>1, <1>2, <1>3, <1>4, <1>5

\* How the coms thread of a server goes on.
LEMMA ComsChange ==
  ASSUME IInv, [Next]_vars, NEW u \in Server
  PROVE  \/ coms'[u] = coms[u]
         \/ Start(u) /\ u # 1 /\ coms'[u].pc = "accept"
         \/ /\ Accept(u) /\ Up(u) /\ coms[u].pc = "accept"
            /\ coms'[u].pc = "serve" /\ coms'[u].conn = Head(backlog[u])
         \/ /\ coms[u].pc = "serve"
            /\ coms'[u].pc = IF deferred'[u] = 0 THEN "accept" ELSE "deferred"
            /\ coms'[u].left = deferred'[u]
            /\ \/ ClientGone(u)
               \/ \E s \in Server :
                    /\ coms[u].conn = <<"main", s>>
                    /\ MainClose(s) \/ MainStore(s)
               \/ \E s \in Server \ {1} :
                    coms[u].conn = <<"coms", s>> /\ DeferredStore(s)
         \/ /\ u # 1 /\ Up(u)
            /\ \/ /\ ServeUpdate(u) /\ coms[u].pc = "serve"
                  /\ coms'[u].pc = "defer"
               \/ /\ Defer(u) /\ coms[u].pc = "defer"
                  /\ coms'[u].pc = "deferred" /\ coms'[u].left = deferred'[u]
                  /\ deferred'[u] > 0
               \/ /\ DeferredConnect(u) /\ coms[u].pc = "deferred"
                  /\ coms'[u].pc = "fetch" /\ coms'[u].left = coms[u].left
               \/ /\ ServeFetchComs(1) /\ coms[1].conn = <<"coms", u>>
                  /\ coms[u].pc = "fetch" /\ coms'[u].pc = "store"
                  /\ coms'[u].left = coms[u].left
                  /\ coms'[u].reply = list[1]
               \/ /\ DeferredStore(u) /\ coms[u].pc = "store"
                  /\ coms'[u].pc = IF coms[u].left = 1 THEN "accept"
                                                     ELSE "deferred"
                  /\ coms'[u].left = coms[u].left - 1
         \/ /\ u = 1
            /\ \/ /\ ServeRegister(1) /\ coms[1].pc = "serve"
                  /\ coms'[1].pc = "notify" /\ coms'[1].conn = coms[1].conn
                  /\ coms'[1].todo = list'[1]
               \/ /\ NotifySkip(1) /\ coms[1].pc = "notify"
                  /\ coms'[1].pc = "notify" /\ coms'[1].conn = coms[1].conn
                  /\ coms'[1].todo = Tail(coms[1].todo)
               \/ /\ NotifyConnect(1) /\ coms[1].pc = "notify"
                  /\ coms'[1].pc = "await" /\ coms'[1].conn = coms[1].conn
                  /\ coms'[1].todo = coms[1].todo
               \/ /\ NotifyFails(1) /\ coms[1].pc \in {"notify", "await"}
                  /\ coms'[1].pc = "accept"
               \/ /\ NotifyDone(1) /\ coms[1].pc = "notify"
                  /\ coms'[1].pc = "serve" /\ coms'[1].conn = coms[1].conn
               \/ /\ \E t \in Server \ {1} : ServeUpdate(t)
                  /\ coms[1].pc = "await" /\ coms'[1].pc = "notify"
                  /\ coms'[1].conn = coms[1].conn
                  /\ coms'[1].todo = Tail(coms[1].todo)
<1>. USE OneIsServer
<1>0. /\ TypeOK /\ coms \in [Server -> ComsState]
      /\ deferred \in [Server -> Nat] /\ deferred[1] = 0
  BY DEF IInv, TypeOK, PrimaryRuns
<1>a. \A d \in Nat : /\ Top(coms[u], d).pc = IF d = 0 THEN "accept" ELSE "deferred"
                     /\ Top(coms[u], d).left = d
  BY <1>0, TopFields
<1>b. deferred'[u] \in Nat
  BY TypeStep DEF TypeOK
<1>1. CASE \E s \in Server : Start(s)
  <2>. PICK s \in Server : Start(s)
    BY <1>1
  <2>1. deferred[s] = 0 /\ s # 1
    BY DEF Start, IInv, NotStarted, PrimaryRuns, Up
  <2>2. coms' = [coms EXCEPT ![s] = Top(coms[s], 0)]
    BY <2>1 DEF Start
  <2>3. CASE u = s
    <3>1. coms'[u] = Top(coms[u], 0)
      BY <1>0, <2>2, <2>3
    <3>. QED
      BY <1>a, <2>1, <2>3, <3>1
  <2>. QED
    BY <1>0, <2>2, <2>3
<1>2. CASE \E s \in Server : Accept(s)
  <2>. PICK s \in Server : Accept(s)
    BY <1>2
  <2>1. CASE u = s
    BY <1>0, <2>1 DEF Accept, ComsState
  <2>. QED
    BY <1>0, <2>1 DEF Accept
<1>3. CASE \E s \in Server : ClientGone(s)
  <2>. PICK s \in Server : ClientGone(s)
    BY <1>3
  <2>1. CASE u = s
    <3>1. /\ coms[u].pc = "serve" /\ deferred'[u] = deferred[u]
          /\ coms'[u] = Top(coms[u], deferred[u])
      BY <1>0, <2>1 DEF ClientGone
    <3>. QED
      BY <1>a, <1>b, <2>1, <3>1
  <2>. QED
    BY <1>0, <2>1 DEF ClientGone
<1>4. ASSUME NEW s \in Server, MainClose(s) \/ MainStore(s),
             coms'[u] # coms[u]
      PROVE  /\ coms[u].pc = "serve"
             /\ coms'[u].pc = IF deferred'[u] = 0 THEN "accept" ELSE "deferred"
             /\ coms'[u].left = deferred'[u]
             /\ coms[u].conn = <<"main", s>>
             /\ MainClose(s) \/ MainStore(s)
  <2>1. coms' = Closed(<<"main", s>>) /\ deferred' = deferred
    BY <1>4 DEF MainClose, MainStore
  <2>2. /\ coms[u].pc = "serve" /\ coms[u].conn = <<"main", s>>
        /\ coms'[u] = Top(coms[u], deferred[u])
    BY <1>0, <1>4, <2>1, ClosedFields
  <2>. QED
    BY <1>a, <1>b, <1>4, <2>1, <2>2
<1>5. ASSUME NEW s \in Server \ {1}, DeferredStore(s), coms'[u] # coms[u]
      PROVE  \/ /\ coms[u].pc = "serve"
                /\ coms'[u].pc = IF deferred'[u] = 0 THEN "accept"
                                                     ELSE "deferred"
                /\ coms'[u].left = deferred'[u]
                /\ coms[u].conn = <<"coms", s>>
             \/ /\ u = s /\ Up(u) /\ coms[u].pc = "store"
                /\ coms'[u].pc = IF coms[u].left = 1 THEN "accept"
                                                     ELSE "deferred"
                /\ coms'[u].left = coms[u].left - 1
  <2> DEFINE closed == Closed(<<"coms", s>>)
  <2>1. /\ closed \in [Server -> ComsState] /\ closed[s] = coms[s]
        /\ closed[u] = IF coms[u].pc = "serve" /\ coms[u].conn = <<"coms", s>>
                       THEN Top(coms[u], deferred[u]) ELSE coms[u]
    BY <1>0, <1>5, ClosedFields DEF DeferredStore
  <2> HIDE DEF closed
  <2>2. /\ coms' = [closed EXCEPT ![s] = NextDeferred(closed[s])]
        /\ deferred' = deferred /\ Up(s) /\ coms[s].pc = "store"
    BY <1>5 DEF DeferredStore, closed
  <2>3. /\ NextDeferred(coms[u]).pc = IF coms[u].left = 1 THEN "accept"
                                                          ELSE "deferred"
        /\ NextDeferred(coms[u]).left = coms[u].left - 1
    BY <1>0 DEF NextDeferred, ComsState
  <2>4. CASE u = s
    BY <2>1, <2>2, <2>3, <2>4
  <2>5. CASE u # s
    <3>1. coms'[u] = closed[u]
      BY <2>1, <2>2, <2>5
    <3>2. /\ coms[u].pc = "serve" /\ coms[u].conn = <<"coms", s>>
          /\ coms'[u] = Top(coms[u], deferred'[u])
      BY <1>5, <2>1, <2>2, <3>1
    <3>. QED
      BY <1>a, <1>b, <3>2
  <2>. QED
    BY <2>4, <2>5
<1>6. CASE \E s \in Server \ {1} : DeferredConnect(s)
  <2>. PICK s \in Server \ {1} : DeferredConnect(s)
    BY <1>6
  <2>1. CASE u = s
    BY <1>0, <2>1 DEF DeferredConnect, ComsState
  <2>. QED
    BY <1>0, <2>1 DEF DeferredConnect
<1>7. CASE \E s \in Server \ {1} : ServeUpdate(s)
  <2>. PICK t \in Server \ {1} : ServeUpdate(t)
    BY <1>7
  <2>1. CASE u = t
    <3>1. /\ Up(u) /\ coms[u].pc = "serve"
          /\ coms'[u] = [coms[u] EXCEPT !.pc = "defer"]
      BY <2>1, Notification
    <3>. QED
      BY <1>0, <2>1, <3>1 DEF ComsState
  <2>2. CASE u = 1
    <3>1. /\ coms[1].pc = "await"
          /\ coms'[1] = [coms[1] EXCEPT !.pc = "notify", !.todo = Tail(@)]
      BY Notification
    <3>. QED
      BY <1>0, <2>2, <3>1 DEF ComsState
  <2>3. CASE u \notin {1, t}
    BY <2>3, Notification
  <2>. QED
    BY <2>1, <2>2, <2>3
<1>8. CASE ServeFetchComs(1)
  <2> DEFINE c == coms[1].conn[2]
  <2>1. /\ c \in Server /\ Up(c) /\ coms[c].pc = "fetch"
        /\ coms[1].conn = <<"coms", c>> /\ coms[1].pc = "serve"
    BY <1>8, ServesComs DEF ServeFetchComs
  <2>2. coms' = [coms EXCEPT ![c].pc = "store", ![c].reply = list[1]]
    BY <1>8 DEF ServeFetchComs
  <2>. QED
    BY <1>0, <1>8, <2>1, <2>2 DEF ComsState
<1>9. CASE ServeRegister(1)
  <2>1. /\ coms' = [coms EXCEPT ![1].pc = "notify", ![1].todo = list'[1]]
        /\ coms[1].pc = "serve"
    BY <1>9, Registration
  <2>. QED
    BY <1>0, <1>9, <2>1 DEF ComsState
<1>10. CASE NotifySkip(1) \/ NotifyConnect(1) \/ NotifyFails(1) \/ NotifyDone(1)
  <2>1. CASE u # 1
    BY <1>0, <1>10, <2>1
       DEF NotifySkip, NotifyConnect, NotifyFails, NotifyDone
  <2>2. CASE u = 1 /\ NotifyFails(1)
    BY <1>0, <1>a, <2>2 DEF NotifyFails
  <2>3. CASE u = 1 /\ (NotifySkip(1) \/ NotifyConnect(1) \/ NotifyDone(1))
    BY ZenonT(60), <1>0, <2>3
       DEF NotifySkip, NotifyConnect, NotifyDone, ComsState
  <2>. QED
    BY <1>10, <2>1, <2>2, <2>3
<1>11. CASE \E t \in Server \ {1} : Defer(t)
  <2>. PICK t \in Server \ {1} : Defer(t)
    BY <1>11
  <2>1. CASE u = t
    <3>1. /\ Up(u) /\ coms[u].pc = "defer" /\ deferred[u] \in Nat
          /\ deferred'[u] = deferred[u] + 1
          /\ coms'[u] = Top(coms[u], deferred[u] + 1)
      BY <2>1, Deferral
    <3>. QED
      BY <1>a, <2>1, <3>1
  <2>. QED
    BY <2>1, Deferral
<1>12. CASE \/ \E s \in Server : \/ MainConnect(s) \/ MainConnectPrimary(s)
                                \/ ServeGetPrimary(s) \/ Stops(s)
           \/ ServeFetchMain(1) \/ UNCHANGED vars
  BY <1>12 DEF MainConnect, MainConnectPrimary, ServeGetPrimary, Stops, End,
     ServeFetchMain, vars
<1>. QED
  BY StepCases, <1>1, <1>2, <1>3, <1>4, <1>5, <1>6, <1>7, <1>8, <1>9, <1>10,
     <1>11, <1>12

\* How the updates a server has deferred change.
LEMMA DeferredChange ==
  ASSUME IInv, [Next]_vars, NEW s \in Server
  PROVE  \/ deferred'[s] = deferred[s]
         \/ s # 1 /\ Defer(s) /\ deferred'[s] = deferred[s] + 1
<1>1. deferred \in [Server -> Nat]
  BY DEF IInv, TypeOK
<1>2. CASE \E t \in Server \ {1} : Defer(t)
  BY <1>1, <1>2 DEF Defer
<1>3. CASE \/ \E t \in Server : \/ Start(t) \/ MainConnect(t) \/ MainClose(t)
                               \/ MainConnectPrimary(t) \/ MainStore(t)
                               \/ Accept(t) \/ ClientGone(t)
                               \/ ServeGetPrimary(t) \/ DeferredConnect(t)
                               \/ DeferredStore(t) \/ ServeUpdate(t)
                               \/ Stops(t)
          \/ ServeFetchMain(1) \/ ServeFetchComs(1) \/ ServeRegister(1)
          \/ NotifySkip(1) \/ NotifyConnect(1) \/ NotifyFails(1)
          \/ NotifyDone(1) \/ UNCHANGED vars
  BY <1>3 DEF Start, MainConnect, MainClose, MainConnectPrimary, MainStore,
     Accept, ClientGone, ServeGetPrimary, DeferredConnect, DeferredStore,
     ServeUpdate, Stops, End,
     ServeFetchMain, ServeFetchComs, ServeRegister, NotifySkip,
     NotifyConnect, NotifyFails, NotifyDone, vars
<1>. QED
  BY StepCases, <1>2, <1>3

\* Who connects to u.
Arrives(conn, u) ==
  \E s \in Server :
    \/ /\ conn = <<"main", s>>
       /\ \/ MainConnect(s) /\ u = Contact[s]
          \/ MainConnectPrimary(s) /\ u = 1
    \/ /\ conn = <<"coms", s>>
       /\ \/ s # 1 /\ DeferredConnect(s) /\ u = 1
          \/ s = 1 /\ NotifyConnect(1) /\ u = Head(coms[1].todo)

\* Which connections come to the coms port of u, and leave it.
LEMMA BacklogChange ==
  ASSUME IInv, [Next]_vars, NEW u \in Server
  PROVE  \/ backlog'[u] = backlog[u]
         \/ /\ Accept(u) /\ backlog[u] # << >>
            /\ backlog'[u] = Tail(backlog[u])
         \/ /\ Up(u)
            /\ \E conn \in Client :
                 Arrives(conn, u) /\ backlog'[u] = Append(backlog[u], conn)
<1>. USE OneIsServer
<1>0. backlog \in [Server -> Seq(Client)] /\ Up(1)
  BY DEF IInv, TypeOK, PrimaryRuns
<1>1. ASSUME NEW v \in Server, NEW conn, Enqueue(v, conn)
      PROVE  /\ backlog'[v] = Append(backlog[v], conn)
             /\ u # v => backlog'[u] = backlog[u]
  BY <1>0, <1>1 DEF Enqueue
<1>2. CASE \E s \in Server : MainConnect(s)
  <2>. PICK s \in Server : MainConnect(s)
    BY <1>2
  <2>1. Contact[s] \in Server /\ Up(Contact[s])
        /\ Enqueue(Contact[s], <<"main", s>>) /\ <<"main", s>> \in Client
    BY ContactAssumption DEF MainConnect, Client
  <2>2. Arrives(<<"main", s>>, Contact[s])
    BY DEF Arrives
  <2>. QED
    BY <1>1, <2>1, <2>2
<1>3. CASE \E s \in Server : MainConnectPrimary(s)
  <2>. PICK s \in Server : MainConnectPrimary(s)
    BY <1>3
  <2>1. Enqueue(1, <<"main", s>>) /\ <<"main", s>> \in Client
    BY DEF MainConnectPrimary, Client
  <2>. QED
    BY <1>0, <1>1, <2>1 DEF Arrives
<1>4. CASE \E s \in Server \ {1} : DeferredConnect(s)
  <2>. PICK s \in Server \ {1} : DeferredConnect(s)
    BY <1>4
  <2>1. Enqueue(1, <<"coms", s>>) /\ <<"coms", s>> \in Client
    BY DEF DeferredConnect, Client
  <2>. QED
    BY <1>0, <1>1, <2>1 DEF Arrives
<1>5. CASE NotifyConnect(1)
  <2>1. Head(coms[1].todo) \in Server
    BY <1>5, HeadTailProperties DEF NotifyConnect, IInv, TypeOK, ComsState
  <2>2. /\ Up(Head(coms[1].todo))
        /\ Enqueue(Head(coms[1].todo), <<"coms", 1>>)
        /\ <<"coms", 1>> \in Client
    BY <1>5 DEF NotifyConnect, Client
  <2>. QED
    BY <1>1, <1>5, <2>1, <2>2 DEF Arrives
<1>6. CASE \E s \in Server : Accept(s)
  BY <1>0, <1>6 DEF Accept
<1>7. CASE \/ \E t \in Server : \/ Start(t) \/ MainClose(t) \/ MainStore(t)
                               \/ ClientGone(t) \/ ServeGetPrimary(t)
                               \/ DeferredStore(t) \/ ServeUpdate(t)
                               \/ Defer(t) \/ Stops(t)
          \/ ServeFetchMain(1) \/ ServeFetchComs(1) \/ ServeRegister(1)
          \/ NotifySkip(1) \/ NotifyFails(1) \/ NotifyDone(1)
          \/ UNCHANGED vars
  BY <1>7 DEF Start, MainClose, MainStore, ClientGone, ServeGetPrimary,
     DeferredStore, ServeUpdate, Defer, Stops, End, ServeFetchMain,
     ServeFetchComs, ServeRegister, NotifySkip, NotifyFails, NotifyDone, vars
<1>. QED
  BY StepCases, <1>2, <1>3, <1>4, <1>5, <1>6, <1>7

\* Where a connection may be after a step.
LEMMA InStep ==
  ASSUME IInv, [Next]_vars, NEW conn \in Client, NEW u \in Server,
         In(conn, u)'
  PROVE  In(conn, u) \/ Arrives(conn, u)
<1>1. backlog[u] \in Seq(Client) /\ Len(backlog[u]) \in Nat
  BY DEF IInv, TypeOK
<1>2. PICK i \in 1 .. Len(backlog'[u]) : backlog'[u][i] = conn
  BY DEF In
<1>3. CASE Accept(u) /\ backlog[u] # << >> /\ backlog'[u] = Tail(backlog[u])
  <2>1. i + 1 \in 1 .. Len(backlog[u]) /\ backlog'[u][i] = backlog[u][i + 1]
    BY <1>1, <1>2, <1>3, HeadTailProperties
  <2>. QED
    BY <1>2, <2>1 DEF In
<1>4. ASSUME NEW d \in Client, Arrives(d, u),
             backlog'[u] = Append(backlog[u], d)
      PROVE  In(conn, u) \/ Arrives(conn, u)
  <2>1. /\ Len(backlog'[u]) = Len(backlog[u]) + 1
        /\ \A k \in 1 .. Len(backlog[u]) : backlog'[u][k] = backlog[u][k]
        /\ backlog'[u][Len(backlog[u]) + 1] = d
    BY <1>1, <1>4, AppendProperties
  <2>2. CASE i \in 1 .. Len(backlog[u])
    BY <1>2, <2>1, <2>2 DEF In
  <2>3. CASE i = Len(backlog[u]) + 1
    BY <1>2, <1>4, <2>1, <2>3
  <2>. QED
    BY <1>1, <2>1, <2>2, <2>3
<1>. QED
  BY <1>2, <1>3, <1>4, BacklogChange DEF In

LEMMA AtStep ==
  ASSUME IInv, [Next]_vars, NEW conn, NEW u \in Server, At(conn, u)'
  PROVE  \/ At(conn, u) /\ coms'[u] = coms[u]
         \/ Accept(u) /\ In(conn, u) /\ conn = Head(backlog[u])
         \/ u = 1 /\ NotifyDone(1) /\ coms[1].conn = conn
<1>1. coms'[u].pc = "serve" /\ coms'[u].conn = conn
  BY DEF At
<1>2. \/ coms'[u] = coms[u]
      \/ Accept(u) /\ coms'[u].conn = Head(backlog[u])
      \/ u = 1 /\ NotifyDone(1) /\ coms'[1].conn = coms[1].conn
  BY <1>1, ComsChange
<1>3. Accept(u) => In(Head(backlog[u]), u)
  <2>1. ASSUME Accept(u)
        PROVE  1 \in 1 .. Len(backlog[u]) /\ backlog[u][1] = Head(backlog[u])
    BY <2>1, HeadTailProperties, EmptySeq DEF Accept, IInv, TypeOK
  <2>. QED
    BY <2>1 DEF In
<1>. QED
  BY <1>1, <1>2, <1>3 DEF At

\* How the list of a server changes.
LEMMA ListChange ==
  ASSUME IInv, [Next]_vars, NEW s \in Server \ {1}
  PROVE  \/ list'[s] = list[s]
         \/ Start(s)
         \/ MainStore(s) /\ list'[s] = main[s].reply
         \/ DeferredStore(s) /\ list'[s] = coms[s].reply
<1>1. list \in [Server -> Seq(Server)]
  BY DEF IInv, TypeOK
<1>2. CASE \E t \in Server : Start(t) \/ MainStore(t) \/ DeferredStore(t)
  <2>. PICK t \in Server : Start(t) \/ MainStore(t) \/ DeferredStore(t)
    BY <1>2
  <2>1. CASE Start(t)
    BY <1>1, <2>1 DEF Start
  <2>2. CASE MainStore(t)
    BY <1>1, <2>2 DEF MainStore
  <2>3. CASE DeferredStore(t)
    BY <1>1, <2>3 DEF DeferredStore
  <2>. QED
    BY <2>1, <2>2, <2>3
<1>3. CASE ServeRegister(1)
  BY <1>3, Registration, Zenon
<1>4. CASE \/ \E t \in Server : \/ MainConnect(t) \/ MainClose(t)
                               \/ MainConnectPrimary(t) \/ Accept(t)
                               \/ ClientGone(t) \/ ServeGetPrimary(t)
                               \/ DeferredConnect(t) \/ ServeUpdate(t)
                               \/ Defer(t) \/ Stops(t)
          \/ ServeFetchMain(1) \/ ServeFetchComs(1)
          \/ NotifySkip(1) \/ NotifyConnect(1) \/ NotifyFails(1)
          \/ NotifyDone(1) \/ UNCHANGED vars
  BY <1>4 DEF MainConnect, MainClose, MainConnectPrimary, Accept, ClientGone,
     ServeGetPrimary, DeferredConnect, ServeUpdate, Defer, Stops, End,
     ServeFetchMain, ServeFetchComs, NotifySkip, NotifyConnect, NotifyFails,
     NotifyDone, vars
<1>. QED
  BY StepCases, <1>2, <1>3, <1>4

\* Which processes run.
LEMMA StatusChange ==
  ASSUME IInv, [Next]_vars, NEW s \in Server
  PROVE  \/ status'[s] = status[s]
         \/ Start(s) /\ status[s] = "off" /\ status'[s] = "up"
         \/ /\ s # 1 /\ Stops(s) /\ Up(s)
            /\ status'[s] \in {"crashed", "null_primary", "no_contact"}
<1>1. status \in [Server -> {"off", "up", "crashed", "null_primary",
                             "no_contact"}]
  BY DEF IInv, TypeOK
<1>2. CASE \E t \in Server : Start(t)
  BY <1>1, <1>2 DEF Start
<1>3. CASE \E t \in Server \ {1} : Stops(t)
  BY <1>1, <1>3 DEF Stops, End
<1>4. CASE \/ \E t \in Server : \/ MainConnect(t) \/ MainClose(t)
                               \/ MainConnectPrimary(t) \/ MainStore(t)
                               \/ Accept(t) \/ ClientGone(t)
                               \/ ServeGetPrimary(t) \/ DeferredConnect(t)
                               \/ DeferredStore(t) \/ ServeUpdate(t)
                               \/ Defer(t)
          \/ ServeFetchMain(1) \/ ServeFetchComs(1) \/ ServeRegister(1)
          \/ NotifySkip(1) \/ NotifyConnect(1) \/ NotifyFails(1)
          \/ NotifyDone(1) \/ UNCHANGED vars
  BY <1>4 DEF MainConnect, MainClose, MainConnectPrimary, MainStore, Accept,
     ClientGone, ServeGetPrimary, DeferredConnect, DeferredStore,
     ServeUpdate, Defer, ServeFetchMain, ServeFetchComs, ServeRegister,
     NotifySkip, NotifyConnect, NotifyFails, NotifyDone, vars
<1>. QED
  BY StepCases, <1>2, <1>3, <1>4

-----------------------------------------------------------------------------
(* The parts of the invariant *)

LEMMA PrimaryRunsStep == IInv /\ [Next]_vars => PrimaryRuns'
<1>. SUFFICES ASSUME IInv, [Next]_vars PROVE PrimaryRuns'
  OBVIOUS
<1>. USE OneIsServer
<1>0. /\ PrimaryRuns /\ status[1] = "up" /\ main[1].pc = "joined"
      /\ list[1] \in Seq(Server) /\ Len(list[1]) \in Nat
      /\ coms[1] \in ComsState /\ main[1] \in MainState
      /\ Len(list[1]) > 0 /\ list[1][1] = 1
      /\ \A i, j \in 1 .. Len(list[1]) : list[1][i] = list[1][j] => i = j
  BY DEF IInv, PrimaryRuns, TypeOK, Up, Joined
<1>1. Up(1)'
  BY <1>0, StatusChange DEF Up
<1>2. Joined(1)'
  BY <1>0, MainChange DEF Joined, Start, MainState
<1>3. deferred'[1] = 0
  BY <1>0, DeferredChange DEF PrimaryRuns
<1>4. coms'[1].pc \in {"accept", "serve", "notify", "await"}
  BY <1>0, <1>3, ComsChange DEF PrimaryRuns
<1>5. /\ Len(list'[1]) > 0 /\ list'[1][1] = 1
      /\ \A i, j \in 1 .. Len(list'[1]) : list'[1][i] = list'[1][j] => i = j
  <2>1. CASE ServeRegister(1)
    <3> DEFINE m == coms[1].conn[2]
    <3>1. /\ Len(list'[1]) = Len(list[1]) + 1 /\ ~Lists(1, m)
          /\ \A i \in 1 .. Len(list[1]) : list'[1][i] = list[1][i]
          /\ list'[1][Len(list[1]) + 1] = m
      BY <2>1, Registration
    <3>2. \A i \in 1 .. Len(list[1]) : list[1][i] # m
      BY <3>1 DEF Lists
    <3>. HIDE DEF m
    <3>3. Len(list'[1]) > 0 /\ list'[1][1] = 1
      BY <1>0, <3>1
    <3>4. ASSUME NEW i \in 1 .. Len(list'[1]), NEW j \in 1 .. Len(list'[1]),
                 list'[1][i] = list'[1][j]
          PROVE  i = j
      <4>1. /\ i \in 1 .. Len(list[1]) \/ i = Len(list[1]) + 1
            /\ j \in 1 .. Len(list[1]) \/ j = Len(list[1]) + 1
        BY <1>0, <3>1
      <4>. QED
        BY <1>0, <3>1, <3>2, <3>4, <4>1
    <3>. QED
      BY <3>3, <3>4
  <2>. QED
    BY <1>0, <2>1, OrderStep DEF PrimaryRuns
<1>. QED
  BY <1>1, <1>2, <1>3, <1>4, <1>5 DEF PrimaryRuns

LEMMA NotStartedStep == IInv /\ [Next]_vars => NotStarted'
<1>. SUFFICES ASSUME IInv, [Next]_vars, NEW s \in Server
              PROVE  /\ status'[s] = "off" <=> main'[s].pc = "off"
                     /\ status'[s] = "off" =>
                          /\ coms'[s].pc = "off" /\ deferred'[s] = 0
                          /\ backlog'[s] = << >>
  BY DEF NotStarted
<1>. USE OneIsServer
<1>0. /\ TypeOK /\ NotStarted /\ PrimaryRuns
      /\ main[s] \in MainState /\ coms[s] \in ComsState
  BY DEF IInv, TypeOK
<1>1. status'[s] = "off" <=> main'[s].pc = "off"
  <2>1. main[s].pc = "off" /\ main'[s].pc # "off" => Start(s)
    BY <1>0, MainChange
  <2>2. main[s].pc # "off" => main'[s].pc # "off"
    BY <1>0, MainChange DEF MainState
  <2>3. Start(s) => status'[s] = "up" /\ main'[s].pc = "connect"
    BY <1>0 DEF Start, TypeOK, MainState
  <2>. QED
    BY <1>0, <2>1, <2>2, <2>3, StatusChange DEF NotStarted, Up
<1>2. ASSUME status'[s] = "off" 
      PROVE  coms'[s].pc = "off" /\ deferred'[s] = 0 /\ backlog'[s] = << >>
  <2>1. /\ status[s] = "off" /\ ~Start(s) /\ coms[s].pc = "off"
        /\ deferred[s] = 0 /\ backlog[s] = << >> /\ ~Up(s) /\ s # 1
    <3>1. Start(s) => status'[s] = "up"
      BY <1>0 DEF Start, TypeOK
    <3>2. status[s] = "off"
      BY <1>2, StatusChange
    <3>. QED
      BY <1>0, <1>2, <3>1, <3>2 DEF NotStarted, PrimaryRuns, Up
  <2>2. deferred'[s] = 0
    <3>1. Defer(s) => Up(s)
      BY DEF Defer
    <3>. QED
      BY <2>1, <3>1, DeferredChange
  <2>3. coms'[s].pc = "off"
    BY <2>1, ComsChange
  <2>4. backlog'[s] = << >>
    BY <2>1, BacklogChange
  <2>. QED
    BY <2>2, <2>3, <2>4
<1>. QED
  BY <1>1, <1>2

LEMMA RegisteredStep == IInv /\ [Next]_vars => Registered'
<1>. SUFFICES ASSUME IInv, [Next]_vars, NEW s \in Server
              PROVE  Lists(1, s)' <=> main'[s].pc \in {"fetch", "store", "joined"}
  BY DEF Registered
<1>. USE OneIsServer
<1>0. /\ main[s] \in MainState /\ list[1] \in Seq(Server)
      /\ Lists(1, s) <=> main[s].pc \in {"fetch", "store", "joined"}
  BY DEF IInv, TypeOK, Registered
<1>1. CASE ServeRegister(1)
  <2> DEFINE m == coms[1].conn[2]
  <2>0. /\ Len(list[1]) \in Nat /\ Len(list'[1]) = Len(list[1]) + 1
        /\ \A i \in 1 .. Len(list[1]) : list'[1][i] = list[1][i]
        /\ list'[1][Len(list[1]) + 1] = m
    BY <1>1, Registration
  <2>1. Lists(1, s)' <=> Lists(1, s) \/ s = m
    <3>. HIDE DEF m
    <3>1. Lists(1, s) => Lists(1, s)'
      BY <2>0 DEF Lists
    <3>2. s = m => Lists(1, s)'
      BY <2>0 DEF Lists
    <3>3. Lists(1, s)' => Lists(1, s) \/ s = m
      BY <2>0 DEF Lists
    <3>. QED
      BY <3>1, <3>2, <3>3
  <2>2. main' = [main EXCEPT ![m].pc = "fetch"] /\ m \in Server
    BY <1>1, Registration
  <2>3. main \in [Server -> MainState]
    BY DEF IInv, TypeOK
  <2>. QED
    BY <1>0, <2>1, <2>2, <2>3 DEF MainState
<1>2. CASE ~ServeRegister(1)
  <2>1. list'[1] = list[1]
    BY <1>2, OrderStep
  <2>2. Start(s) => main[s].pc = "off"
    BY DEF Start, IInv, NotStarted
  <2>3. main'[s].pc \in {"fetch", "store", "joined"}
        <=> main[s].pc \in {"fetch", "store", "joined"}
    BY <1>0, <1>2, <2>2, MainChange DEF MainState
  <2>. QED
    BY <1>0, <2>1, <2>3 DEF Lists
<1>. QED
  BY <1>1, <1>2

LEMMA PrefixesStep == IInv /\ [Next]_vars => Prefixes'
<1>. SUFFICES ASSUME IInv, [Next]_vars, NEW s \in Server
              PROVE  /\ Joined(s)' =>
                          Prefix(list'[s], list'[1]) /\ Lists(s, s)'
                     /\ main'[s].pc = "store" =>
                          /\ Prefix(main'[s].reply, list'[1])
                          /\ \E i \in 1 .. Len(main'[s].reply) :
                               main'[s].reply[i] = s
                     /\ coms'[s].pc = "store" =>
                          /\ Prefix(coms'[s].reply, list'[1])
                          /\ Len(list'[s]) <= Len(coms'[s].reply)
  BY DEF Prefixes
<1>. USE OneIsServer
<1>0. /\ main[s].reply \in Seq(Server) /\ coms[s].reply \in Seq(Server)
      /\ list[s] \in Seq(Server) /\ list[1] \in Seq(Server)
  BY DEF IInv, TypeOK, MainState, ComsState
<1>1. /\ Joined(s) => Prefix(list[s], list[1]) /\ Lists(s, s)
      /\ main[s].pc = "store" =>
           /\ Prefix(main[s].reply, list[1])
           /\ \E i \in 1 .. Len(main[s].reply) : main[s].reply[i] = s
      /\ coms[s].pc = "store" =>
           /\ Prefix(coms[s].reply, list[1])
           /\ Len(list[s]) <= Len(coms[s].reply)
           /\ Joined(s) /\ s # 1
  BY DEF IInv, Prefixes, Repeating, PrimaryRuns
<1>2. list[1] = list'[1] \/ ServeRegister(1)
  BY OrderStep
<1>3. ASSUME Joined(s)' PROVE Prefix(list'[s], list'[1]) /\ Lists(s, s)'
  <2>1. CASE s = 1
    <3>1. Joined(1) /\ list'[1] \in Seq(Server)
      BY TypeStep DEF IInv, PrimaryRuns, TypeOK
    <3>. QED
      BY <1>1, <2>1, <3>1, PrefixStep DEF Prefix
  <2>2. CASE s # 1 /\ MainStore(s) /\ list'[s] = main[s].reply
    <3>1. main[s].pc = "store"
      BY <2>2 DEF MainStore
    <3>2. Prefix(main[s].reply, list'[1])
      BY <1>0, <1>1, <3>1, PrefixStep
    <3>. QED
      BY <1>1, <2>2, <3>1, <3>2 DEF Lists
  <2>3. CASE s # 1 /\ DeferredStore(s) /\ list'[s] = coms[s].reply
    <3>1. coms[s].pc = "store"
      BY <2>3 DEF DeferredStore
    <3>2. Prefix(coms[s].reply, list'[1])
      BY <1>0, <1>1, <3>1, PrefixStep
    <3>3. PICK i \in 1 .. Len(list[s]) : list[s][i] = s
      BY <1>1, <3>1 DEF Lists
    <3>4. i \in 1 .. Len(coms[s].reply) /\ coms[s].reply[i] = s
      BY <1>0, <1>1, <3>1, <3>3 DEF Prefix
    <3>. QED
      BY <2>3, <3>2, <3>4 DEF Lists
  <2>4. CASE s # 1 /\ list'[s] = list[s] /\ ~MainStore(s)
    <3>1. Joined(s)
      BY <1>3, <2>4, MainChange DEF Joined
    <3>. QED
      BY <1>0, <1>1, <2>4, <3>1, PrefixStep DEF Lists
  <2>5. MainStore(s) => list'[s] = main[s].reply
    BY DEF MainStore, IInv, TypeOK
  <2>6. ~Start(s)
    BY <1>3 DEF Start, Joined, IInv, TypeOK, MainState
  <2>. QED
    BY <2>1, <2>2, <2>3, <2>4, <2>5, <2>6, ListChange
<1>4. ASSUME main'[s].pc = "store"
      PROVE  /\ Prefix(main'[s].reply, list'[1])
             /\ \E i \in 1 .. Len(main'[s].reply) : main'[s].reply[i] = s
  <2>1. CASE main'[s] = main[s]
    BY <1>0, <1>1, <1>4, <2>1, PrefixStep
  <2>2. CASE main'[s] # main[s]
    <3>1. main[s].pc = "fetch" /\ main'[s].reply = list[1]
      BY <1>4, <2>2, MainChange
    <3>2. Lists(1, s)
      BY <3>1 DEF IInv, Registered
    <3>. QED
      BY <3>1, <3>2, PrefixStep DEF Lists
  <2>. QED
    BY <2>1, <2>2
<1>5. ASSUME coms'[s].pc = "store"
      PROVE  /\ Prefix(coms'[s].reply, list'[1])
             /\ Len(list'[s]) <= Len(coms'[s].reply)
  <2>1. /\ Joined(s) /\ s # 1
        /\ Prefix(coms'[s].reply, list'[1])
        /\ Len(list[s]) <= Len(coms'[s].reply)
        /\ ~DeferredStore(s)
    <3>1. CASE coms'[s] = coms[s]
      <4>1. ~DeferredStore(s)
        BY <1>5, DeferredStoreNext
      <4>. QED
        BY <1>0, <1>1, <1>5, <3>1, <4>1, PrefixStep
    <3>2. CASE coms'[s] # coms[s]
      <4>1. /\ s # 1 /\ coms[s].pc = "fetch"
            /\ coms'[s].reply = list[1]
        BY <1>5, <3>2, ComsChange
      <4>2. Joined(s)
        BY <4>1 DEF IInv, Repeating
      <4>. QED
        BY <1>1, <4>1, <4>2, PrefixStep DEF Prefix, DeferredStore
    <3>. QED
      BY <3>1, <3>2
  <2>2. ~Start(s) /\ ~MainStore(s)
    BY <2>1 DEF Start, MainStore, Joined, IInv, NotStarted
  <2>. QED
    BY <2>1, <2>2, ListChange
<1>. QED
  BY <1>3, <1>4, <1>5

\* The head of what is left of a round, in the list.
LEMMA HeadOfRound ==
  ASSUME IInv, InRound, coms[1].todo # << >>
  PROVE  /\ Passed \in Nat /\ Passed < Len(list[1])
         /\ Len(coms[1].todo) \in Nat /\ Len(list[1]) \in Nat
         /\ Head(coms[1].todo) = list[1][Passed + 1]
         /\ Head(coms[1].todo) \in Server
<1>1. coms[1].todo \in Seq(Server) /\ list[1] \in Seq(Server)
  BY OneIsServer DEF IInv, TypeOK, ComsState
<1>2. Len(coms[1].todo) \in Nat \ {0} /\ Len(list[1]) \in Nat
  BY <1>1, EmptySeq
<1>3. Head(coms[1].todo) = coms[1].todo[1]
  OBVIOUS
<1>4. Passed = Len(list[1]) - Len(coms[1].todo)
  BY DEF Passed
<1>5. Passed >= 0 /\ coms[1].todo[1] = list[1][Passed + 1]
  <2>1. 1 \in 1 .. Len(coms[1].todo)
    BY <1>2
  <2>. QED
    BY <2>1, Zenon DEF IInv, Round
<1>6. Head(coms[1].todo) \in Server
  BY <1>1, HeadTailProperties
<1>7. ASSUME NEW n \in Nat, NEW k \in Nat \ {0}, NEW p, p = n - k, p >= 0
      PROVE  p \in Nat /\ p < n
  BY <1>7
<1>8. Passed \in Nat /\ Passed < Len(list[1])
  <2> DEFINE k == Len(coms[1].todo)
  <2>1. /\ k \in Nat \ {0} /\ Len(list[1]) \in Nat
        /\ Passed = Len(list[1]) - k /\ Passed >= 0
    BY <1>2, <1>4, <1>5
  <2> HIDE DEF k
  <2>. QED
    BY <1>7, <2>1
<1>. QED
  BY <1>2, <1>3, <1>5, <1>6, <1>8

\* Who is notified has joined.
LEMMA NotifiedJoined ==
  ASSUME IInv, NEW t \in Server \ {1}, ServeUpdate(t)
  PROVE  Joined(t)
<1>1. /\ Up(t) /\ coms[1].pc = "await" /\ coms[1].todo # << >>
      /\ Head(coms[1].todo) = t /\ InRound
  BY Notification DEF InRound
<1>2. /\ Passed \in Nat /\ Passed < Len(list[1]) /\ Len(list[1]) \in Nat
      /\ list[1][Passed + 1] = t
  BY <1>1, HeadOfRound
<1>3. main[t].pc \in {"fetch", "store", "joined"}
  BY <1>2 DEF IInv, Registered, Lists
<1>4. main[t].pc # "store"
  BY <1>1 DEF IInv, Fetching, At
<1>5. coms[1].conn # <<"main", t>>
  BY <1>1 DEF IInv, Round, InRound, Excluded
<1>6. ~Stuck(t)
  BY <1>1, <1>2 DEF Stuck, IInv, PrimaryRuns
<1>. QED
  BY <1>1, <1>3, <1>4, <1>5, <1>6 DEF IInv, Fetching, Joined

LEMMA RepeatingStep == IInv /\ [Next]_vars => Repeating'
<1>. SUFFICES ASSUME IInv, [Next]_vars, NEW s \in Server
              PROVE  /\ deferred'[s] > 0 \/ coms'[s].pc = "defer" =>
                          Joined(s)'
                     /\ coms'[s].pc \in {"deferred", "fetch", "store"} =>
                          deferred'[s] > 0 /\ coms'[s].left > 0
                     /\ coms'[s].pc \in {"notify", "await"} => s = 1
  BY DEF Repeating
<1>0. /\ deferred[s] \in Nat /\ deferred'[s] \in Nat /\ coms[s].left \in Nat
      /\ deferred[s] > 0 \/ coms[s].pc = "defer" => Joined(s)
      /\ coms[s].pc \in {"deferred", "fetch", "store"} =>
           deferred[s] > 0 /\ coms[s].left > 0
      /\ coms[s].pc \in {"notify", "await"} => s = 1
  BY TypeStep DEF IInv, TypeOK, ComsState, Repeating
<1>1. deferred'[s] >= deferred[s]
  BY <1>0, DeferredChange
<1>2. Joined(s) => Joined(s)'
  BY MainChange DEF Joined
<1>3. deferred'[s] > 0 => Joined(s)'
  <2>1. CASE deferred'[s] = deferred[s]
    BY <1>0, <1>2, <2>1
  <2>2. CASE s # 1 /\ Defer(s)
    BY <1>0, <1>2, <2>2 DEF Defer
  <2>. QED
    BY <2>1, <2>2, DeferredChange
<1>6. coms'[s].pc = "defer" => Joined(s)'
  <2>1. CASE coms'[s] = coms[s]
    BY <1>0, <1>2, <2>1
  <2>2. CASE s # 1 /\ ServeUpdate(s)
    BY <1>2, <2>2, NotifiedJoined
  <2>. QED
    BY <2>1, <2>2, ComsChange
<1>4. coms'[s].pc \in {"notify", "await"} => s = 1
  BY <1>0, ComsChange
<1>5. ASSUME coms'[s].pc \in {"deferred", "fetch", "store"}
      PROVE  deferred'[s] > 0 /\ coms'[s].left > 0
  BY <1>0, <1>1, <1>5, ComsChange
<1>. QED
  BY <1>3, <1>4, <1>5, <1>6

-----------------------------------------------------------------------------
(* Where connections are *)

\* The main thread closes its connection before it opens another, and when
\* it has joined.
LEMMA ClosesMain ==
  ASSUME IInv, [Next]_vars, NEW s \in Server, NEW u \in Server,
         MainClose(s) \/ MainStore(s)
  PROVE  ~At(<<"main", s>>, u)'
<1>1. coms' = Closed(<<"main", s>>)
  BY DEF MainClose, MainStore
<1>2. /\ coms[u] \in ComsState /\ deferred[u] \in Nat /\ TypeOK
  BY DEF IInv, TypeOK
<1>3. coms'[u] = IF At(<<"main", s>>, u) THEN Top(coms[u], deferred[u])
                                        ELSE coms[u]
  BY <1>1, <1>2, ClosedFields DEF At
<1>4. Top(coms[u], deferred[u]).pc # "serve"
  BY <1>2, TopFields
<1>. QED
  BY <1>3, <1>4 DEF At

\* Who connects from a main thread has no other connection.
LEMMA OneConnection ==
  ASSUME IInv, [Next]_vars, NEW conn \in Client, NEW u \in Server,
         Arrives(conn, u), Up(u)
  PROVE  ~In(conn, u) /\ ~At(conn, u)'
<1>. USE OneIsServer
<1>1. CASE \E s \in Server :
             conn = <<"main", s>> /\ (MainConnect(s) \/ MainConnectPrimary(s))
  <2>. PICK s \in Server :
         conn = <<"main", s>> /\ (MainConnect(s) \/ MainConnectPrimary(s))
    BY <1>1
  <2>1. ~OfMain(s, u) /\ coms' = coms
    BY DEF MainConnect, MainConnectPrimary, OfMain
  <2>2. ~In(conn, u) /\ ~At(conn, u)
    BY <2>1 DEF IInv, Places
  <2>. QED
    BY <2>1, <2>2 DEF At
<1>3. CASE \E s \in Server \ {1} :
             conn = <<"coms", s>> /\ DeferredConnect(s)
  <2>. PICK s \in Server \ {1} : conn = <<"coms", s>> /\ DeferredConnect(s)
    BY <1>3
  <2>1. ~OfComs(s, u) /\ coms[s].pc = "deferred"
    BY DEF DeferredConnect, OfComs
  <2>2. ~In(conn, u) /\ ~At(conn, u)
    BY <2>1 DEF IInv, Places
  <2>3. coms' = [coms EXCEPT ![s].pc = "fetch"] /\ coms[s].pc = "deferred"
    BY DEF DeferredConnect
  <2>4. ~At(conn, u)'
    BY <2>2, <2>3 DEF At, IInv, TypeOK, ComsState
  <2>. QED
    BY <2>2, <2>4
<1>4. CASE conn = <<"coms", 1>> /\ NotifyConnect(1)
  <2>1. ~OfComs(1, u) /\ coms[1].pc = "notify"
    BY <1>4 DEF NotifyConnect, OfComs
  <2>2. ~In(conn, u) /\ ~At(conn, u)
    BY <1>4, <2>1 DEF IInv, Places
  <2>3. coms' = [coms EXCEPT ![1].pc = "await"]
    BY <1>4 DEF NotifyConnect
  <2>4. ~At(conn, u)'
    BY <2>2, <2>3 DEF At, IInv, TypeOK, ComsState
  <2>. QED
    BY <2>2, <2>4
<1>. QED
  BY <1>1, <1>3, <1>4 DEF Arrives

\* The server that is registered in a round is in the list.
LEMMA OfRound ==
  ASSUME IInv, InRound
  PROVE  \E x \in Server : /\ coms[1].conn = <<"main", x>>
                           /\ main[x].pc \in {"fetch", "store", "joined"}
<1> DEFINE x == list[1][Len(list[1])]
<1>1. x \in Server /\ Lists(1, x)
  BY OneIsServer DEF IInv, TypeOK, PrimaryRuns, Lists
<1>2. coms[1].conn = <<"main", x>>
  BY DEF IInv, Round
<1>. QED
  BY <1>1, <1>2 DEF IInv, Registered

\* The coms thread of u keeps its connection while it has one.
LEMMA KeepsConnection ==
  ASSUME IInv, [Next]_vars, NEW u \in Server, ~Accept(u),
         coms'[u].pc \in {"serve", "notify", "await"}
  PROVE  /\ coms'[u].conn = coms[u].conn
         /\ coms[u].pc \in {"serve", "notify", "await"}
  BY ComsChange

LEMMA OnceStep == IInv /\ [Next]_vars => Once'
<1>. SUFFICES ASSUME IInv, [Next]_vars, NEW u \in Server
              PROVE  /\ \A i, j \in 1 .. Len(backlog'[u]) :
                          backlog'[u][i] = backlog'[u][j] => i = j
                     /\ coms'[u].pc \in {"serve", "notify", "await"} =>
                          ~In(coms[u].conn, u)'
  BY DEF Once
<1>. USE OneIsServer
<1>0. /\ backlog[u] \in Seq(Client) /\ Len(backlog[u]) \in Nat
      /\ \A i, j \in 1 .. Len(backlog[u]) :
           backlog[u][i] = backlog[u][j] => i = j
      /\ coms[u].pc \in {"serve", "notify", "await"} => ~In(coms[u].conn, u)
  BY DEF IInv, TypeOK, Once
<1>1. CASE backlog'[u] = backlog[u]
  <2>1. CASE coms'[u].pc \in {"serve", "notify", "await"}
    <3>1. ~Accept(u)
      <4>1. SUFFICES ASSUME Accept(u) PROVE FALSE
        OBVIOUS
      <4>2. backlog[u] # << >> /\ backlog'[u] = Tail(backlog[u])
        BY <4>1 DEF Accept, IInv, TypeOK
      <4>3. Len(Tail(backlog[u])) = Len(backlog[u]) - 1
        BY <1>0, <4>2, HeadTailProperties
      <4>4. \A n \in Nat : n # n - 1
        OBVIOUS
      <4>5. Tail(backlog[u]) = backlog[u]
        BY <1>1, <4>2
      <4>6. Len(backlog[u]) = Len(backlog[u]) - 1
        BY <4>3, <4>5, Zenon
      <4>. QED
        BY <1>0, <4>4, <4>6, Zenon
    <3>2. /\ coms'[u].conn = coms[u].conn
          /\ coms[u].pc \in {"serve", "notify", "await"}
      BY <2>1, <3>1, KeepsConnection
    <3>. QED
      BY <1>0, <1>1, <3>2 DEF In
  <2>. QED
    BY <1>0, <1>1, <2>1
<1>2. CASE Accept(u) /\ backlog[u] # << >> /\ backlog'[u] = Tail(backlog[u])
  <2>1. /\ Len(backlog'[u]) = Len(backlog[u]) - 1
        /\ \A i \in 1 .. Len(backlog'[u]) : backlog'[u][i] = backlog[u][i + 1]
    BY <1>0, <1>2, HeadTailProperties
  <2>2. coms'[u].conn = backlog[u][1] /\ 1 \in 1 .. Len(backlog[u])
    BY <1>0, <1>2, EmptySeq DEF Accept, IInv, TypeOK, ComsState
  <2>3. \A i \in 1 .. Len(backlog'[u]) : i + 1 \in 1 .. Len(backlog[u])
    BY <1>0, <2>1
  <2>4. \A i \in 1 .. Len(backlog'[u]) : backlog'[u][i] # coms'[u].conn
    BY <1>0, <2>1, <2>2, <2>3
  <2>5. \A i, j \in 1 .. Len(backlog'[u]) :
          backlog'[u][i] = backlog'[u][j] => i = j
    BY <1>0, <2>1, <2>3
  <2>. QED
    BY <2>4, <2>5 DEF In
<1>3. ASSUME NEW conn \in Client, Arrives(conn, u), Up(u),
             backlog'[u] = Append(backlog[u], conn)
      PROVE  /\ \A i, j \in 1 .. Len(backlog'[u]) :
                  backlog'[u][i] = backlog'[u][j] => i = j
             /\ coms'[u].pc \in {"serve", "notify", "await"} =>
                  ~In(coms[u].conn, u)'
  <2>1. ~In(conn, u) /\ ~At(conn, u)'
    BY <1>3, OneConnection
  <2>2. /\ Len(backlog'[u]) = Len(backlog[u]) + 1
        /\ \A i \in 1 .. Len(backlog[u]) : backlog'[u][i] = backlog[u][i]
        /\ backlog'[u][Len(backlog[u]) + 1] = conn
    BY <1>0, <1>3, AppendProperties
  <2>3. \A i \in 1 .. Len(backlog[u]) : backlog[u][i] # conn
    BY <2>1 DEF In
  <2>4. ASSUME NEW i \in 1 .. Len(backlog'[u]),
               NEW j \in 1 .. Len(backlog'[u]),
               backlog'[u][i] = backlog'[u][j]
        PROVE  i = j
    <3>1. /\ i \in 1 .. Len(backlog[u]) \/ i = Len(backlog[u]) + 1
          /\ j \in 1 .. Len(backlog[u]) \/ j = Len(backlog[u]) + 1
      BY <1>0, <2>2
    <3>. QED
      BY <1>0, <2>2, <2>3, <2>4, <3>1
  <2>5. ASSUME coms'[u].pc \in {"serve", "notify", "await"}
        PROVE  ~In(coms[u].conn, u)'
    <3>1. /\ coms'[u].conn = coms[u].conn
          /\ coms[u].pc \in {"serve", "notify", "await"}
      <4>1. ~Accept(u)
        BY <1>3 DEF Arrives, Accept, MainConnect, MainConnectPrimary,
                    DeferredConnect, NotifyConnect, IInv, TypeOK
      <4>. QED
        BY <2>5, <4>1, KeepsConnection
    <3>2. coms[u].conn # conn
      <4>1. CASE coms'[u].pc = "serve"
        BY <2>1, <3>1, <4>1 DEF At
      <4>2. CASE coms'[u].pc \in {"notify", "await"} /\ ServeRegister(1)
        <5>1. backlog'[u] = backlog[u]
          BY <4>2, Registration
        <5>. QED
          BY <1>0, <2>2, <5>1
      <4>3. CASE coms'[u].pc \in {"notify", "await"} /\ ~ServeRegister(1)
        <5>1. u = 1 /\ InRound
          BY <3>1, <4>3, ComsChange DEF InRound, IInv, Repeating
        <5>2. PICK x \in Server :
                /\ coms[1].conn = <<"main", x>>
                /\ main[x].pc \in {"fetch", "store", "joined"}
          BY <5>1, OfRound
        <5>3. conn # <<"main", x>>
          BY <1>3, <5>2 DEF Arrives, MainConnect, MainConnectPrimary
        <5>. QED
          BY <5>1, <5>2, <5>3
      <4>. QED
        BY <2>5, <4>1, <4>2, <4>3
    <3>. QED
      BY <1>0, <2>2, <2>3, <3>1, <3>2 DEF In
  <2>. QED
    BY <2>4, <2>5
<1>. QED
  BY <1>1, <1>2, <1>3, BacklogChange

LEMMA MainPlacesStep ==
  ASSUME IInv, [Next]_vars, NEW s \in Server, NEW u \in Server,
         In(<<"main", s>>, u)' \/ At(<<"main", s>>, u)'
  PROVE  OfMain(s, u)'
<1>. USE OneIsServer
<1> DEFINE conn == <<"main", s>>
           in == In(conn, u)
           at == At(conn, u)
<1>0. conn \in Client /\ main[s] \in MainState
  BY DEF Client, IInv, TypeOK
<1>1. in' => in \/ Arrives(conn, u)
  BY <1>0, InStep
<1>2. at' => in \/ at \/ (u = 1 /\ NotifyDone(1) /\ coms[1].conn = conn)
  BY AtStep
<1>3. Arrives(conn, u) => \/ MainConnect(s) /\ u = Contact[s]
                          \/ MainConnectPrimary(s) /\ u = 1
  BY DEF Arrives
<1>4. CASE MainConnect(s) /\ u = Contact[s]
  <2>1. main'[s].pc = "ask"
    BY <1>0, <1>4 DEF MainConnect, IInv, TypeOK, MainState
  <2>. QED
    BY <1>4, <2>1 DEF OfMain
<1>5. CASE MainConnectPrimary(s) /\ u = 1
  <2>1. main'[s].pc = "register"
    BY <1>0, <1>5 DEF MainConnectPrimary, IInv, TypeOK, MainState
  <2>. QED
    BY <1>5, <2>1 DEF OfMain
<1>6. CASE u = 1 /\ NotifyDone(1) /\ coms[1].conn = conn
  <2>1. main' = main /\ InRound
    BY <1>6 DEF NotifyDone, InRound
  <2>2. PICK x \in Server : /\ coms[1].conn = <<"main", x>>
                            /\ main[x].pc \in {"fetch", "store", "joined"}
    BY <2>1, OfRound
  <2>3. x = s
    BY <1>6, <2>2
  <2>. QED
    BY <1>6, <2>1, <2>2, <2>3 DEF OfMain
<1>7. CASE /\ in \/ at
           /\ ~(MainConnectPrimary(s) /\ u = 1)
           /\ ~(MainConnect(s) /\ u = Contact[s])
  <2>1. OfMain(s, u)
    BY <1>7 DEF IInv, Places
  <2>2. in' => in
    BY <1>1, <1>3, <1>7
  <2>. HIDE DEF in, at, conn
  <2>3. CASE main'[s] = main[s]
    BY <2>1, <2>2, <2>3 DEF OfMain, in, conn
  <2>4. CASE /\ \E t \in Server :
                  ServeGetPrimary(t) /\ coms[t].conn = <<"main", s>>
             /\ main[s].pc = "ask" /\ main'[s].pc = "asked"
    <3>. PICK t \in Server :
           ServeGetPrimary(t) /\ coms[t].conn = <<"main", s>>
      BY <2>4
    <3>1. u = Contact[s]
      BY <2>1, <2>4 DEF OfMain
    <3>2. At(<<"main", s>>, t)
      BY DEF ServeGetPrimary, Serves, At
    <3>3. t = Contact[s]
      BY <2>4, <3>2 DEF IInv, Places, OfMain
    <3>4. ~In(<<"main", s>>, u)
      BY <3>1, <3>2, <3>3 DEF IInv, Once, At
    <3>5. ~In(<<"main", s>>, u)'
      BY <2>2, <3>4 DEF in, conn
    <3>. QED
      BY <2>4, <3>1, <3>5 DEF OfMain
  <2>5. CASE MainClose(s) /\ main[s].pc = "asked"
    <3>1. ~in /\ ~in'
      BY <2>1, <2>2, <2>5 DEF OfMain, in, conn
    <3>2. ~at'
      BY <2>5, ClosesMain DEF at, conn
    <3>. QED
      BY <3>1, <3>2 DEF in, at, conn
  <2>6. CASE main[s].pc \in {"off", "connect", "closed"}
    BY <2>1, <2>6 DEF OfMain
  <2>7. CASE \/ main[s].pc = "register" /\ main'[s].pc = "fetch"
             \/ main[s].pc = "fetch" /\ main'[s].pc = "store"
             \/ main[s].pc = "store" /\ main'[s].pc = "joined"
    BY <2>1, <2>7 DEF OfMain
  <2>. QED
    BY <2>3, <2>4, <2>5, <2>6, <2>7, MainChange
<1>. QED
  BY <1>1, <1>2, <1>3, <1>4, <1>5, <1>6, <1>7

LEMMA ComsPlacesStep ==
  ASSUME IInv, [Next]_vars, NEW s \in Server, NEW u \in Server,
         In(<<"coms", s>>, u)' \/ At(<<"coms", s>>, u)'
  PROVE  OfComs(s, u)'
<1>. USE OneIsServer
<1> DEFINE conn == <<"coms", s>>
           in == In(conn, u)
           at == At(conn, u)
<1>0. conn \in Client /\ coms \in [Server -> ComsState]
  BY DEF Client, IInv, TypeOK
<1>1. in' => in \/ Arrives(conn, u)
  BY <1>0, InStep
<1>2. at' => in \/ (at /\ coms'[u] = coms[u])
  <2>1. ~(NotifyDone(1) /\ coms[1].conn = conn)
    BY OfRound DEF NotifyDone, InRound
  <2>. HIDE DEF conn
  <2>. QED
    BY <2>1, AtStep
<1>3. Arrives(conn, u) =>
        \/ s # 1 /\ DeferredConnect(s) /\ u = 1
        \/ s = 1 /\ NotifyConnect(1) /\ u = Head(coms[1].todo)
  BY DEF Arrives
<1>4. CASE s # 1 /\ DeferredConnect(s) /\ u = 1
  <2>1. coms'[s].pc = "fetch"
    BY <1>0, <1>4 DEF DeferredConnect, ComsState
  <2>. QED
    BY <1>4, <2>1 DEF OfComs
<1>5. CASE s = 1 /\ NotifyConnect(1) /\ u = Head(coms[1].todo)
  <2>1. coms'[1].pc = "await" /\ coms'[1].todo = coms[1].todo
    BY <1>0, <1>5 DEF NotifyConnect, ComsState
  <2>. QED
    BY <1>5, <2>1 DEF OfComs
<1>6. CASE s # 1 /\ (in \/ at)
  <2>1. u = 1 /\ coms[s].pc \in {"fetch", "store"}
    BY <1>6 DEF IInv, Places, OfComs
  <2>2. CASE DeferredStore(s)
    <3>1. at /\ ~in
      BY <2>1, <2>2 DEF DeferredStore, IInv, Fetching, Once, At
    <3>2. ~in'
      BY <1>1, <1>3, <1>6, <2>2, <3>1 DEF DeferredConnect, DeferredStore
    <3>3. ~at'
      BY <1>6, <2>1, <2>2, DeferredStoreNext
    <3>. QED
      BY <3>2, <3>3
  <2>3. CASE ~DeferredStore(s)
    <3>1. coms'[s].pc \in {"fetch", "store"}
      BY <1>6, <2>1, <2>3, ComsChange DEF Start, IInv, NotStarted
    <3>. QED
      BY <1>6, <2>1, <3>1 DEF OfComs
  <2>. QED
    BY <2>2, <2>3
<1>7. CASE s = 1 /\ (in \/ at)
  <2>1. SUFFICES ASSUME Up(u)'
                 PROVE  coms'[1].pc = "await" /\ Head(coms'[1].todo) = u
    BY <1>7 DEF OfComs
  <2>2. Up(u)
    <3>1. CASE status[u] = "off"
      <4>1. backlog[u] = << >> /\ coms[u].pc = "off"
        BY <3>1 DEF IInv, NotStarted
      <4>2. Len(<< >>) = 0
        OBVIOUS
      <4>. QED
        BY <1>7, <4>1, <4>2 DEF In, At
    <3>. QED
      BY <2>1, <3>1, StatusChange DEF Up
  <2>3. coms[1].pc = "await" /\ Head(coms[1].todo) = u
    BY <1>7, <2>2 DEF IInv, Places, OfComs
  <2>4. CASE coms'[1] = coms[1]
    BY <2>3, <2>4
  <2>5. CASE \E t \in Server \ {1} : ServeUpdate(t)
    <3>1. /\ coms[u].pc = "serve" /\ coms[u].conn = <<"coms", 1>>
          /\ coms'[u] = [coms[u] EXCEPT !.pc = "defer"]
          /\ backlog' = backlog
      BY <2>3, <2>5, Notification
    <3>2. ~at'
      <4>1. coms[u] \in ComsState
        BY <1>0
      <4>. QED
        BY <3>1, <4>1 DEF At, ComsState
    <3>3. ~in
      BY <1>7, <3>1 DEF IInv, Once
    <3>4. ~in'
      BY <3>1, <3>3 DEF In
    <3>. QED
      BY <3>2, <3>4
  <2>6. ~NotifyFails(1)
    BY <2>2, <2>3 DEF NotifyFails
  <2>. QED
    BY <2>3, <2>4, <2>5, <2>6, ComsChange
<1>. HIDE DEF in, at
<1>. QED
  <2>1. in' \/ at'
    BY DEF in, at, conn
  <2>. QED
    BY <1>1, <1>2, <1>3, <1>4, <1>5, <1>6, <1>7, <2>1

LEMMA PlacesStep == IInv /\ [Next]_vars => Places'
  BY MainPlacesStep, ComsPlacesStep DEF Places

-----------------------------------------------------------------------------
(* The round *)

LEMMA RoundStep == IInv /\ [Next]_vars => Round'
<1>. SUFFICES ASSUME IInv, [Next]_vars,
                     coms'[1].pc \in {"notify", "await"}
              PROVE  /\ coms'[1].conn = <<"main", list'[1][Len(list'[1])]>>
                     /\ Passed' >= 0
                     /\ \A i \in 1 .. Len(coms'[1].todo) :
                          coms'[1].todo[i] = list'[1][Passed' + i]
                     /\ coms'[1].pc = "await" =>
                          /\ coms'[1].todo # << >>
                          /\ Head(coms'[1].todo) \notin {1, coms'[1].conn[2]}
  BY DEF Round, InRound, Excluded
<1>. USE OneIsServer
<1>0. /\ coms[1].todo \in Seq(Server) /\ Len(coms[1].todo) \in Nat
      /\ list[1] \in Seq(Server) /\ Len(list[1]) \in Nat
  BY DEF IInv, TypeOK, ComsState
<1>1. CASE ServeRegister(1)
  <2>1. /\ Len(list'[1]) = Len(list[1]) + 1
        /\ coms[1].conn = <<"main", list'[1][Len(list[1]) + 1]>>
        /\ coms' = [coms EXCEPT ![1].pc = "notify", ![1].todo = list'[1]]
    BY <1>1, Registration
  <2>2. /\ coms'[1].pc = "notify" /\ coms'[1].conn = coms[1].conn
        /\ coms'[1].todo = list'[1]
    BY <2>1 DEF IInv, TypeOK, ComsState
  <2>3. Passed' = 0
    BY <1>0, <2>1, <2>2 DEF Passed
  <2>4. coms'[1].conn = <<"main", list'[1][Len(list'[1])]>>
    BY <2>1, <2>2
  <2>5. ASSUME NEW i \in 1 .. Len(coms'[1].todo)
        PROVE  coms'[1].todo[i] = list'[1][Passed' + i]
    <3>1. i \in Int /\ coms'[1].todo[i] = list'[1][i]
      BY <2>2
    <3>2. Passed' + i = i
      BY <2>3, <3>1
    <3>. QED
      BY <3>1, <3>2
  <2>. QED
    BY <2>2, <2>3, <2>4, <2>5
<1>2. CASE ~ServeRegister(1)
  <2>0. /\ list'[1] = list[1] /\ InRound
    BY <1>2, OrderStep, ComsChange DEF InRound
  <2>. DEFINE todo == coms[1].todo
              n == Len(list[1])
              k == Len(todo)
  <2>1. /\ coms[1].conn = <<"main", list[1][n]>>
        /\ Passed >= 0 /\ Passed = n - k
        /\ \A i \in 1 .. k : todo[i] = list[1][Passed + i]
        /\ coms[1].pc = "await" => todo # << >> /\ Head(todo) \notin Excluded(1)
    BY <2>0 DEF IInv, Round, Passed
  <2>2. CASE /\ todo # << >> /\ coms'[1].pc = "notify"
             /\ coms'[1].conn = coms[1].conn /\ coms'[1].todo = Tail(todo)
    <3>1. /\ Len(Tail(todo)) = k - 1
          /\ \A i \in 1 .. Len(Tail(todo)) : Tail(todo)[i] = todo[i + 1]
      BY <1>0, <2>2, HeadTailProperties
    <3>2. k \in Nat \ {0}
      BY <1>0, <2>2, EmptySeq
    <3>3. Passed' = n - Len(Tail(todo))
      BY <2>0, <2>2 DEF Passed
    <3>4. ASSUME NEW p, NEW q, NEW a \in Nat, NEW b \in Nat \ {0}, NEW c,
                 p = a - b, p >= 0, c = b - 1, q = a - c
          PROVE  q = p + 1 /\ q >= 0 /\ p \in Nat
      BY <3>4
    <3>5. n \in Nat
      BY <1>0
    <3>. HIDE DEF k, n, todo
    <3>6. Passed' = Passed + 1 /\ Passed' >= 0 /\ Passed \in Nat
      BY <2>1, <3>1, <3>2, <3>3, <3>4, <3>5
    <3>7. ASSUME NEW i \in 1 .. Len(Tail(todo))
          PROVE  Tail(todo)[i] = list[1][Passed' + i]
      <4>1. i + 1 \in 1 .. k /\ i \in Nat
        BY <3>1, <3>2
      <4>2. Tail(todo)[i] = list[1][Passed + (i + 1)]
        BY <2>1, <3>1, <4>1
      <4>3. Passed + (i + 1) = Passed' + i
        BY <3>6, <4>1
      <4>. QED
        BY <4>2, <4>3
    <3>. QED
      BY <2>0, <2>1, <2>2, <3>6, <3>7 DEF n
  <2>3. CASE /\ coms'[1].todo = todo /\ coms'[1].conn = coms[1].conn
             /\ coms'[1].pc = "await" => \/ coms[1].pc = "await"
                                         \/ NotifyConnect(1)
    <3>1. Passed' = Passed
      BY <2>0, <2>3 DEF Passed
    <3>2. coms'[1].pc = "await" => todo # << >> /\ Head(todo) \notin Excluded(1)
      BY <2>1, <2>3 DEF NotifyConnect
    <3>. QED
      BY <2>0, <2>1, <2>3, <3>1, <3>2 DEF Excluded
  <2>4. NotifySkip(1) => todo # << >>
    BY DEF NotifySkip
  <2>5. (\E t \in Server \ {1} : ServeUpdate(t)) => todo # << >>
    BY Notification
  <2>. HIDE DEF todo
  <2>. QED
    BY <1>2, <2>2, <2>3, <2>4, <2>5, ComsChange DEF todo
<1>. QED
  BY <1>1, <1>2

\* The head of a round is passed when it is skipped or has answered.
Passes == NotifySkip(1) \/ \E t \in Server \ {1} : ServeUpdate(t)

LEMMA PassesStep ==
  ASSUME IInv, Passes
  PROVE  /\ coms[1].pc \in {"notify", "await"} /\ coms[1].todo # << >>
         /\ coms'[1].pc = "notify" /\ coms'[1].todo = Tail(coms[1].todo)
<1>1. coms \in [Server -> ComsState] /\ coms[1] \in ComsState
  BY OneIsServer DEF IInv, TypeOK
<1>2. CASE NotifySkip(1)
  BY <1>1, <1>2, OneIsServer DEF NotifySkip, ComsState
<1>3. ASSUME NEW t \in Server \ {1}, ServeUpdate(t)
      PROVE  /\ coms[1].pc = "await" /\ coms[1].todo # << >>
             /\ coms'[1].pc = "notify" /\ coms'[1].todo = Tail(coms[1].todo)
  <2>1. /\ coms[1].pc = "await" /\ coms[1].todo # << >>
        /\ coms'[1] = [coms[1] EXCEPT !.pc = "notify", !.todo = Tail(@)]
    BY <1>3, Notification
  <2>. QED
    BY <1>1, <2>1 DEF ComsState
<1>. QED
  BY <1>2, <1>3 DEF Passes

\* Where the round is after a step.
LEMMA PassedStep ==
  ASSUME IInv, [Next]_vars, ~ServeRegister(1), InRound'
  PROVE  /\ InRound /\ list'[1] = list[1] /\ coms'[1].conn = coms[1].conn
         /\ Passed \in Int
         /\ IF Passes THEN coms[1].todo # << >> /\ Passed' = Passed + 1
                      ELSE Passed' = Passed
<1>. USE OneIsServer
<1> DEFINE todo == coms[1].todo
           n == Len(list[1])
           k == Len(todo)
<1>0. /\ todo \in Seq(Server) /\ k \in Nat /\ n \in Nat
      /\ Passed = n - k
  BY DEF IInv, TypeOK, ComsState, Passed
<1>1. /\ list'[1] = list[1] /\ InRound
      /\ coms'[1].conn = coms[1].conn
      /\ coms'[1].todo = todo \/ Passes
  BY OrderStep, ComsChange DEF InRound, Passes
<1>2. Passes => /\ todo # << >> /\ coms'[1].todo = Tail(todo)
  BY PassesStep
<1>3. Passed \in Int
  <2>. HIDE DEF n, k
  <2>. QED
    BY <1>0
<1>4. CASE ~Passes
  BY <1>1, <1>3, <1>4 DEF Passed
<1>5. CASE Passes
  <2>1. Len(Tail(todo)) = k - 1
    BY <1>0, <1>2, <1>5, HeadTailProperties
  <2>2. Passed' = n - Len(Tail(todo))
    BY <1>1, <1>2, <1>5 DEF Passed
  <2>3. ASSUME NEW a \in Nat, NEW b \in Nat PROVE a - (b - 1) = (a - b) + 1
    OBVIOUS
  <2>. HIDE DEF n, k, todo
  <2>4. Passed' = Passed + 1
    BY <1>0, <2>1, <2>2, <2>3
  <2>. QED
    BY <1>1, <1>2, <1>3, <1>5, <2>4 DEF todo
<1>. QED
  BY <1>4, <1>5

LEMMA FetchingStep == IInv /\ [Next]_vars => Fetching'
<1>. SUFFICES ASSUME IInv, [Next]_vars, NEW s \in Server, Up(s)'
              PROVE  /\ main'[s].pc = "store" => At(<<"main", s>>, 1)'
                     /\ coms'[s].pc = "store" => At(<<"coms", s>>, 1)'
                     /\ main'[s].pc = "fetch" =>
                          \/ /\ coms'[1].pc # "accept"
                             /\ coms'[1].conn = <<"main", s>>
                          \/ Stuck(s)'
  BY DEF Fetching
<1>. USE OneIsServer
<1>0. /\ coms[1].pc \in {"accept", "serve", "notify", "await"}
      /\ Joined(1) /\ Up(1)
  BY DEF IInv, PrimaryRuns
<1>1. Up(s) \/ (Start(s) /\ main'[s].pc \notin {"store", "fetch"}
                /\ coms'[s].pc # "store")
  <2>1. CASE Up(s)
    BY <2>1
  <2>2. CASE ~Up(s)
    <3>1. Start(s) /\ status[s] = "off"
      BY <2>2, StatusChange DEF Up
    <3>2. main[s].pc = "off" /\ coms[s].pc = "off"
      BY <3>1 DEF IInv, NotStarted
    <3>. QED
      BY <3>1, <3>2, MainChange, ComsChange
  <2>. QED
    BY <2>1, <2>2
\* How the primary's coms thread leaves a connection of somebody who runs.
<1>2. ASSUME NEW conn, At(conn, 1), ~At(conn, 1)'
      PROVE  \/ ServeRegister(1) \/ ClientGone(1)
             \/ \E m \in Server : /\ conn = <<"main", m>>
                                  /\ MainClose(m) \/ MainStore(m)
             \/ \E c \in Server : conn = <<"coms", c>> /\ DeferredStore(c)
  BY <1>2, ComsChange DEF At
<1>3. ASSUME main'[s].pc = "store" PROVE At(<<"main", s>>, 1)'
  <2>1. CASE main[s].pc = "store"
    <3>1. At(<<"main", s>>, 1) /\ Up(s)
      BY <1>1, <1>3, <2>1 DEF IInv, Fetching
    <3>2. ~ServeRegister(1)
      BY <2>1, <3>1, Registration DEF At
    <3>3. ~ClientGone(1)
      BY <3>1 DEF ClientGone, At
    <3>4. ~MainClose(s) /\ ~MainStore(s)
      BY <1>3, <2>1 DEF MainClose, MainStore, IInv, TypeOK, MainState
    <3>. QED
      BY <1>2, <3>1, <3>2, <3>3, <3>4
  <2>2. CASE main[s].pc # "store"
    <3>1. ServeFetchMain(1) /\ coms[1].conn = <<"main", s>>
      BY <1>3, <2>2, MainChange
    <3>. QED
      BY <3>1 DEF ServeFetchMain, Serves, At
  <2>. QED
    BY <2>1, <2>2
<1>4. ASSUME coms'[s].pc = "store" PROVE At(<<"coms", s>>, 1)'
  <2>1. CASE coms[s].pc = "store"
    <3>1. At(<<"coms", s>>, 1) /\ Up(s)
      BY <1>1, <1>4, <2>1 DEF IInv, Fetching
    <3>2. ~ServeRegister(1)
      BY <3>1, Registration DEF At
    <3>3. ~ClientGone(1)
      BY <3>1 DEF ClientGone, At
    <3>4. ~DeferredStore(s)
      BY <1>4, DeferredStoreNext
    <3>. QED
      BY <1>2, <3>1, <3>2, <3>3, <3>4
  <2>2. CASE coms[s].pc # "store"
    <3>1. ServeFetchComs(1) /\ coms[1].conn = <<"coms", s>> /\ s # 1
      BY <1>4, <2>2, ComsChange
    <3>2. coms[1].pc = "serve"
      BY <3>1 DEF ServeFetchComs, Serves
    <3>3. coms'[1] = coms[1]
      BY <3>1 DEF ServeFetchComs, IInv, TypeOK
    <3>. QED
      BY <3>1, <3>2, <3>3 DEF At
  <2>. QED
    BY <2>1, <2>2
<1>5. ASSUME main'[s].pc = "fetch"
      PROVE  \/ coms'[1].pc # "accept" /\ coms'[1].conn = <<"main", s>>
             \/ Stuck(s)'
  <2>. DEFINE n == Len(list[1])
  <2>0. /\ n \in Nat /\ n > 0
        /\ \A i, j \in 1 .. n : list[1][i] = list[1][j] => i = j
        /\ \A i \in 1 .. n : list[1][i] \in Server /\ Lists(1, list[1][i])
    BY DEF IInv, TypeOK, PrimaryRuns, Lists
  <2>9. /\ Len(list'[1]) \in Nat /\ n <= Len(list'[1])
        /\ \A i \in 1 .. n : list'[1][i] = list[1][i]
    <3>1. Prefix(list[1], list'[1])
      BY PrefixStep
    <3>2. list'[1] \in Seq(Server)
      BY TypeStep DEF TypeOK
    <3>. QED
      BY <3>1, <3>2 DEF Prefix
  <2>10. ASSUME NEW i \in 1 .. n, ~Up(list[1][i])
         PROVE  status'[list'[1][i]] # "up"
    <3> DEFINE x == list[1][i]
    <3>1. x \in Server /\ list'[1][i] = x
      BY <2>0, <2>9
    <3>2. status[x] # "off"
      BY <2>0 DEF IInv, Registered, NotStarted
    <3>. HIDE DEF x
    <3>3. status'[x] # "up"
      BY <2>10, <3>1, <3>2, StatusChange DEF Up, x
    <3>. QED
      BY <3>1, <3>3
  <2>1. CASE ServeRegister(1) /\ coms[1].conn = <<"main", s>>
    <3>1. coms' = [coms EXCEPT ![1].pc = "notify", ![1].todo = list'[1]]
      BY <2>1, Registration
    <3>. QED
      BY <2>1, <3>1 DEF IInv, TypeOK, ComsState
  <2>2. ASSUME main[s].pc = "fetch", Up(s),
               coms[1].pc # "accept", coms[1].conn = <<"main", s>>,
               ~NotifyFails(1)
        PROVE  coms'[1].pc # "accept" /\ coms'[1].conn = <<"main", s>>
    <3>1. ~ServeRegister(1)
      BY <2>2, Registration
    <3>2. ~ClientGone(1)
      BY <2>2 DEF ClientGone
    <3>3. ~MainClose(s) /\ ~MainStore(s)
      BY <2>2 DEF MainClose, MainStore
    <3>. QED
      BY <2>2, <3>1, <3>2, <3>3, ComsChange
  <2>3. ASSUME main[s].pc = "fetch", coms[1].conn = <<"main", s>>,
               NotifyFails(1)
        PROVE  Stuck(s)'
    <3>1. /\ InRound /\ coms[1].todo # << >>
          /\ Head(coms[1].todo) \notin Excluded(1) /\ ~Up(Head(coms[1].todo))
          /\ coms' = [coms EXCEPT ![1] = Top(coms[1], deferred[1])]
          /\ UNCHANGED <<status, list>>
      BY <2>3 DEF NotifyFails, InRound
    <3>2. coms'[1].pc = "accept"
      <4>1. coms \in [Server -> ComsState] /\ deferred[1] = 0
        BY DEF IInv, TypeOK, PrimaryRuns
      <4>. QED
        BY <3>1, <4>1, TopFields
    <3>3. ~InRound'
      BY <3>2 DEF InRound
    <3> DEFINE i == Passed + 1
    <3>4. i \in 1 .. n /\ Head(coms[1].todo) = list[1][i]
      BY <2>0, <3>1, HeadOfRound
    <3>5. list[1][n] = s
      BY <2>3, <3>1 DEF IInv, Round
    <3>6. list[1][i] # s
      BY <2>3, <3>1, <3>4 DEF Excluded
    <3>7. ~Up(list[1][i])
      BY <3>1, <3>4
    <3>. HIDE DEF i
    <3>8. i \in 1 .. n /\ n \in 1 .. n /\ i < n
      BY <2>0, <3>4, <3>5, <3>6
    <3>. QED
      BY <3>1, <3>3, <3>5, <3>7, <3>8 DEF Stuck, Up
  <2>4. ASSUME main[s].pc = "fetch", Stuck(s)
        PROVE  Stuck(s)'
    <3>. PICK i \in 1 .. n, j \in 1 .. n :
           /\ i < j /\ list[1][j] = s /\ ~Up(list[1][i])
           /\ InRound => i > Passed
      BY <2>4 DEF Stuck
    <3>1. status'[list'[1][i]] # "up" /\ list'[1][j] = s
      BY <2>9, <2>10
    <3>2. ASSUME InRound' PROVE i > Passed'
      <4>1. CASE ServeRegister(1)
        <5>0. coms' = [coms EXCEPT ![1].pc = "notify", ![1].todo = list'[1]]
          BY <4>1, Registration
        <5>1. coms'[1].todo = list'[1]
          BY <5>0 DEF IInv, TypeOK, ComsState
        <5>2. Passed' = Len(list'[1]) - Len(list'[1])
          BY <5>1 DEF Passed
        <5>. QED
          BY <2>9, <5>2
      <4>2. CASE ~ServeRegister(1)
        <5>1. InRound /\ i > Passed
          BY <3>2, <4>2, PassedStep
        <5>2. CASE ~Passes
          BY <3>2, <4>2, <5>1, <5>2, PassedStep
        <5>3. CASE Passes
          <6>0. coms[1].todo # << >> /\ Passed' = Passed + 1
            BY <3>2, <4>2, <5>3, PassedStep
          <6>1. Passed \in Nat /\ Head(coms[1].todo) = list[1][Passed + 1]
            BY <5>1, <6>0, HeadOfRound
          <6>2. Up(Head(coms[1].todo)) \/ Head(coms[1].todo) = list[1][n]
            <7>1. coms[1].conn[2] = list[1][n]
              BY <5>1 DEF IInv, Round
            <7>2. CASE NotifySkip(1)
              BY <1>0, <7>1, <7>2 DEF NotifySkip, Excluded
            <7>3. CASE \E t \in Server \ {1} : ServeUpdate(t)
              BY <7>3, Notification
            <7>. QED
              BY <5>3, <7>2, <7>3 DEF Passes
          <6>3. i # Passed + 1
            <7>. SUFFICES ASSUME i = Passed + 1 PROVE FALSE
              OBVIOUS
            <7>1. list[1][i] = list[1][n]
              BY <6>1, <6>2
            <7>. QED
              BY <2>0, <7>1
          <6>. QED
            BY <5>1, <6>0, <6>1, <6>3
        <5>. QED
          BY <5>2, <5>3
      <4>. QED
        BY <4>1, <4>2
    <3>3. i \in 1 .. Len(list'[1]) /\ j \in 1 .. Len(list'[1])
      BY <2>0, <2>9
    <3>. QED
      BY <3>1, <3>2, <3>3 DEF Stuck, Up
  <2>5. \/ ServeRegister(1) /\ coms[1].conn = <<"main", s>>
        \/ main[s].pc = "fetch" /\ Up(s)
    BY <1>1, <1>5, MainChange
  <2>. QED
    BY <2>1, <2>2, <2>3, <2>4, <2>5 DEF IInv, Fetching
<1>. QED
  BY <1>3, <1>4, <1>5

LEMMA Initially == Init => IInv
<1>. SUFFICES ASSUME Init PROVE IInv
  OBVIOUS
<1>. USE OneIsServer
<1>1. TypeOK
  BY TypeInit
<1>2. /\ status[1] = "up" /\ main[1].pc = "joined" /\ list[1] = <<1>>
      /\ coms[1].pc = "accept" /\ deferred[1] = 0
      /\ \A s \in Server :
           /\ backlog[s] = << >> /\ deferred[s] = 0
           /\ coms[s].pc \in {"off", "accept"}
           /\ s # 1 => /\ main[s].pc = "off" /\ coms[s].pc = "off"
                       /\ status[s] = "off"
  BY DEF Init
<1>3. Len(<<1>>) = 1 /\ <<1>>[1] = 1
  OBVIOUS
<1>4. PrimaryRuns /\ NotStarted /\ Registered
  BY <1>2, <1>3 DEF PrimaryRuns, NotStarted, Registered, Up, Joined, Lists
<1>5. Prefixes
  <2>1. Prefix(list[1], list[1]) /\ Lists(1, 1)
    BY <1>2, <1>3 DEF Prefix, Lists
  <2>2. ASSUME NEW s \in Server
        PROVE  /\ main[s].pc \in {"off", "joined"} /\ coms[s].pc # "store"
               /\ Joined(s) => s = 1
    BY <1>2 DEF Joined
  <2>. QED
    BY <2>1, <2>2 DEF Prefixes
<1>6. Repeating /\ Round
  BY <1>2 DEF Repeating, Round, InRound
<1>7. Places /\ Once
  BY <1>2 DEF Places, Once, In, At
<1>8. Fetching
  BY <1>2 DEF Fetching
<1>. QED
  BY <1>1, <1>4, <1>5, <1>6, <1>7, <1>8 DEF IInv

LEMMA Inductive == IInv /\ [Next]_vars => IInv'
  BY TypeStep, PrimaryRunsStep, NotStartedStep, RegisteredStep, PrefixesStep,
     RepeatingStep, PlacesStep, OnceStep, RoundStep, FetchingStep DEF IInv

LEMMA Invariance == Spec => []IInv
  BY Initially, Inductive, PTL DEF Spec

-----------------------------------------------------------------------------
(* The theorems *)

\* Every list, backlog and thread stays within its type; the coms thread
\* never counts fewer deferred requests than none.
THEOREM TypeCorrect == Spec => []TypeOK
<1>1. IInv => TypeOK
  BY DEF IInv
<1>. QED
  BY <1>1, Invariance, PTL

\* Whoever has joined, or repeats an update, finds a primary in its list
\* (coms.cpp:235 and 601 dereference it): updates are only deferred by those
\* that have joined, whose lists are prefixes of the primary's with themselves in it.
THEOREM PrimaryFound == Spec => []DeferredFindsPrimary
<1>1. IInv => DeferredFindsPrimary
  <2>. SUFFICES ASSUME IInv, NEW s \in Server,
                       Joined(s) \/ coms[s].pc = "deferred"
                PROVE  Lists(s, 1)
    BY DEF DeferredFindsPrimary, ListsPrimary
  <2>1. Joined(s)
    BY DEF IInv, Repeating
  <2>2. Prefix(list[s], list[1]) /\ Lists(s, s) /\ list[1][1] = 1
    BY <2>1 DEF IInv, Prefixes, PrimaryRuns
  <2>3. list[s] \in Seq(Server)
    BY DEF IInv, TypeOK
  <2>4. 1 \in 1 .. Len(list[s])
    BY <2>2, <2>3 DEF Lists
  <2>. QED
    BY <2>2, <2>4 DEF Lists, Prefix
<1>. QED
  BY <1>1, Invariance, PTL

-----------------------------------------------------------------------------
(* The refinement of RegistrationLog *)

LogView == [s \in Server |-> IF Joined(s) THEN list[s] ELSE << >>]

\* The sequence that is a prefix is the subsequence of its length.
LEMMA PrefixIsSubSeq ==
  ASSUME NEW S, NEW k \in Seq(S), NEW l \in Seq(S), Prefix(k, l)
  PROVE  k = SubSeq(l, 1, Len(k))
<1>1. Len(k) \in Nat /\ Len(l) \in Nat /\ Len(k) <= Len(l)
      /\ \A i \in 1 .. Len(k) : k[i] = l[i]
  BY DEF Prefix
<1> DEFINE t == SubSeq(l, 1, Len(k))
<1>2. \A i \in 1 .. Len(k) : i \in 1 .. Len(l)
  BY <1>1
<1>3. \A i \in 1 .. Len(k) : l[i] \in S
  BY <1>2
<1>4. t \in Seq(S) /\ Len(t) = Len(k)
      /\ \A i \in 1 .. Len(k) : t[i] = l[i]
  BY <1>1, <1>2, <1>3, SubSeqProperties
<1> HIDE DEF t
<1>5. t = k
  BY <1>1, <1>4, SeqEqual
<1>. QED
  BY <1>5 DEF t

LEMMA ViewInit == Init => Log!Init
<1>. SUFFICES ASSUME Init PROVE Log!Init
  OBVIOUS
<1>1. /\ list[1] = <<1>> /\ main[1].pc = "joined"
      /\ \A s \in Server \ {1} : main[s].pc = "off"
  BY OneIsServer DEF Init
<1>. QED
  BY <1>1 DEF Log!Init, Joined, Log!Server, Server

\* s takes over the list it has fetched.
LEMMA Takes ==
  ASSUME IInv, NEW s \in Server \ {1}, NEW reply \in Seq(Server),
         list' = [list EXCEPT ![s] = reply], Joined(s)',
         \A u \in Server \ {s} : Joined(u)' <=> Joined(u),
         Prefix(reply, list[1]), Len(LogView[s]) <= Len(reply),
         \E i \in 1 .. Len(reply) : reply[i] = s
  PROVE  Log!Learn(s)
<1>. USE OneIsServer
<1> DEFINE n == Len(reply)
<1>1. list \in [Server -> Seq(Server)] /\ list[1] \in Seq(Server)
  BY DEF IInv, TypeOK
<1>2. /\ list'[1] = list[1] /\ list'[s] = reply
      /\ \A u \in Server \ {s} : list'[u] = list[u]
  BY <1>1
<1>3. LogView' = [LogView EXCEPT ![s] = reply]
  BY <1>2 DEF LogView
<1>4. reply = SubSeq(list[1], 1, n)
  BY <1>1, PrefixIsSubSeq
<1>5. n \in Len(LogView[s]) .. Len(list[1])
  <2>1. LogView[s] \in Seq(Server)
    BY <1>1 DEF LogView
  <2>. QED
    BY <1>1, <2>1 DEF Prefix
<1>6. \E i \in 1 .. n : list[1][i] = s
  BY DEF Prefix
<1>7. \E i \in 1 .. Len(list[1]) : list[1][i] = s
  <2>1. n \in Nat /\ Len(list[1]) \in Nat /\ n <= Len(list[1])
    BY <1>1 DEF Prefix
  <2>. QED
    BY <1>6, <2>1
<1> HIDE DEF n
<1>8. LogView' = [LogView EXCEPT ![s] = SubSeq(list[1], 1, n)]
  BY <1>3, <1>4
<1>. QED
  BY <1>2, <1>5, <1>6, <1>7, <1>8 DEF Log!Learn, Log!Position, LogView

\* The list a server goes by changes only when it stores one.
LEMMA ViewChange ==
  ASSUME IInv, [Next]_vars, NEW s \in Server \ {1}
  PROVE  LogView'[s] = LogView[s] \/ MainStore(s) \/ DeferredStore(s)
<1>1. ~MainStore(s) => (Joined(s)' <=> Joined(s))
  BY MainChange DEF Joined
<1>2. CASE Start(s)
  <2>1. main[s].pc = "off"
    BY <1>2 DEF Start, IInv, NotStarted
  <2>2. ~Joined(s) /\ ~MainStore(s)
    BY <2>1 DEF Joined, MainStore
  <2>. QED
    BY <1>1, <2>2 DEF LogView
<1>3. CASE list'[s] = list[s]
  BY <1>1, <1>3 DEF LogView
<1>. QED
  BY <1>2, <1>3, ListChange

LEMMA ViewStep == IInv /\ IInv' /\ [Next]_vars => [Log!Next]_<<list[1], LogView>>
<1>. SUFFICES ASSUME IInv, IInv', [Next]_vars
              PROVE  [Log!Next]_<<list[1], LogView>>
  OBVIOUS
<1>. USE OneIsServer
<1>0. /\ list \in [Server -> Seq(Server)] /\ list[1] \in Seq(Server)
      /\ main \in [Server -> MainState] /\ coms \in [Server -> ComsState]
  BY DEF IInv, TypeOK
<1>1. CASE \E s \in Server \ {1} : MainStore(s)
  <2>. PICK s \in Server \ {1} : MainStore(s)
    BY <1>1
  <2>1. /\ main[s].pc = "store" /\ list' = [list EXCEPT ![s] = main[s].reply]
        /\ main' = [main EXCEPT ![s].pc = "joined"]
    BY DEF MainStore
  <2>2. Joined(s)' /\ \A u \in Server \ {s} : Joined(u)' <=> Joined(u)
    BY <1>0, <2>1 DEF Joined
  <2>3. /\ main[s].reply \in Seq(Server) /\ Prefix(main[s].reply, list[1])
        /\ \E i \in 1 .. Len(main[s].reply) : main[s].reply[i] = s
    BY <1>0, <2>1 DEF IInv, Prefixes, MainState
  <2>4. Len(LogView[s]) <= Len(main[s].reply)
    BY <2>1, <2>3 DEF LogView, Joined
  <2>5. Log!Learn(s)
    BY <2>1, <2>2, <2>3, <2>4, Takes
  <2>. QED
    BY <2>5 DEF Log!Next, Log!Server, Server
<1>2. CASE \E s \in Server \ {1} : DeferredStore(s)
  <2>. PICK s \in Server \ {1} : DeferredStore(s)
    BY <1>2
  <2>1. /\ coms[s].pc = "store" /\ list' = [list EXCEPT ![s] = coms[s].reply]
        /\ main' = main
    BY DEF DeferredStore
  <2>2. Joined(s) /\ \A u \in Server : Joined(u)' <=> Joined(u)
    BY <2>1 DEF Joined, IInv, Repeating
  <2>3. /\ coms[s].reply \in Seq(Server) /\ Prefix(coms[s].reply, list[1])
        /\ Len(list[s]) <= Len(coms[s].reply)
        /\ Prefix(list[s], list[1]) /\ Lists(s, s)
    BY <1>0, <2>1, <2>2 DEF IInv, Prefixes, ComsState
  <2>4. \E i \in 1 .. Len(coms[s].reply) : coms[s].reply[i] = s
    <3>1. PICK i \in 1 .. Len(list[s]) : list[s][i] = s
      BY <2>3 DEF Lists
    <3>2. Len(list[s]) \in Nat /\ Len(coms[s].reply) \in Nat
      BY <1>0, <2>3
    <3>3. i \in 1 .. Len(coms[s].reply)
      BY <2>3, <3>2
    <3>. QED
      BY <2>3, <3>1, <3>3 DEF Prefix
  <2>5. Len(LogView[s]) <= Len(coms[s].reply)
    BY <2>2, <2>3 DEF LogView
  <2>6. Log!Learn(s)
    BY <2>1, <2>2, <2>3, <2>4, <2>5, Takes
  <2>. QED
    BY <2>6 DEF Log!Next, Log!Server, Server
<1>3. CASE ~\E s \in Server \ {1} : MainStore(s) \/ DeferredStore(s)
  <2>1. \A s \in Server \ {1} : LogView'[s] = LogView[s]
    BY <1>3, ViewChange
  <2>2. LogView[1] = list[1] /\ LogView'[1] = list'[1]
    BY DEF LogView, IInv, PrimaryRuns
  <2>3. CASE list'[1] = list[1]
    BY <2>1, <2>2, <2>3 DEF LogView
  <2>4. CASE ServeRegister(1)
    <3>1. PICK m \in Server : m = coms[1].conn[2] /\ ~Lists(1, m)
      BY <2>4, Registration
    <3>2. list'[1] = Append(list[1], m)
      BY <1>0, <2>4, <3>1 DEF ServeRegister
    <3>3. LogView' = [LogView EXCEPT ![1] = list'[1]]
      BY <2>1, <2>2 DEF LogView
    <3>4. Log!Register(m)
      BY <3>1, <3>2, <3>3 DEF Log!Register, Log!Position, LogView, Lists
    <3>5. m \in Log!Server
      BY <3>1 DEF Log!Server, Server
    <3>6. Log!Next
      BY <3>4, <3>5 DEF Log!Next
    <3>. QED
      BY <3>6
  <2>. QED
    BY <2>3, <2>4, OrderStep
<1>. QED
  BY <1>1, <1>2, <1>3

\* The lists of those that have joined are prefixes of one order that only
\* grows, and no server ever goes back to a shorter one: main thread and coms
\* thread of a server fetch and store its list without waiting for each other
\* (main.cpp:222, coms.cpp:250).
THEOREM Refinement == Spec => RefinesLog
<1>1. Init => Log!Init
  BY ViewInit
<1>2. IInv /\ IInv' /\ [Next]_vars => [Log!Next]_<<list[1], LogView>>
  BY ViewStep
<1>. QED
  BY <1>1, <1>2, Invariance, PTL DEF Spec, RefinesLog, Log!Spec, LogView

-----------------------------------------------------------------------------
(* Everybody is notified.  While a round is going on, those it has not      *)
(* passed miss the update for the last registration.  An update counts from *)
(* its answer on, whether it is deferred already or about to be.           *)

Owed == [s \in Server |-> deferred[s] + Due(s)]

NobodyEnded == \A s \in Server : status[s] \in {"off", "up"}

Pending(j) == InRound /\ Passed < j /\ j < Len(list[1])

Notified ==
  NobodyEnded =>
    \A j \in 2 .. Len(list[1]) :
      Owed[list[1][j]] = Len(list[1]) - j - (IF Pending(j) THEN 1 ELSE 0)

\* Only an answer adds to it: deferring the update does not.
LEMMA OwedChange ==
  ASSUME IInv, [Next]_vars, NEW s \in Server
  PROVE  /\ Owed[s] \in Nat /\ Owed'[s] \in Nat
         /\ Owed'[s] = IF s # 1 /\ ServeUpdate(s) THEN Owed[s] + 1 ELSE Owed[s]
<1>0. /\ deferred[s] \in Nat /\ deferred'[s] \in Nat /\ coms[s] \in ComsState
  BY TypeStep DEF IInv, TypeOK
<1>1. /\ Owed[s] = deferred[s] + (IF coms[s].pc = "defer" THEN 1 ELSE 0)
      /\ Owed'[s] = deferred'[s] + (IF coms'[s].pc = "defer" THEN 1 ELSE 0)
  BY DEF Owed, Due
<1>2. CASE s # 1 /\ ServeUpdate(s)
  <2>1. /\ coms[s].pc = "serve" /\ deferred' = deferred
        /\ coms'[s] = [coms[s] EXCEPT !.pc = "defer"]
    BY <1>2, Notification
  <2>2. coms'[s].pc = "defer"
    BY <1>0, <2>1 DEF ComsState
  <2>. QED
    BY <1>0, <1>1, <1>2, <2>1, <2>2
<1>3. CASE s # 1 /\ Defer(s)
  <2>1. /\ coms[s].pc = "defer" /\ deferred'[s] = deferred[s] + 1
        /\ coms'[s] = Top(coms[s], deferred[s] + 1)
    BY <1>3, Deferral
  <2>2. coms'[s].pc = "deferred"
    BY <1>0, <2>1, TopFields
  <2>3. ~ServeUpdate(s)
    BY <2>1 DEF ServeUpdate, Serves
  <2>. QED
    BY <1>0, <1>1, <2>1, <2>2, <2>3
<1>4. CASE ~(s # 1 /\ (ServeUpdate(s) \/ Defer(s)))
  <2>1. deferred'[s] = deferred[s]
    BY <1>4, DeferredChange
  <2>2. coms'[s].pc = "defer" <=> coms[s].pc = "defer"
    BY <1>4, ComsChange DEF Start, IInv, NotStarted
  <2>. QED
    BY <1>0, <1>1, <1>4, <2>1, <2>2
<1>. QED
  BY <1>2, <1>3, <1>4

LEMMA NotifiedInit == Init => Notified
<1>. SUFFICES ASSUME Init PROVE list[1] = <<1>>
  BY DEF Notified
<1>. QED
  BY OneIsServer DEF Init

\* Who has ended stays that way.
LEMMA EndedStep ==
  ASSUME IInv, [Next]_vars, NobodyEnded'
  PROVE  NobodyEnded
<1>. SUFFICES ASSUME NEW s \in Server PROVE status[s] \in {"off", "up"}
  BY DEF NobodyEnded
<1>1. status'[s] \in {"off", "up"}
  BY DEF NobodyEnded
<1>. QED
  BY <1>1, StatusChange

LEMMA NotifiedStep == IInv /\ Notified /\ [Next]_vars => Notified'
<1>. SUFFICES ASSUME IInv, Notified, [Next]_vars, NobodyEnded',
                     NEW j \in 2 .. Len(list'[1])
              PROVE  Owed'[list'[1][j]]
                       = Len(list'[1]) - j - (IF Pending(j)' THEN 1 ELSE 0)
  BY DEF Notified
<1>. USE OneIsServer
<1> DEFINE n == Len(list[1])
<1>0. /\ n \in Nat /\ n > 0
      /\ \A i, k \in 1 .. n : list[1][i] = list[1][k] => i = k
      /\ \A i \in 1 .. n : list[1][i] \in Server /\ Lists(1, list[1][i])
      /\ list[1][1] = 1
  BY DEF IInv, TypeOK, PrimaryRuns, Lists
<1>1. \A i \in 2 .. n :
        Owed[list[1][i]] = n - i - (IF Pending(i) THEN 1 ELSE 0)
  BY EndedStep DEF Notified
<1>2. CASE ServeRegister(1)
  <2> DEFINE m == coms[1].conn[2]
  <2>1. /\ m \in Server /\ Len(list'[1]) = n + 1 /\ list'[1][n + 1] = m
        /\ \A i \in 1 .. n : list'[1][i] = list[1][i]
        /\ coms[1].pc = "serve" /\ main[m].pc = "register"
        /\ coms' = [coms EXCEPT ![1].pc = "notify", ![1].todo = list'[1]]
    BY <1>2, Registration
  <2>9. \A s \in Server : Owed'[s] = Owed[s] /\ Owed[s] \in Nat
    <3>1. \A s \in Server \ {1} : ~ServeUpdate(s)
      BY <2>1, Notification
    <3>. QED
      BY <3>1, OwedChange
  <2>2. /\ coms'[1].pc = "notify" /\ coms'[1].todo = list'[1]
    BY <2>1 DEF IInv, TypeOK, ComsState
  <2>3. InRound' /\ Passed' = 0 /\ ~InRound
    BY <1>0, <2>1, <2>2 DEF InRound, Passed
  <2>4. Pending(j)' <=> j < n + 1
    BY <2>1, <2>3 DEF Pending
  <2>5. CASE j = n + 1
    <3>1. Owed[m] = 0
      <4>1. deferred[m] > 0 \/ coms[m].pc = "defer" => main[m].pc = "joined"
        BY <2>1 DEF IInv, Repeating, Joined
      <4>2. deferred[m] \in Nat /\ main[m].pc # "joined"
        BY <2>1 DEF IInv, TypeOK
      <4>. QED
        BY <2>1, <4>1, <4>2 DEF Owed, Due
    <3>2. ~Pending(j)' /\ Owed'[list'[1][j]] = 0
      BY <2>1, <2>4, <2>5, <2>9, <3>1
    <3>3. Len(list'[1]) - j = 0
      BY <1>0, <2>1, <2>5
    <3>. QED
      BY <3>2, <3>3
  <2>6. CASE j \in 2 .. n
    <3>1. Owed[list[1][j]] = n - j - 0
      BY <1>1, <2>3, <2>6 DEF Pending
    <3>2. j \in 1 .. n /\ j < n + 1 /\ n - j - 0 = n - j
      BY <1>0, <2>6
    <3>3. list'[1][j] = list[1][j]
      BY <2>1, <3>2
    <3>4. Pending(j)' /\ Owed'[list'[1][j]] = n - j
      <4>1. list[1][j] \in Server
        BY <1>0, <3>2
      <4>. QED
        BY <2>4, <2>9, <3>1, <3>2, <3>3, <4>1
    <3>5. Len(list'[1]) - j - 1 = n - j
      BY <1>0, <2>1, <2>6
    <3>. QED
      BY <3>4, <3>5
  <2>. HIDE DEF m, n
  <2>. QED
    BY <1>0, <2>1, <2>5, <2>6
<1>3. CASE ~ServeRegister(1)
  <2>1. list'[1] = list[1] /\ j \in 2 .. n
    BY <1>3, OrderStep
  <2> DEFINE x == list[1][j]
  <2>2. /\ x \in Server /\ Owed[x] \in Nat
        /\ Owed'[x] = IF x # 1 /\ ServeUpdate(x) THEN Owed[x] + 1 ELSE Owed[x]
        /\ Owed[x] = n - j - (IF Pending(j) THEN 1 ELSE 0)
    <3>1. j \in 1 .. n
      BY <1>0, <2>1
    <3>2. x \in Server
      BY <1>0, <3>1
    <3>3. Owed[x] = n - j - (IF Pending(j) THEN 1 ELSE 0)
      BY <1>1, <2>1, Zenon
    <3>. QED
      BY <3>2, <3>3, OwedChange
  <2>3. CASE Passes
    <3>0. InRound'
      BY <2>3, PassesStep DEF InRound
    <3>1. InRound /\ coms[1].todo # << >> /\ Passed' = Passed + 1
      BY <1>3, <2>3, <3>0, PassedStep
    <3>2. /\ Passed \in Nat /\ Passed < n
          /\ Head(coms[1].todo) = list[1][Passed + 1]
      BY <3>1, HeadOfRound
    <3>3. /\ Passed + 1 \in 1 .. n
          /\ Head(coms[1].todo) = x <=> j = Passed + 1
      BY <1>0, <2>1, <3>2
    <3>4. Pending(j) <=> Passed < j /\ j < n
      BY <3>1 DEF Pending
    <3>5. Pending(j)' <=> Passed + 1 < j /\ j < n
      BY <2>1, <3>0, <3>1 DEF Pending
    <3>6. coms[1].conn[2] = list[1][n]
      BY <3>1 DEF IInv, Round
    <3>7. CASE NotifySkip(1)
      <4>1. Owed'[x] = Owed[x]
        <5>1. coms[1].pc = "notify"
          BY <3>7 DEF NotifySkip
        <5>2. x # 1 => ~ServeUpdate(x)
          BY <2>2, <5>1, Notification
        <5>. QED
          BY <2>2, <5>2
      <4>2. Head(coms[1].todo) \in {1, list[1][n]}
        BY <3>6, <3>7 DEF NotifySkip, Excluded
      <4>3. Passed + 1 \in {1, n}
        BY <1>0, <3>2, <3>3, <4>2
      <4>4. Pending(j)' <=> Pending(j)
        BY <1>0, <2>1, <3>2, <3>4, <3>5, <4>3
      <4>. QED
        BY <2>1, <2>2, <4>1, <4>4
    <3>8. CASE \E t \in Server \ {1} : ServeUpdate(t)
      <4>. PICK t \in Server \ {1} : ServeUpdate(t)
        BY <3>8
      <4>1. Head(coms[1].todo) = t /\ coms[1].pc = "await"
        BY Notification
      <4>2. t # list[1][n]
        BY <3>1, <3>6, <4>1 DEF IInv, Round, Excluded
      <4>3. CASE x = t
        <5>1. j = Passed + 1 /\ j < n
          BY <1>0, <2>1, <3>2, <3>3, <4>1, <4>2, <4>3
        <5>2. Pending(j) /\ ~Pending(j)'
          BY <2>1, <3>2, <3>4, <3>5, <5>1
        <5>3. Owed[x] = n - j - 1
          BY <2>2, <5>2
        <5>4. Owed'[x] = n - j - 1 + 1
          BY <2>2, <4>3, <5>3
        <5>5. n - j - 1 + 1 = n - j - 0
          BY <1>0, <2>1
        <5>. QED
          BY <2>1, <5>2, <5>4, <5>5
      <4>4. CASE x # t
        <5>1. Owed'[x] = Owed[x]
          BY <2>2, <4>1, <4>4, Notification
        <5>2. j # Passed + 1
          BY <3>3, <4>1, <4>4
        <5>3. Pending(j)' <=> Pending(j)
          BY <2>1, <3>2, <3>4, <3>5, <5>2
        <5>. QED
          BY <2>1, <2>2, <5>1, <5>3
      <4>. QED
        BY <4>3, <4>4
    <3>. QED
      BY <2>3, <3>7, <3>8 DEF Passes
  <2>4. ASSUME ~Passes
        PROVE  Owed'[x] = Owed[x] /\ (Pending(j)' <=> Pending(j))
    <3>1. Owed'[x] = Owed[x]
      BY <2>2, <2>4 DEF Passes
    <3>2. CASE InRound'
      <4>1. InRound /\ Passed' = Passed
        BY <1>3, <2>4, <3>2, PassedStep
      <4>. QED
        BY <2>1, <3>1, <3>2, <4>1 DEF Pending
    <3>3. CASE ~InRound'
      <4>1. ~NotifyFails(1)
        <5>. SUFFICES ASSUME NotifyFails(1) PROVE FALSE
          OBVIOUS
        <5>1. /\ InRound /\ coms[1].todo # << >>
              /\ ~Up(Head(coms[1].todo)) /\ status' = status
          BY DEF NotifyFails, InRound
        <5> DEFINE h == Head(coms[1].todo)
        <5>6. /\ Passed + 1 \in 1 .. n /\ h = list[1][Passed + 1]
          BY <1>0, <5>1, HeadOfRound
        <5>2. h \in Server /\ Lists(1, h)
          BY <1>0, <5>6
        <5>3. main[h].pc # "off"
          BY <5>2 DEF IInv, Registered
        <5>4. status[h] # "off"
          BY <5>2, <5>3 DEF IInv, NotStarted
        <5>5. status'[h] \in {"off", "up"}
          BY <5>2 DEF NobodyEnded
        <5>. QED
          BY <5>1, <5>4, <5>5 DEF Up
      <4>2. InRound => NotifyDone(1)
        BY <2>4, <3>3, <4>1, ComsChange DEF InRound, Passes
      <4>3. ~Pending(j)
        <5>1. CASE NotifyDone(1)
          <6>1. Passed = n - 0
            BY <5>1 DEF NotifyDone, Passed
          <6>. QED
            BY <1>0, <2>1, <6>1 DEF Pending
        <5>2. CASE ~InRound
          BY <5>2 DEF Pending
        <5>. QED
          BY <4>2, <5>1, <5>2
      <4>. QED
        BY <3>1, <3>3, <4>3 DEF Pending
    <3>. QED
      BY <3>1, <3>2, <3>3
  <2>. QED
    BY <2>1, <2>2, <2>3, <2>4
<1>. QED
  BY <1>2, <1>3

LEMMA NotifiedInvariance == Spec => []Notified
  BY NotifiedInit, NotifiedStep, Invariance, PTL DEF Spec

\* Unless a process has ended, a backup holds one deferred update for each
\* server that registered after it, or has answered the last one and is about
\* to defer it (coms.cpp:246-250), whenever the primary is not in the middle of
\* notifying (the comment of coms.cpp:214): no registration is missed and none
\* is notified twice, whatever the clients of the primary wait for.
THEOREM NotifiesEverybody == Spec => []EverybodyNotified
<1>1. IInv /\ Notified => EverybodyNotified
  <2>. SUFFICES ASSUME IInv, Notified, NobodyEnded, ~InRound,
                       NEW s \in Server \ {1}, Lists(1, s)
                PROVE  deferred[s] + Due(s) = Cardinality(After(s))
    BY DEF EverybodyNotified, NobodyEnded, InRound
  <2> DEFINE n == Len(list[1])
  <2>1. /\ n \in Nat /\ list[1][1] = 1
        /\ \A i, k \in 1 .. n : list[1][i] = list[1][k] => i = k
    BY OneIsServer DEF IInv, TypeOK, PrimaryRuns
  <2>2. PICK j \in 1 .. n : list[1][j] = s
    BY DEF Lists
  <2>3. j \in 2 .. n
    BY <2>1, <2>2
  <2>4. deferred[s] + Due(s) = n - j - 0
    <3>1. Owed[s] = n - j - 0
      BY <2>2, <2>3 DEF Notified, Pending
    <3>. QED
      BY <3>1 DEF Owed
  <2>5. After(s) = (j + 1) .. n
    <3>1. ASSUME NEW i \in 1 .. n
          PROVE  (\E k \in 1 .. i - 1 : list[1][k] = s) <=> j < i
      <4>1. ASSUME NEW k \in 1 .. i - 1, list[1][k] = s PROVE j < i
        <5>1. k \in 1 .. n /\ k < i
          BY <2>1
        <5>2. k = j
          BY <2>1, <2>2, <4>1, <5>1
        <5>. QED
          BY <5>1, <5>2
      <4>2. j < i => j \in 1 .. i - 1
        BY <2>1
      <4>. QED
        BY <2>2, <4>1, <4>2
    <3>2. After(s) = {i \in 1 .. n : j < i}
      BY <3>1 DEF After
    <3>. HIDE DEF n
    <3>. QED
      BY <2>1, <2>3, <3>2
  <2>6. Cardinality((j + 1) .. n) = IF j + 1 > n THEN 0 ELSE n - (j + 1) + 1
    <3>1. j + 1 \in Int /\ n \in Int
      BY <2>1
    <3>. HIDE DEF n
    <3>. QED
      BY <3>1, FS_Interval, Zenon
  <2>7. (IF j + 1 > n THEN 0 ELSE n - (j + 1) + 1) = n - j - 0
    <3>. HIDE DEF n
    <3>. QED
      BY <2>1, <2>3
  <2>. QED
    BY <2>4, <2>5, <2>6, <2>7, Zenon
<1>. QED
  BY <1>1, Invariance, NotifiedInvariance, PTL

=============================================================================
