--------------------------- MODULE FileSync_proofs ---------------------------
(***************************************************************************)
(* Proofs about FileSync, for any devices, files, situations and bounds:   *)
(* the types; that no change is lost between the server's files and what a *)
(* device has heard of them, whether or not sessions use a file at the     *)
(* same time; and that all echoes end with the version of the user when    *)
(* users wait for each other, also while devices start.                    *)
(***************************************************************************)
EXTENDS FileSync, FiniteSetTheorems, TLAPS

-----------------------------------------------------------------------------
(* Lemmas *)

\* A device that may connect has fewer sessions than the limit.
LEMMA OwnClients ==
  ASSUME NEW d \in Device, sessions \in [Device -> 0 .. MaxConnections],
         Cardinality(Clients) < MaxConnections
  PROVE  sessions[d] < MaxConnections
<1>. DEFINE own(e) == {e} \X (1 .. sessions[e])
<1>1. \A e \in Device : sessions[e] \in Nat
  BY FileSyncAssumption
<1>2. ASSUME NEW e \in Device
      PROVE  IsFiniteSet(own(e)) /\ Cardinality(own(e)) = sessions[e]
  <2>1. IsFiniteSet({e}) /\ Cardinality({e}) = 1
    BY FS_Singleton
  <2>2. IsFiniteSet(1 .. sessions[e]) /\ Cardinality(1 .. sessions[e]) = sessions[e]
    BY <1>1, FS_Interval
  <2>3. /\ IsFiniteSet(own(e))
        /\ Cardinality(own(e)) = Cardinality({e}) * Cardinality(1 .. sessions[e])
    BY <2>1, <2>2, FS_Product
  <2>. QED
    BY <1>1, <2>1, <2>2, <2>3
<1>3. IsFiniteSet({own(e) : e \in Device})
  <2>. DEFINE all == {own(e) : e \in Device}
              f == [e \in Device |-> own(e)]
  <2>1. f \in Surjection(Device, all)
    BY DEF Surjection
  <2>. HIDE DEF f, all
  <2>2. IsFiniteSet(all)
    BY <2>1, FileSyncAssumption, FS_Surjection
  <2>. QED
    BY <2>2 DEF all
<1>4. Clients = UNION {own(e) : e \in Device}
  BY DEF Clients
<1>5. IsFiniteSet(Clients)
  <2>1. \A T \in {own(e) : e \in Device} : IsFiniteSet(T)
    BY <1>2
  <2>. HIDE DEF own
  <2>. QED
    BY <1>3, <1>4, <2>1, FS_UNION
<1>6. own(d) \subseteq Clients
  BY <1>4
<1>. HIDE DEF own
<1>7. Cardinality(own(d)) <= Cardinality(Clients) /\ Cardinality(Clients) \in Nat
  BY <1>5, <1>6, FS_Subset, FS_CardinalityType
<1>. QED
  BY <1>1, <1>2, <1>7, FileSyncAssumption

-----------------------------------------------------------------------------
(* Types *)

\* What the type invariant says of one device.
LEMMA OfDevice ==
  ASSUME TypeOK, NEW d \in Device
  PROVE  /\ net[d] \in NetState /\ net[d].event \in Event /\ net[d].event.file \in File
         /\ net[d].sent \in Content /\ net[d].seen \in Content
         /\ net[d].buf \in Content /\ net[d].linked \in BOOLEAN
         /\ main[d] \in MainState /\ sessions[d] \in 0 .. MaxConnections
         /\ events[d] \in Seq(Event) /\ notices[d] \in Seq(Event)
         /\ tasks[d] \in Seq(Task) /\ dir[d] \in [File -> Content]
         /\ known[d] \in [File -> [Key -> Content \cup {Unknown}]]
BY DEF TypeOK, NetState, Event

LEMMA FirstTask ==
  ASSUME TypeOK, NEW d \in Device, tasks[d] # << >>
  PROVE  /\ Head(tasks[d]).file \in File /\ Head(tasks[d]).from \in Content
         /\ Tail(tasks[d]) \in Seq(Task)
<1>1. tasks[d] \in Seq(Task)
  BY OfDevice
<1>2. Head(tasks[d]) \in Task /\ Tail(tasks[d]) \in Seq(Task)
  BY <1>1
<1>. QED
  BY <1>2 DEF Task

LEMMA FirstEvent ==
  ASSUME TypeOK, NEW d \in Device, events[d] # << >>
  PROVE  Head(events[d]) \in Event /\ Tail(events[d]) \in Seq(Event)
<1>1. events[d] \in Seq(Event)
  BY OfDevice
<1>. QED
  BY <1>1

LEMMA FirstNotice ==
  ASSUME TypeOK, NEW d \in Device, notices[d] # << >>
  PROVE  Head(notices[d]).file \in File /\ Tail(notices[d]) \in Seq(Event)
<1>1. notices[d] \in Seq(Event)
  BY OfDevice
<1>2. Head(notices[d]) \in Event /\ Tail(notices[d]) \in Seq(Event)
  BY <1>1
<1>. QED
  BY <1>2 DEF Event

LEMMA PushTyped ==
  ASSUME TypeOK, NEW d \in Device, NEW f \in File, NEW from \in Content,
         NEW type \in {"list", "fetch", "upload", "download", "delete"},
         Push(d, type, f, from)
  PROVE  tasks' \in [Device -> Seq(Task)]
<1>1. [type |-> type, file |-> f, from |-> from] \in Task
  BY DEF Task
<1>2. Append(tasks[d], [type |-> type, file |-> f, from |-> from]) \in Seq(Task)
  BY <1>1, OfDevice
<1>. QED
  BY <1>2 DEF Push, TypeOK

LEMMA TakesTyped ==
  ASSUME TypeOK, NEW d \in Device, NEW type, Takes(d, type)
  PROVE  tasks' \in [Device -> Seq(Task)]
BY FirstTask DEF Takes, TypeOK

LEMMA PutTyped ==
  ASSUME TypeOK, NEW d \in Device, NEW f \in File, NEW c \in Content, Put(d, f, c)
  PROVE  /\ dir' \in [Device -> [File -> Content]]
         /\ notices' \in [Device -> Seq(Event)]
<1>. DEFINE e == [type |-> IF c = Absent THEN "deleted" ELSE "modified", file |-> f]
<1>1. e \in Event
  BY DEF Event
<1>2. Append(notices[d], e) \in Seq(Event)
  BY <1>1, OfDevice
<1>3. notices' = notices \/ notices' = [notices EXCEPT ![d] = Append(@, e)]
  BY DEF Put
<1>. HIDE DEF e
<1>4. notices' \in [Device -> Seq(Event)]
  BY <1>2, <1>3 DEF TypeOK
<1>5. dir' \in [Device -> [File -> Content]]
  BY OfDevice DEF Put, TypeOK
<1>. QED
  BY <1>4, <1>5

LEMMA GotoTyped ==
  ASSUME TypeOK, NEW d \in Device,
         NEW pc \in {"off", "connect", "task", "update", "open", "write",
                     "broadcast", "measure", "read", "hung", "apply", "drop"},
         net' = [net EXCEPT ![d].pc = pc]
  PROVE  net' \in [Device -> NetState]
<1>. DEFINE n == [net[d] EXCEPT !.pc = pc]
<1>1. n \in NetState
  BY OfDevice DEF NetState
<1>2. net' = [net EXCEPT ![d] = n]
  OBVIOUS
<1>. HIDE DEF n
<1>. QED
  BY <1>1, <1>2 DEF TypeOK

LEMMA MainGoesTyped ==
  ASSUME TypeOK, NEW d \in Device,
         NEW pc \in {"clean", "list", "run", "listing", "ended"},
         main' = [main EXCEPT ![d].pc = pc]
  PROVE  main' \in [Device -> MainState]
<1>. DEFINE m == [main[d] EXCEPT !.pc = pc]
<1>1. m \in MainState
  BY OfDevice DEF MainState
<1>2. main' = [main EXCEPT ![d] = m]
  OBVIOUS
<1>. HIDE DEF m
<1>. QED
  BY <1>1, <1>2 DEF TypeOK

LEMMA EndTyped ==
  ASSUME TypeOK, NEW d \in Device, End(d)
  PROVE  main' \in [Device -> MainState]
BY MainGoesTyped DEF End

\* dir_hash gets another entry.
LEMMA KnownTyped ==
  ASSUME TypeOK, NEW d \in Device, NEW f \in File, NEW k \in Key,
         NEW c \in Content \cup {Unknown},
         known' = [known EXCEPT ![d][f][k] = c]
  PROVE  known' \in [Device -> [File -> [Key -> Content \cup {Unknown}]]]
<1>. DEFINE entry == [known[d][f] EXCEPT ![k] = c]
            table == [known[d] EXCEPT ![f] = entry]
<1>1. entry \in [Key -> Content \cup {Unknown}]
  BY OfDevice
<1>2. known' = [known EXCEPT ![d] = table]
  OBVIOUS
<1>. HIDE DEF entry
<1>3. table \in [File -> [Key -> Content \cup {Unknown}]]
  BY <1>1, OfDevice
<1>. HIDE DEF table
<1>. QED
  BY <1>2, <1>3 DEF TypeOK

LEMMA Constants ==
  /\ Absent \in Content /\ Empty \in Content /\ Garbage \in Content
  /\ \A n \in 0 .. MaxCommands + 1 : n \in Content
BY FileSyncAssumption DEF Content, Absent, Empty, Garbage

LEMMA TypedInitially == Init => TypeOK
<1>. SUFFICES ASSUME Init PROVE TypeOK
  OBVIOUS
<1>. USE DEF Init
<1>1. scene \in Scene
  BY FileSyncAssumption
<1>2. scene.initial \in [File -> Content] /\ (CHOOSE f \in File : TRUE) \in File
  BY <1>1, FileSyncAssumption DEF Scene
<1>3. dir \in [Device -> [File -> Content]]
  BY <1>2, Constants
<1>4. main \in [Device -> MainState]
  BY DEF MainState
<1>5. net \in [Device -> NetState]
  BY <1>2, Constants DEF NetState, Event
<1>6. /\ events \in [Device -> Seq(Event)] /\ notices \in [Device -> Seq(Event)]
      /\ tasks \in [Device -> Seq(Task)]
  OBVIOUS
<1>7. known \in [Device -> [File -> [Key -> Content \cup {Unknown}]]]
  OBVIOUS
<1>. QED
  BY <1>2, <1>3, <1>4, <1>5, <1>6, <1>7, FileSyncAssumption DEF TypeOK

-----------------------------------------------------------------------------
(* Every step keeps the types *)

\* The steps of the threads of the client before they reach the network.
LEMMA ConnectingTyped ==
  ASSUME TypeOK, NEW d \in Device,
         Start(d) \/ Connect(d) \/ SessionEnds(d) \/ Clean(d) \/ Fetch(d) \/ Watch(d)
  PROVE  TypeOK'
<1>. USE DEF server, device, user
<1>1. CASE Start(d)
  <2>1. main' \in [Device -> MainState]
    BY <1>1, MainGoesTyped DEF Start
  <2>2. net' \in [Device -> NetState]
    BY <1>1, GotoTyped DEF Start
  <2>. QED
    BY <1>1, <2>1, <2>2 DEF Start, TypeOK
<1>2. CASE Connect(d)
  <2>1. CASE Cardinality(Clients) < MaxConnections
    <3>. DEFINE n == [net[d] EXCEPT !.pc = "task", !.buf = Garbage, !.leaving = FALSE]
    <3>1. sessions[d] + 1 \in 0 .. MaxConnections
      <4>1. sessions[d] < MaxConnections
        BY <2>1, OwnClients DEF TypeOK
      <4>2. sessions[d] \in 0 .. MaxConnections /\ MaxConnections \in Nat
        BY OfDevice, FileSyncAssumption
      <4>. QED
        BY <4>1, <4>2
    <3>2. n \in NetState
      BY OfDevice, Constants DEF NetState
    <3>3. net' = [net EXCEPT ![d] = n] /\ sessions' = [sessions EXCEPT ![d] = @ + 1]
      BY <1>2, <2>1 DEF Connect
    <3>. HIDE DEF n
    <3>4. net' \in [Device -> NetState] /\ sessions' \in [Device -> 0 .. MaxConnections]
      BY <3>1, <3>2, <3>3 DEF TypeOK
    <3>5. events' \in [Device -> Seq(Event)]
      <4>1. events' = [events EXCEPT ![d] = << >>] /\ << >> \in Seq(Event)
        BY <1>2, <2>1 DEF Connect
      <4>. QED
        BY <4>1 DEF TypeOK
    <3>. QED
      BY <1>2, <2>1, <3>4, <3>5 DEF Connect, TypeOK
  <2>2. CASE ~(Cardinality(Clients) < MaxConnections)
    <3>1. main' \in [Device -> MainState]
      BY <1>2, <2>2, EndTyped DEF Connect
    <3>. QED
      BY <1>2, <2>2, <3>1 DEF Connect, TypeOK
  <2>. QED
    BY <2>1, <2>2
<1>3. CASE SessionEnds(d)
  <2>1. sessions[d] - 1 \in 0 .. MaxConnections
    BY <1>3, OfDevice, FileSyncAssumption DEF SessionEnds
  <2>2. sessions' \in [Device -> 0 .. MaxConnections]
    BY <1>3, <2>1 DEF SessionEnds, TypeOK
  <2>. QED
    BY <1>3, <2>2 DEF SessionEnds, TypeOK
<1>4. CASE Clean(d)
  <2>1. main' \in [Device -> MainState]
    BY <1>4, MainGoesTyped DEF Clean
  <2>3. dir' \in [Device -> [File -> Content]]
    <3>1. [f \in File |-> Absent] \in [File -> Content]
      BY Constants
    <3>. QED
      BY <1>4, <3>1 DEF Clean, TypeOK
  <2>2. tasks' \in [Device -> Seq(Task)]
    BY <1>4, PushTyped, Constants DEF Clean
  <2>. QED
    BY <1>4, <2>1, <2>2, <2>3 DEF Clean, TypeOK
<1>5. CASE Fetch(d)
  <2>1. PICK f \in main[d].todo :
          /\ main' = [main EXCEPT ![d].pc = "fetching", ![d].todo = @ \ {f}]
          /\ Push(d, "fetch", f, Absent)
    BY <1>5 DEF Fetch
  <2>. DEFINE m == [main[d] EXCEPT !.pc = "fetching", !.todo = @ \ {f}]
  <2>4. m \in MainState /\ f \in File
    BY OfDevice DEF MainState
  <2>5. main' = [main EXCEPT ![d] = m]
    BY <2>1
  <2>. HIDE DEF m
  <2>2. main' \in [Device -> MainState] /\ f \in File
    BY <2>4, <2>5 DEF TypeOK
  <2>3. tasks' \in [Device -> Seq(Task)]
    BY <2>1, <2>2, PushTyped, Constants
  <2>. QED
    BY <1>5, <2>2, <2>3 DEF Fetch, TypeOK
<1>6. CASE Watch(d)
  <2>1. main' \in [Device -> MainState]
    BY <1>6, MainGoesTyped DEF Watch
  <2>. QED
    BY <1>6, <2>1 DEF Watch, TypeOK
<1>. QED
  BY <1>1, <1>2, <1>3, <1>4, <1>5, <1>6

LEMMA FetchedTyped ==
  ASSUME NEW m \in MainState
  PROVE  Fetched(m) \in MainState
BY DEF Fetched, MainState

\* The steps of the network thread that take a task.
LEMMA TasksTyped ==
  ASSUME TypeOK, NEW d \in Device,
         ListTask(d) \/ UploadTask(d) \/ DeleteTask(d) \/ DownloadTask(d)
  PROVE  TypeOK'
<1>. USE DEF server, device, user
<1>1. CASE ListTask(d)
  <2>. DEFINE m == [main[d] EXCEPT !.todo = {f \in File : store[f] # Absent}]
              r == [main[d] EXCEPT !.pc = "run"]
              n == IF main[d].pc = "list" THEN Fetched(m) ELSE r
  <2>1. m \in MainState /\ r \in MainState
    BY OfDevice DEF MainState
  <2>2. main' = [main EXCEPT ![d] = n]
    BY <1>1 DEF ListTask
  <2>. HIDE DEF m, r
  <2>3. n \in MainState
    BY <2>1, FetchedTyped
  <2>. HIDE DEF n
  <2>4. main' \in [Device -> MainState]
    BY <2>2, <2>3 DEF TypeOK
  <2>5. net' \in [Device -> NetState] /\ tasks' \in [Device -> Seq(Task)]
    BY <1>1, GotoTyped, TakesTyped DEF ListTask, Goto
  <2>. QED
    BY <1>1, <2>4, <2>5 DEF ListTask, TypeOK
<1>2. CASE UploadTask(d)
  <2>. DEFINE t == Head(tasks[d])
              c == IF t.from = Absent THEN dir[d][t.file] ELSE t.from
              gone == [net[d] EXCEPT !.pc = "update", !.leaving = TRUE]
              sends == [net[d] EXCEPT !.pc = "open", !.sent = c,
                                      !.event = [type |-> "modified", file |-> t.file]]
  <2>1. tasks' \in [Device -> Seq(Task)]
    BY <1>2, TakesTyped DEF UploadTask
  <2>2. t.file \in File /\ t.from \in Content
    BY <1>2, FirstTask DEF UploadTask, Takes
  <2>3. c \in Content
    BY <2>2, OfDevice
  <2>4. net' = [net EXCEPT ![d] = gone] \/ net' = [net EXCEPT ![d] = sends]
    BY <1>2 DEF UploadTask
  <2>. HIDE DEF t, c
  <2>5. gone \in NetState /\ sends \in NetState
    BY <2>2, <2>3, OfDevice DEF NetState, Event
  <2>. HIDE DEF gone, sends
  <2>6. net' \in [Device -> NetState]
    BY <2>4, <2>5 DEF TypeOK
  <2>. QED
    BY <1>2, <2>1, <2>6 DEF UploadTask, TypeOK
<1>3. CASE DeleteTask(d)
  <2>. DEFINE f == Head(tasks[d]).file
              n == [net[d] EXCEPT !.pc = "broadcast",
                                  !.event = [type |-> "deleted", file |-> f]]
              cut(e) == [net[e] EXCEPT !.linked = FALSE]
  <2>1. tasks' \in [Device -> Seq(Task)]
    BY <1>3, TakesTyped DEF DeleteTask
  <2>2. f \in File
    BY <1>3, FirstTask DEF DeleteTask, Takes
  <2>3. store' \in [File -> Content] /\ changes' \in 0 .. MaxChanges
    BY <1>3, <2>2, Constants, FileSyncAssumption DEF DeleteTask, Change, TypeOK
  <2>4. net' \in [Device -> NetState]
    <3>1. CASE store[f] = Absent
      BY <1>3, <3>1, GotoTyped DEF DeleteTask
    <3>2. CASE store[f] # Absent
      <4>1. n \in NetState
        <5>1. [type |-> "deleted", file |-> f] \in Event
          BY <2>2 DEF Event
        <5>. HIDE DEF f
        <5>. QED
          BY <5>1, OfDevice DEF NetState
      <4>3. \A e \in Device : cut(e) \in NetState
        BY OfDevice DEF NetState
      <4>2. net' = [e \in Device |-> IF e = d THEN n
                                     ELSE IF net[e].event.file = f THEN cut(e)
                                     ELSE net[e]]
        BY <1>3, <3>2 DEF DeleteTask
      <4>. HIDE DEF f, n, cut
      <4>. QED
        BY <4>1, <4>2, <4>3 DEF TypeOK
    <3>. QED
      BY <3>1, <3>2
  <2>. QED
    BY <1>3, <2>1, <2>3, <2>4 DEF DeleteTask, TypeOK
<1>4. CASE DownloadTask(d)
  <2>1. PICK for \in {"fetch", "download"} :
          /\ Takes(d, for)
          /\ net' = [net EXCEPT ![d].pc = "measure", ![d].for = for,
                      ![d].event = [type |-> "modified",
                                    file |-> Head(tasks[d]).file]]
          /\ UNCHANGED <<server, dir, known, notices, main, user, changes>>
    BY <1>4 DEF DownloadTask
  <2>. DEFINE f == Head(tasks[d]).file
              n == [net[d] EXCEPT !.pc = "measure", !.for = for,
                                  !.event = [type |-> "modified", file |-> f]]
  <2>2. f \in File
    BY <2>1, FirstTask DEF Takes
  <2>3. net' = [net EXCEPT ![d] = n]
    BY <2>1
  <2>. HIDE DEF f
  <2>4. n \in NetState
    BY <2>2, OfDevice DEF NetState, Event
  <2>. HIDE DEF n
  <2>5. net' \in [Device -> NetState]
    BY <2>3, <2>4 DEF TypeOK
  <2>6. tasks' \in [Device -> Seq(Task)]
    BY <2>1, TakesTyped
  <2>. QED
    BY <2>1, <2>5, <2>6 DEF TypeOK
<1>. QED
  BY <1>1, <1>2, <1>3, <1>4

\* The steps of the network thread that take an event.
LEMMA EventsTyped ==
  ASSUME TypeOK, NEW d \in Device,
         NextEvent(d) \/ NoEvent(d) \/ Apply(d) \/ Drop(d)
  PROVE  TypeOK'
<1>. USE DEF server, device, user
<1>0. Loop(net[d]) \in NetState
  BY OfDevice DEF Loop, NetState
<1>1. CASE NextEvent(d)
  <2>. DEFINE v == Head(events[d])
              n == [net[d] EXCEPT !.event = v, !.for = "event",
                      !.pc = IF v.type = "modified" THEN "measure" ELSE "drop"]
  <2>1. v \in Event /\ Tail(events[d]) \in Seq(Event)
    BY <1>1, FirstEvent DEF NextEvent
  <2>2. events' \in [Device -> Seq(Event)]
    BY <1>1, <2>1 DEF NextEvent, TypeOK
  <2>3. net' = [net EXCEPT ![d] = n]
    BY <1>1 DEF NextEvent
  <2>. HIDE DEF v
  <2>4. n \in NetState
    BY <2>1, OfDevice DEF NetState
  <2>. HIDE DEF n
  <2>5. net' \in [Device -> NetState]
    BY <2>3, <2>4 DEF TypeOK
  <2>. QED
    BY <1>1, <2>2, <2>5 DEF NextEvent, TypeOK
<1>2. CASE NoEvent(d)
  <2>1. net' \in [Device -> NetState]
    BY <1>0, <1>2 DEF NoEvent, TypeOK
  <2>. QED
    BY <1>2, <2>1 DEF NoEvent, TypeOK
<1>3. CASE Apply(d)
  <2>. DEFINE f == net[d].event.file
              c == net[d].buf
  <2>1. f \in File /\ c \in Content
    BY OfDevice
  <2>2. net' \in [Device -> NetState]
    BY <1>0, <1>3 DEF Apply, TypeOK
  <2>3. main' \in [Device -> MainState]
    BY <1>3, EndTyped DEF Apply, TypeOK
  <2>4. \/ known' = [known EXCEPT ![d][f]["network"] = c] /\ Put(d, f, c)
        \/ UNCHANGED <<known, dir, notices>>
    BY <1>3 DEF Apply
  <2>. HIDE DEF f, c
  <2>5. /\ known' \in [Device -> [File -> [Key -> Content \cup {Unknown}]]]
        /\ dir' \in [Device -> [File -> Content]] /\ notices' \in [Device -> Seq(Event)]
    BY <2>1, <2>4, KnownTyped, PutTyped DEF TypeOK, Key
  <2>. QED
    BY <1>3, <2>2, <2>3, <2>5 DEF Apply, TypeOK
<1>4. CASE Drop(d)
  <2>. DEFINE f == net[d].event.file
  <2>1. f \in File
    BY OfDevice
  <2>2. net' \in [Device -> NetState]
    BY <1>0, <1>4 DEF Drop, TypeOK
  <2>4. \/ known' = [known EXCEPT ![d][f]["network"] = Unknown] /\ Put(d, f, Absent)
        \/ UNCHANGED <<known, dir, notices>>
    BY <1>4 DEF Drop
  <2>. HIDE DEF f
  <2>5. /\ known' \in [Device -> [File -> [Key -> Content \cup {Unknown}]]]
        /\ dir' \in [Device -> [File -> Content]] /\ notices' \in [Device -> Seq(Event)]
    BY <2>1, <2>4, KnownTyped, PutTyped, Constants DEF TypeOK, Key
  <2>. QED
    BY <1>4, <2>2, <2>5 DEF Drop, TypeOK
<1>. QED
  BY <1>1, <1>2, <1>3, <1>4

\* The steps of a session that stores a file.
LEMMA StoresTyped ==
  ASSUME TypeOK, NEW d \in Device, Open(d) \/ Write(d) \/ Broadcast(d)
  PROVE  TypeOK'
<1>. USE DEF server, device, user
<1>0. net[d].event.file \in File /\ net[d].sent \in Content /\ net[d].event \in Event
  BY OfDevice
<1>1. CASE Open(d)
  <2>. DEFINE n == [net[d] EXCEPT !.pc = "write", !.linked = TRUE]
  <2>1. n \in NetState
    BY OfDevice DEF NetState
  <2>2. net' = [net EXCEPT ![d] = n]
    BY <1>1 DEF Open
  <2>. HIDE DEF n
  <2>3. net' \in [Device -> NetState]
    BY <2>1, <2>2 DEF TypeOK
  <2>4. store' \in [File -> Content] /\ changes' \in 0 .. MaxChanges
    BY <1>1, <1>0, Constants, FileSyncAssumption DEF Open, Change, TypeOK
  <2>. QED
    BY <1>1, <2>3, <2>4 DEF Open, TypeOK
<1>2. CASE Write(d)
  <2>1. net' \in [Device -> NetState] /\ store' \in [File -> Content]
    BY <1>0, <1>2, GotoTyped DEF Write, Goto, TypeOK
  <2>. QED
    BY <1>2, <2>1 DEF Write, TypeOK
<1>3. CASE Broadcast(d)
  <2>1. net' \in [Device -> NetState]
    BY <1>3, GotoTyped DEF Broadcast, Goto
  <2>2. \A e \in Device : Append(events[e], net[d].event) \in Seq(Event)
    BY <1>0, OfDevice
  <2>3. events' \in [Device -> Seq(Event)]
    BY <1>3, <2>2, OfDevice DEF Broadcast
  <2>. QED
    BY <1>3, <2>1, <2>3 DEF Broadcast, TypeOK
<1>. QED
  BY <1>1, <1>2, <1>3

LEMMA MainFetched ==
  ASSUME TypeOK, NEW d \in Device, main' = [main EXCEPT ![d] = Fetched(@)]
  PROVE  main' \in [Device -> MainState]
<1>1. Fetched(main[d]) \in MainState
  BY OfDevice, FetchedTyped
<1>. QED
  BY <1>1 DEF TypeOK

\* The steps of a session that sends a file.
LEMMA SendsTyped ==
  ASSUME TypeOK, NEW d \in Device,
         NoFile(d) \/ Measure(d) \/ Read(d) \/ ReadForever(d)
  PROVE  TypeOK'
<1>. USE DEF server, device, user
<1>0. /\ net[d].event.file \in File /\ net[d].seen \in Content
      /\ store[net[d].event.file] \in Content
  BY OfDevice DEF TypeOK
<1>1. CASE NoFile(d)
  <2>1. net' \in [Device -> NetState]
    BY <1>1, GotoTyped DEF NoFile, Goto
  <2>2. main' \in [Device -> MainState]
    BY <1>1, MainFetched DEF NoFile, TypeOK
  <2>. QED
    BY <1>1, <2>1, <2>2 DEF NoFile, TypeOK
<1>2. CASE Measure(d)
  <2>. DEFINE c == store[net[d].event.file]
              n == [net[d] EXCEPT !.pc = "read", !.seen = c, !.linked = TRUE]
  <2>1. net' = [net EXCEPT ![d] = n]
    BY <1>2 DEF Measure
  <2>2. c \in Content
    BY <1>0
  <2>. HIDE DEF c
  <2>3. n \in NetState
    BY <2>2, OfDevice DEF NetState
  <2>. HIDE DEF n
  <2>4. net' \in [Device -> NetState]
    BY <2>1, <2>3 DEF TypeOK
  <2>. QED
    BY <1>2, <2>4 DEF Measure, TypeOK
<1>3. CASE Read(d)
  <2>. DEFINE f == net[d].event.file
              c == IF net[d].seen = Empty THEN Empty ELSE Contents(d)
              pc == IF net[d].for = "event" THEN "apply" ELSE "update"
              n == [net[d] EXCEPT !.buf = c, !.pc = pc]
  <2>1. net' = [net EXCEPT ![d] = n]
    BY <1>3 DEF Read
  <2>2. c \in Content /\ f \in File
    BY <1>0, Constants DEF Contents
  <2>3. \/ UNCHANGED <<dir, notices, main>>
        \/ Put(d, f, c) /\ main' = [main EXCEPT ![d] = Fetched(@)]
    BY <1>3 DEF Read
  <2>. HIDE DEF c, f
  <2>4. n \in NetState
    BY <2>2, OfDevice DEF NetState
  <2>. HIDE DEF n
  <2>5. net' \in [Device -> NetState]
    BY <2>1, <2>4 DEF TypeOK
  <2>6. /\ dir' \in [Device -> [File -> Content]] /\ notices' \in [Device -> Seq(Event)]
        /\ main' \in [Device -> MainState]
    BY <2>2, <2>3, PutTyped, MainFetched DEF TypeOK
  <2>. QED
    BY <1>3, <2>5, <2>6 DEF Read, TypeOK
<1>4. CASE ReadForever(d)
  <2>1. net' \in [Device -> NetState]
    BY <1>4, GotoTyped DEF ReadForever, Goto
  <2>. QED
    BY <1>4, <2>1 DEF ReadForever, TypeOK
<1>. QED
  BY <1>1, <1>2, <1>3, <1>4

\* The steps of the notify thread.
LEMMA NoticesTyped ==
  ASSUME TypeOK, NEW d \in Device, NotifyModified(d) \/ NotifyDeleted(d)
  PROVE  TypeOK'
<1>. USE DEF server, device, user
<1>. DEFINE f == Head(notices[d]).file
            Learns(c, type) ==
              /\ known' = [known EXCEPT ![d][f]["inotify"] = c]
              /\ Push(d, type, f, Absent)
<1>1. f \in File /\ Tail(notices[d]) \in Seq(Event)
  BY FirstNotice DEF NotifyModified, NotifyDeleted, Noticed
<1>2. notices' \in [Device -> Seq(Event)]
  BY <1>1 DEF NotifyModified, NotifyDeleted, Noticed, TypeOK
<1>3. \/ UNCHANGED <<known, tasks>>
      \/ Learns(dir[d][f], "upload") \/ Learns(Unknown, "delete")
  BY DEF NotifyModified, NotifyDeleted
<1>. HIDE DEF f
<1>4. dir[d][f] \in Content
  BY <1>1, OfDevice
<1>5. known' \in [Device -> [File -> [Key -> Content \cup {Unknown}]]]
  BY <1>1, <1>3, <1>4, KnownTyped DEF TypeOK, Key
<1>6. tasks' \in [Device -> Seq(Task)]
  BY <1>1, <1>3, PushTyped, Constants DEF TypeOK
<1>. QED
  BY <1>2, <1>5, <1>6 DEF NotifyModified, NotifyDeleted, TypeOK

\* What users do.
LEMMA CommandTyped ==
  ASSUME TypeOK, NEW d \in Device, NEW name, Command(d, name)
  PROVE  /\ commands' \in 0 .. MaxCommands /\ scene' \in Scenes
         /\ New \in Content /\ scene \in Scene
<1>1. scene \in Scene
  BY FileSyncAssumption DEF TypeOK
<1>2. scene.times \in 0 .. MaxCommands
  BY <1>1 DEF Scene
<1>. QED
  BY <1>1, <1>2, Constants, FileSyncAssumption DEF TypeOK, Command, New

LEMMA UserTyped ==
  ASSUME TypeOK, NEW d \in Device, UserActs(d)
  PROVE  TypeOK'
<1>. USE DEF server, device
<1>1. CASE Start(d)
  BY <1>1, ConnectingTyped
<1>2. CASE CliExit(d)
  BY <1>2, CommandTyped, EndTyped DEF CliExit, TypeOK
<1>3. ASSUME NEW f \in scene.files,
             \/ Save(d, f) \/ RemoveFile(d, f) \/ CliUpload(d, f)
             \/ CliDownload(d, f) \/ CliDelete(d, f) \/ ListServer(d, f)
      PROVE  TypeOK'
  <2>0. f \in File
    BY <1>3, FileSyncAssumption DEF TypeOK, Scene
  <2>1. CASE Save(d, f)
    <3>1. /\ commands' \in 0 .. MaxCommands /\ scene' \in Scenes /\ New \in Content
      BY <2>1, CommandTyped DEF Save
    <3>2. /\ dir' \in [Device -> [File -> Content]] /\ notices' \in [Device -> Seq(Event)]
      BY <2>0, <2>1, <3>1, PutTyped DEF Save
    <3>3. latest' \in [File -> Content]
      BY <2>1, <3>1 DEF Save, TypeOK
    <3>. QED
      BY <2>1, <3>1, <3>2, <3>3 DEF Save, TypeOK
  <2>2. CASE RemoveFile(d, f)
    <3>1. /\ commands' \in 0 .. MaxCommands /\ scene' \in Scenes
      BY <2>2, CommandTyped DEF RemoveFile
    <3>2. /\ dir' \in [Device -> [File -> Content]] /\ notices' \in [Device -> Seq(Event)]
      BY <2>0, <2>2, Constants, PutTyped DEF RemoveFile
    <3>3. latest' \in [File -> Content]
      BY <2>2, Constants DEF RemoveFile, TypeOK
    <3>. QED
      BY <2>2, <3>1, <3>2, <3>3 DEF RemoveFile, TypeOK
  <2>3. CASE CliUpload(d, f)
    <3>1. /\ commands' \in 0 .. MaxCommands /\ scene' \in Scenes /\ New \in Content
      BY <2>3, CommandTyped DEF CliUpload
    <3>2. tasks' \in [Device -> Seq(Task)]
      BY <2>0, <2>3, <3>1, PushTyped DEF CliUpload
    <3>3. latest' \in [File -> Content]
      BY <2>3, <3>1 DEF CliUpload, TypeOK
    <3>. QED
      BY <2>3, <3>1, <3>2, <3>3 DEF CliUpload, TypeOK
  <2>4. CASE CliDownload(d, f)
    <3>1. /\ commands' \in 0 .. MaxCommands /\ scene' \in Scenes
      BY <2>4, CommandTyped DEF CliDownload
    <3>2. tasks' \in [Device -> Seq(Task)]
      BY <2>0, <2>4, Constants, PushTyped DEF CliDownload
    <3>. QED
      BY <2>4, <3>1, <3>2 DEF CliDownload, TypeOK
  <2>5. CASE CliDelete(d, f)
    <3>1. /\ commands' \in 0 .. MaxCommands /\ scene' \in Scenes
      BY <2>5, CommandTyped DEF CliDelete
    <3>2. tasks' \in [Device -> Seq(Task)]
      BY <2>0, <2>5, Constants, PushTyped DEF CliDelete
    <3>3. latest' \in [File -> Content]
      BY <2>5, Constants DEF CliDelete, TypeOK
    <3>. QED
      BY <2>5, <3>1, <3>2, <3>3 DEF CliDelete, TypeOK
  <2>6. CASE ListServer(d, f)
    <3>1. /\ commands' \in 0 .. MaxCommands /\ scene' \in Scenes
      BY <2>6, CommandTyped DEF ListServer
    <3>2. tasks' \in [Device -> Seq(Task)]
      BY <2>0, <2>6, Constants, PushTyped DEF ListServer
    <3>5. main' \in [Device -> MainState]
      BY <2>6, MainGoesTyped DEF ListServer
    <3>. QED
      BY <2>6, <3>1, <3>2, <3>5 DEF ListServer, TypeOK
  <2>. QED
    BY <1>3, <2>1, <2>2, <2>3, <2>4, <2>5, <2>6
<1>. QED
  BY <1>1, <1>2, <1>3 DEF UserActs

LEMMA NextTyped == TypeOK /\ [Next]_vars => TypeOK'
<1>. SUFFICES ASSUME TypeOK, [Next]_vars PROVE TypeOK'
  OBVIOUS
<1>1. CASE UNCHANGED vars
  BY <1>1 DEF vars, server, device, user, TypeOK
<1>2. ASSUME NEW d \in Device,
             \/ MainThread(d) \/ NetworkThread(d) \/ SessionThread(d)
             \/ NotifyThread(d) \/ UserActs(d)
      PROVE  TypeOK'
  BY <1>2, ConnectingTyped, TasksTyped, EventsTyped, StoresTyped, SendsTyped,
     NoticesTyped, UserTyped
     DEF MainThread, NetworkThread, SessionThread, NotifyThread
<1>. QED
  BY <1>1, <1>2 DEF Next

\* The prompt, the inotify queue, the task queue, the network thread and the
\* sessions of the primary keep their types, and a user never has more
\* sessions than MAX_ACTIVE_CONNECTIONS, however many devices connect or lose
\* their connection (client.cpp:53-90 of the server, network.cpp, app.cpp).
THEOREM FilesTyped == Spec => []TypeOK
<1>1. Init => TypeOK
  BY TypedInitially
<1>2. TypeOK /\ [Next]_vars => TypeOK'
  BY NextTyped
<1>. QED
  BY <1>1, <1>2, PTL DEF Spec

-----------------------------------------------------------------------------
(* No change is lost: the inductive invariant *)

Queued(d, f) == \E i \in 1 .. Len(events[d]) : events[d][i].file = f

\* NetworkViewFresh, for a device that is not yet at its prompt too.
HeardOf(d) ==
  \A f \in File :
    Runs(d) /\ sessions[d] = 1 /\ store[f] # Absent
      => \/ known[d][f]["network"] \in {store[f], Unknown}
         \/ Learning(d, f) \/ Changing(f)

\* A version that is being sent after an event is the one the server has, or
\* there is more to hear of the file.
SendsLatest(d) ==
  LET f == net[d].event.file IN
  Runs(d) /\ net[d].pc = "read" /\ net[d].for = "event"
    => \/ net[d].linked /\ store[f] = net[d].seen
       \/ Changing(f) \/ Queued(d, f)

AppliesLatest(d) ==
  LET f == net[d].event.file IN
  Runs(d) /\ net[d].pc = "apply"
    => store[f] \in {Absent, net[d].buf} \/ Changing(f) \/ Queued(d, f)

\* A device without a session has heard of nothing and is about to connect.
Connected(d) ==
  /\ main[d].pc = "off" => net[d].pc = "off" /\ sessions[d] = 0
  /\ net[d].pc = "off" => main[d].pc = "off"
  /\ Runs(d) /\ sessions[d] = 0 => net[d].pc = "connect"
  /\ main[d].pc = "off" \/ (Runs(d) /\ sessions[d] = 0)
       => \A f \in File : known[d][f]["network"] = Unknown

ViewOf(d) == HeardOf(d) /\ SendsLatest(d) /\ AppliesLatest(d) /\ Connected(d)

ViewsFresh == \A d \in Device : ViewOf(d)

-----------------------------------------------------------------------------
(* What a step does to the devices that do not take it *)

Grows(d) == events'[d] = events[d] \/ \E v \in Event : events'[d] = Append(events[d], v)

\* A change of a file is under way or in every queue until it is heard of.
Announced ==
  \A f \in File :
    /\ store'[f] # store[f] => Changing(f)'
    /\ Changing(f)
         => Changing(f)' \/ \A d \in Device : sessions[d] > 0 => Queued(d, f)'

Untouched(d) ==
  /\ main'[d].pc = "off" <=> main[d].pc = "off"
  /\ Runs(d)' <=> Runs(d)
  /\ sessions'[d] = sessions[d]
  /\ Grows(d)
  /\ \A f \in File : known'[d][f]["network"] = known[d][f]["network"]
  /\ net'[d].pc = net[d].pc /\ net'[d].for = net[d].for
  /\ net'[d].event = net[d].event /\ net'[d].seen = net[d].seen
  /\ net'[d].buf = net[d].buf
  /\ net'[d].linked = net[d].linked \/ Changing(net[d].event.file)'

LEMMA StaysQueued ==
  ASSUME TypeOK, NEW d \in Device, Grows(d), NEW f \in File, Queued(d, f)
  PROVE  Queued(d, f)'
<1>1. PICK i \in 1 .. Len(events[d]) : events[d][i].file = f
  BY DEF Queued
<1>2. events[d] \in Seq(Event)
  BY OfDevice
<1>3. ASSUME NEW v \in Event, events'[d] = Append(events[d], v)
      PROVE  i \in 1 .. Len(events'[d]) /\ events'[d][i] = events[d][i]
  BY <1>2, <1>3
<1>. QED
  BY <1>1, <1>3 DEF Grows, Queued

LEMMA UntouchedView ==
  ASSUME TypeOK, Announced, NEW d \in Device, ViewOf(d), Untouched(d)
  PROVE  ViewOf(d)'
<1>. SUFFICES ASSUME NEW g \in File, g = net[d].event.file PROVE ViewOf(d)'
  BY OfDevice
<1>0. sessions[d] \in Nat
  BY OfDevice, FileSyncAssumption
<1>1. \A f \in File : Queued(d, f) => Queued(d, f)'
  BY StaysQueued DEF Untouched
<1>2. \A f \in File : Changing(f) => Changing(f)' \/ (sessions[d] > 0 => Queued(d, f)')
  BY DEF Announced
<1>3. HeardOf(d)'
  <2>. SUFFICES ASSUME NEW f \in File, Runs(d)', sessions'[d] = 1, store'[f] # Absent,
                       ~Changing(f)', ~Learning(d, f)'
                PROVE  known'[d][f]["network"] \in {store'[f], Unknown}
    BY DEF HeardOf
  <2>1. store'[f] = store[f]
    BY DEF Announced
  <2>2. Runs(d) /\ sessions[d] = 1
    BY DEF Untouched
  <2>3. ~Queued(d, f)'
    BY DEF Queued, Learning
  <2>4. ~Changing(f) /\ ~Queued(d, f)
    BY <1>1, <1>2, <2>2, <2>3
  <2>5. ~Learning(d, f)
    BY <2>1, <2>4 DEF Learning, Queued, Untouched
  <2>. QED
    BY <2>1, <2>2, <2>4, <2>5 DEF ViewOf, HeardOf, Untouched
<1>4. SendsLatest(d)'
  <2>. SUFFICES ASSUME Runs(d)', net'[d].pc = "read", net'[d].for = "event",
                       ~Changing(g)', ~Queued(d, g)'
                PROVE  net'[d].linked /\ store'[g] = net'[d].seen
    BY DEF SendsLatest, Untouched
  <2>1. Runs(d) /\ net[d].pc = "read" /\ net[d].for = "event" /\ sessions[d] > 0
    BY <1>0 DEF Untouched, ViewOf, Connected
  <2>2. ~Changing(g) /\ ~Queued(d, g) /\ store'[g] = store[g]
    BY <1>0, <1>1, <1>2, <2>1 DEF Announced
  <2>. QED
    BY <2>1, <2>2 DEF ViewOf, SendsLatest, Untouched
<1>5. AppliesLatest(d)'
  <2>. SUFFICES ASSUME Runs(d)', net'[d].pc = "apply", ~Changing(g)', ~Queued(d, g)'
                PROVE  store'[g] \in {Absent, net'[d].buf}
    BY DEF AppliesLatest, Untouched
  <2>1. Runs(d) /\ net[d].pc = "apply" /\ sessions[d] > 0
    BY <1>0 DEF Untouched, ViewOf, Connected
  <2>2. ~Changing(g) /\ ~Queued(d, g) /\ store'[g] = store[g]
    BY <1>0, <1>1, <1>2, <2>1 DEF Announced
  <2>. QED
    BY <2>1, <2>2 DEF ViewOf, AppliesLatest, Untouched
<1>6. Connected(d)'
  BY DEF ViewOf, Connected, Untouched
<1>. QED
  BY <1>3, <1>4, <1>5, <1>6 DEF ViewOf

\* A device whose main thread has ended is told nothing more.
LEMMA EndedView ==
  ASSUME NEW d \in Device, main'[d].pc = "ended", net'[d].pc # "off"
  PROVE  ViewOf(d)'
BY DEF ViewOf, HeardOf, SendsLatest, AppliesLatest, Connected, Runs

\* The network thread goes on, without hearing of anything.
Moves(d) ==
  /\ Runs(d)' <=> Runs(d)
  /\ main'[d].pc # "off"
  /\ sessions'[d] = sessions[d]
  /\ Grows(d)
  /\ \A f \in File : known'[d][f]["network"] = known[d][f]["network"]
  /\ net[d].pc \in {"task", "update", "open", "write", "broadcast"}
  /\ net'[d].pc \notin {"off", "read", "apply"}

LEMMA MovesView ==
  ASSUME TypeOK, Announced, NEW d \in Device, ViewOf(d), Moves(d)
  PROVE  ViewOf(d)'
<1>0. sessions[d] \in Nat
  BY OfDevice, FileSyncAssumption
<1>1. HeardOf(d)'
  <2>. SUFFICES ASSUME NEW f \in File, Runs(d)', sessions'[d] = 1, store'[f] # Absent,
                       ~Changing(f)', ~Learning(d, f)'
                PROVE  known'[d][f]["network"] \in {store'[f], Unknown}
    BY DEF HeardOf
  <2>1. store'[f] = store[f]
    BY DEF Announced
  <2>2. Runs(d) /\ sessions[d] = 1
    BY DEF Moves
  <2>3. ~Queued(d, f)'
    BY DEF Queued, Learning
  <2>4. ~Changing(f) /\ ~Queued(d, f)
    BY <2>2, <2>3, StaysQueued DEF Announced, Moves
  <2>5. ~Learning(d, f)
    BY <2>4 DEF Learning, Queued, Moves
  <2>. QED
    BY <2>1, <2>2, <2>4, <2>5 DEF ViewOf, HeardOf, Moves
<1>2. SendsLatest(d)' /\ AppliesLatest(d)'
  BY DEF SendsLatest, AppliesLatest, Moves
<1>3. Connected(d)'
  BY DEF ViewOf, Connected, Moves
<1>. QED
  BY <1>1, <1>2, <1>3 DEF ViewOf

\* Only d changes, and not a file that is being changed.
Alone(d) ==
  /\ store' = store
  /\ \A e \in Device \ {d} :
       /\ main'[e] = main[e] /\ known'[e] = known[e] /\ sessions'[e] = sessions[e]
       /\ events'[e] = events[e] /\ net'[e] = net[e]
  /\ net'[d] = net[d] \/ net[d].pc \notin {"open", "write", "broadcast"}

LEMMA AloneStep ==
  ASSUME NEW d \in Device, Alone(d)
  PROVE  Announced /\ \A e \in Device \ {d} : Untouched(e)
<1>1. \A f \in File : Changing(f) => Changing(f)'
  BY DEF Alone, Changing
<1>2. Announced
  BY <1>1 DEF Announced, Alone
<1>3. \A e \in Device \ {d} : Untouched(e)
  BY DEF Alone, Untouched, Grows, Runs
<1>. QED
  BY <1>2, <1>3

LEMMA OpenApart ==
  ASSUME TypeOK, NEW d \in Device, Open(d)
  PROVE  Announced /\ \A e \in Device \ {d} : Untouched(e)
<1>. USE DEF server, device, user
<1>1. /\ net'[d].pc = "write" /\ net'[d].event = net[d].event
      /\ \A e \in Device \ {d} : net'[e] = net[e]
  BY DEF Open, TypeOK
<1>2. \A f \in File : Changing(f) => Changing(f)'
  BY <1>1 DEF Changing
<1>3. \A f \in File : store'[f] # store[f] => Changing(f)'
  BY <1>1 DEF Open, Changing, TypeOK
<1>4. \A e \in Device \ {d} : Untouched(e)
  BY <1>1 DEF Open, Untouched, Grows, Runs
<1>. QED
  BY <1>2, <1>3, <1>4 DEF Announced

LEMMA WriteApart ==
  ASSUME TypeOK, NEW d \in Device, Write(d)
  PROVE  Announced /\ \A e \in Device \ {d} : Untouched(e)
<1>. USE DEF server, device, user
<1>1. /\ net'[d].pc = "broadcast" /\ net'[d].event = net[d].event
      /\ \A e \in Device \ {d} : net'[e] = net[e]
  BY DEF Write, Goto, TypeOK
<1>2. \A f \in File : Changing(f) => Changing(f)'
  BY <1>1 DEF Changing
<1>3. \A f \in File : store'[f] # store[f] => Changing(f)'
  BY <1>1 DEF Write, Changing, TypeOK
<1>4. \A e \in Device \ {d} : Untouched(e)
  BY <1>1 DEF Write, Untouched, Grows, Runs
<1>. QED
  BY <1>2, <1>3, <1>4 DEF Announced

\* The event is in the queue of every device that has a session.
LEMMA BroadcastApart ==
  ASSUME TypeOK, NEW d \in Device, Broadcast(d)
  PROVE  Announced /\ \A e \in Device \ {d} : Untouched(e)
<1>. USE DEF server, device, user
<1>. DEFINE v == net[d].event
<1>1. v \in Event
  BY OfDevice
<1>2. \A e \in Device \ {d} : net'[e] = net[e]
  BY DEF Broadcast, Goto, TypeOK
<1>3. ASSUME NEW e \in Device, sessions[e] > 0
      PROVE  Queued(e, net[d].event.file)'
  <2>1. events'[e] = Append(events[e], v) /\ events[e] \in Seq(Event)
    BY <1>3, OfDevice DEF Broadcast
  <2>. HIDE DEF v
  <2>2. /\ Len(events'[e]) = Len(events[e]) + 1 /\ Len(events[e]) \in Nat
        /\ events'[e][Len(events[e]) + 1] = v
    BY <2>1, <1>1
  <2>. QED
    <3>. SUFFICES \E i \in 1 .. Len(events'[e]) : events'[e][i].file = v.file
      <4>1. v'.file = v.file
        BY DEF v, Broadcast, Goto, TypeOK
      <4>. QED
        BY <4>1 DEF v, Queued
    <3>. QED
      BY <2>2
<1>4. ASSUME NEW f \in File, Changing(f)
      PROVE  Changing(f)' \/ \A e \in Device : sessions[e] > 0 => Queued(e, f)'
  <2>1. CASE net[d].event.file = f
    <3>1. (net[d].event.file)' = net[d].event.file
      BY DEF Broadcast, Goto, TypeOK
    <3>. QED
      BY <2>1, <3>1, <1>3 DEF Queued
  <2>2. CASE net[d].event.file # f
    BY <1>2, <1>4, <2>2 DEF Changing
  <2>. QED
    BY <2>1, <2>2
<1>5. \A e \in Device \ {d} : Untouched(e)
  BY <1>1, <1>2 DEF Broadcast, Untouched, Grows, Runs
<1>. QED
  BY <1>4, <1>5 DEF Announced, Broadcast

\* Those who had the deleted file open are about to hear that it is gone.
LEMMA DeleteApart ==
  ASSUME TypeOK, NEW d \in Device, DeleteTask(d)
  PROVE  Announced /\ \A e \in Device \ {d} : Untouched(e)
<1>. USE DEF server, device, user
<1>. SUFFICES ASSUME NEW g \in File, g = Head(tasks[d]).file
              PROVE  Announced /\ \A e \in Device \ {d} : Untouched(e)
  BY FirstTask DEF DeleteTask, Takes
<1>0. net[d].pc = "task"
  BY DEF DeleteTask, Takes
<1>1. CASE store[g] = Absent
  <2>1. store' = store /\ net' = [net EXCEPT ![d].pc = "update"]
    BY <1>1 DEF DeleteTask, TypeOK
  <2>2. Alone(d)
    BY <1>0, <2>1 DEF DeleteTask, Alone, TypeOK
  <2>. QED
    BY <2>2, AloneStep
<1>2. CASE store[g] # Absent
  <2>1. net' = [e \in Device |->
                  IF e = d
                  THEN [net[d] EXCEPT !.pc = "broadcast",
                          !.event = [type |-> "deleted", file |-> g]]
                  ELSE IF net[e].event.file = g
                  THEN [net[e] EXCEPT !.linked = FALSE]
                  ELSE net[e]]
    BY <1>2 DEF DeleteTask
  <2>2. net'[d].pc = "broadcast" /\ net'[d].event.file = g
    BY <2>1, OfDevice DEF NetState
  <2>3. \A e \in Device \ {d} :
          /\ net'[e].pc = net[e].pc /\ net'[e].for = net[e].for
          /\ net'[e].event = net[e].event /\ net'[e].seen = net[e].seen
          /\ net'[e].buf = net[e].buf
          /\ net'[e].linked = net[e].linked \/ net[e].event.file = g
    BY <2>1, OfDevice DEF NetState
  <2>4. Changing(g)'
    BY <2>2 DEF Changing
  <2>5. \A f \in File : Changing(f) => Changing(f)'
    BY <1>0, <2>3 DEF Changing
  <2>6. \A f \in File : store'[f] # store[f] => Changing(f)'
    BY <2>4 DEF DeleteTask, TypeOK
  <2>7. \A e \in Device \ {d} : Untouched(e)
    <3>. TAKE e \in Device \ {d}
    <3>1. net'[e].linked = net[e].linked \/ Changing(net[e].event.file)'
      <4>1. CASE net'[e].linked = net[e].linked
        BY <4>1
      <4>2. CASE net[e].event.file = g
        <5>1. (net[e].event.file)' = g
          BY <2>3, <4>2
        <5>. QED
          BY <5>1, <2>4 DEF Changing
      <4>. QED
        BY <2>3, <4>1, <4>2
    <3>. QED
      BY <2>3, <3>1 DEF DeleteTask, Untouched, Grows, Runs
  <2>. QED
    BY <2>5, <2>6, <2>7 DEF Announced
<1>. QED
  BY <1>1, <1>2

-----------------------------------------------------------------------------
(* What a step does to the device that takes it *)

\* An entry of dir_hash is for one device, file and key.
LEMMA KnownEntry ==
  ASSUME TypeOK, NEW d \in Device, NEW f \in File, NEW k \in Key, NEW c,
         known' = [known EXCEPT ![d][f][k] = c]
  PROVE  /\ \A e \in Device \ {d} : known'[e] = known[e]
         /\ \A h \in File \ {f} : known'[d][h] = known[d][h]
         /\ \A j \in Key \ {k} : known'[d][f][j] = known[d][f][j]
         /\ known'[d][f][k] = c
<1>. DEFINE entry == [known[d][f] EXCEPT ![k] = c]
            table == [known[d] EXCEPT ![f] = entry]
<1>1. known' = [known EXCEPT ![d] = table]
  OBVIOUS
<1>2. entry[k] = c /\ \A j \in Key \ {k} : entry[j] = known[d][f][j]
  BY OfDevice
<1>. HIDE DEF entry
<1>3. table[f] = entry /\ \A h \in File \ {f} : table[h] = known[d][h]
  BY OfDevice
<1>. HIDE DEF table
<1>. QED
  BY <1>1, <1>2, <1>3 DEF TypeOK

LEMMA KnownNetwork ==
  ASSUME TypeOK, NEW d \in Device, NEW f \in File, NEW c,
         known' = [known EXCEPT ![d][f]["network"] = c]
  PROVE  /\ \A e \in Device \ {d} : known'[e] = known[e]
         /\ \A h \in File \ {f} : known'[d][h] = known[d][h]
         /\ known'[d][f]["network"] = c
<1>. DEFINE entry == [known[d][f] EXCEPT !["network"] = c]
            table == [known[d] EXCEPT ![f] = entry]
<1>1. known' = [known EXCEPT ![d] = table]
  OBVIOUS
<1>2. entry["network"] = c
  BY OfDevice DEF Key
<1>. HIDE DEF entry
<1>3. table[f] = entry /\ \A h \in File \ {f} : table[h] = known[d][h]
  BY OfDevice
<1>. HIDE DEF table
<1>. QED
  BY <1>1, <1>2, <1>3 DEF TypeOK

\* No thread but the main, the notify or the user's has moved.
LEMMA StillView ==
  ASSUME TypeOK, NEW d \in Device, ViewOf(d),
         \/ MainThread(d) \/ NotifyThread(d)
         \/ \E f \in scene.files :
              \/ Save(d, f) \/ RemoveFile(d, f) \/ CliUpload(d, f)
              \/ CliDownload(d, f) \/ CliDelete(d, f) \/ ListServer(d, f)
  PROVE  Announced /\ \A e \in Device : ViewOf(e) => ViewOf(e)'
<1>. USE DEF server, device, user
<1>1. Alone(d) /\ Untouched(d)
  <2>1. CASE Clean(d)
    BY <2>1 DEF Clean, Push, Alone, Untouched, Grows, Runs, TypeOK, MainState
  <2>2. CASE Fetch(d)
    BY <2>2 DEF Fetch, Push, Alone, Untouched, Grows, Runs, TypeOK, MainState
  <2>5. CASE Watch(d)
    BY <2>5 DEF Watch, Alone, Untouched, Grows, Runs, TypeOK, MainState
  <2>3. CASE NotifyThread(d)
    <3>. DEFINE f == Head(notices[d]).file
    <3>1. f \in File
      BY <2>3, FirstNotice DEF NotifyThread, NotifyModified, NotifyDeleted, Noticed
    <3>2. \/ known' = known
          \/ known' = [known EXCEPT ![d][f]["inotify"] = dir[d][f]]
          \/ known' = [known EXCEPT ![d][f]["inotify"] = Unknown]
      BY <2>3 DEF NotifyThread, NotifyModified, NotifyDeleted
    <3>. HIDE DEF f
    <3>3. /\ \A e \in Device \ {d} : known'[e] = known[e]
          /\ \A h \in File : known'[d][h]["network"] = known[d][h]["network"]
      BY <3>1, <3>2, KnownEntry DEF Key
    <3>. QED
      BY <2>3, <3>3 DEF NotifyThread, NotifyModified, NotifyDeleted, Alone,
                        Untouched, Grows, Runs
  <2>4. ASSUME NEW f \in scene.files,
               \/ Save(d, f) \/ RemoveFile(d, f) \/ CliUpload(d, f)
               \/ CliDownload(d, f) \/ CliDelete(d, f) \/ ListServer(d, f)
        PROVE  Alone(d) /\ Untouched(d)
    <3>1. CASE ListServer(d, f)
      BY <3>1 DEF ListServer, Alone, Untouched, Grows, Runs, TypeOK, MainState
    <3>. QED
      BY <2>4, <3>1 DEF Save, RemoveFile, CliUpload, CliDownload, CliDelete,
                        Alone, Untouched, Grows, Runs
  <2>. QED
    BY <2>1, <2>2, <2>3, <2>4, <2>5 DEF MainThread
<1>2. Announced /\ \A e \in Device : Untouched(e)
  BY <1>1, AloneStep
<1>. QED
  BY <1>2, UntouchedView

\* The main thread ends, or has ended.
LEMMA LeaveView ==
  ASSUME TypeOK, NEW d \in Device, ViewOf(d), CliExit(d) \/ SessionEnds(d)
  PROVE  /\ Announced /\ \A e \in Device \ {d} : Untouched(e)
         /\ ViewOf(d)'
<1>. USE DEF server, device, user
<1>1. Alone(d)
  BY DEF CliExit, SessionEnds, End, Alone, TypeOK
<1>2. main'[d].pc = "ended" /\ net' = net
  BY OfDevice DEF CliExit, SessionEnds, End, TypeOK, MainState
<1>3. net[d].pc # "off"
  BY DEF CliExit, SessionEnds, ViewOf, Connected
<1>. QED
  BY <1>1, <1>2, <1>3, AloneStep, EndedView

LEMMA StartView ==
  ASSUME TypeOK, NEW d \in Device, ViewOf(d), Start(d)
  PROVE  /\ Announced /\ \A e \in Device \ {d} : Untouched(e)
         /\ ViewOf(d)'
<1>. USE DEF server, device, user
<1>1. net[d].pc = "off" /\ sessions[d] = 0 /\ \A f \in File : known[d][f]["network"] = Unknown
  BY DEF Start, ViewOf, Connected
<1>2. /\ main'[d].pc = "clean" /\ net'[d].pc = "connect"
      /\ sessions' = sessions /\ known' = known
  BY OfDevice DEF Start, TypeOK, MainState, NetState
<1>3. Alone(d)
  BY <1>1 DEF Start, Alone, TypeOK
<1>4. ViewOf(d)'
  BY <1>1, <1>2 DEF ViewOf, HeardOf, SendsLatest, AppliesLatest, Connected
<1>. QED
  BY <1>3, <1>4, AloneStep

\* A connection that is not the device's first leaves it with two sessions.
LEMMA ConnectView ==
  ASSUME TypeOK, NEW d \in Device, ViewOf(d), Connect(d)
  PROVE  /\ Announced /\ \A e \in Device \ {d} : Untouched(e)
         /\ ViewOf(d)'
<1>. USE DEF server, device, user
<1>0. net[d].pc = "connect" /\ Runs(d) /\ sessions[d] \in Nat
  BY OfDevice, FileSyncAssumption DEF Connect
<1>1. Alone(d)
  BY <1>0 DEF Connect, End, Alone, TypeOK
<1>2. CASE Cardinality(Clients) < MaxConnections
  <2>1. /\ sessions'[d] = sessions[d] + 1 /\ main' = main /\ known' = known
        /\ net'[d].pc = "task"
    BY <1>2, OfDevice DEF Connect, TypeOK, NetState
  <2>2. HeardOf(d)'
    <3>1. sessions'[d] = 1 => \A f \in File : known'[d][f]["network"] = Unknown
      BY <1>0, <2>1 DEF ViewOf, Connected
    <3>. QED
      BY <3>1 DEF HeardOf
  <2>3. Connected(d)'
    BY <1>0, <2>1 DEF Connected, Runs
  <2>. QED
    BY <1>1, <2>1, <2>2, <2>3, AloneStep DEF ViewOf, SendsLatest, AppliesLatest
<1>3. CASE ~(Cardinality(Clients) < MaxConnections)
  <2>1. main'[d].pc = "ended" /\ net' = net
    BY <1>3, OfDevice DEF Connect, End, TypeOK, MainState
  <2>. QED
    BY <1>0, <1>1, <2>1, AloneStep, EndedView
<1>. QED
  BY <1>2, <1>3

\* The thread takes a task, or finds no event, or a file has been stored.
LEMMA GoesOnView ==
  ASSUME TypeOK, NEW d \in Device, ViewOf(d),
         \/ ListTask(d) \/ UploadTask(d) \/ DownloadTask(d) \/ NoEvent(d)
         \/ DeleteTask(d) \/ Open(d) \/ Write(d) \/ Broadcast(d)
  PROVE  /\ Announced /\ \A e \in Device \ {d} : Untouched(e)
         /\ ViewOf(d)'
<1>. USE DEF server, device, user
<1>1. Announced /\ \A e \in Device \ {d} : Untouched(e)
  <2>1. CASE ListTask(d) \/ UploadTask(d) \/ DownloadTask(d) \/ NoEvent(d)
    <3>1. Alone(d)
      BY <2>1 DEF ListTask, UploadTask, DownloadTask, NoEvent, Takes, Goto,
                  Alone, TypeOK
    <3>. QED
      BY <3>1, AloneStep
  <2>. QED
    BY <2>1, OpenApart, WriteApart, BroadcastApart, DeleteApart
<1>2. /\ net[d].pc \in {"task", "update", "open", "write", "broadcast"}
      /\ main[d].pc # "off"
  BY DEF ListTask, UploadTask, DownloadTask, NoEvent, DeleteTask, Open, Write,
         Broadcast, Takes, ViewOf, Connected
<1>3. net'[d].pc \notin {"off", "read", "apply"}
  <2>1. CASE ListTask(d) \/ Write(d) \/ Broadcast(d)
    BY <2>1, OfDevice DEF ListTask, Write, Broadcast, Goto, TypeOK, NetState
  <2>2. CASE UploadTask(d)
    BY <2>2, OfDevice DEF UploadTask, TypeOK, NetState
  <2>3. CASE DownloadTask(d)
    BY <2>3, OfDevice DEF DownloadTask, TypeOK, NetState
  <2>4. CASE NoEvent(d)
    BY <2>4, OfDevice DEF NoEvent, Loop, TypeOK, NetState
  <2>5. CASE DeleteTask(d)
    BY <2>5, OfDevice DEF DeleteTask, TypeOK, NetState
  <2>6. CASE Open(d)
    BY <2>6, OfDevice DEF Open, TypeOK, NetState
  <2>. QED
    BY <2>1, <2>2, <2>3, <2>4, <2>5, <2>6
<1>4. main'[d].pc # "off" /\ (Runs(d)' <=> Runs(d))
  <2>1. CASE ListTask(d)
    BY <1>2, <2>1, OfDevice DEF ListTask, Takes, Fetched, Runs, TypeOK, MainState
  <2>. QED
    BY <1>2, <2>1 DEF UploadTask, DownloadTask, NoEvent, DeleteTask, Open, Write,
                      Broadcast, Runs
<1>5. Grows(d)
  BY OfDevice DEF ListTask, UploadTask, DownloadTask, NoEvent, DeleteTask, Open,
                  Write, Broadcast, Grows
<1>6. sessions' = sessions /\ known' = known
  BY DEF ListTask, UploadTask, DownloadTask, NoEvent, DeleteTask, Open, Write,
         Broadcast
<1>. QED
  BY <1>1, <1>2, <1>3, <1>4, <1>5, <1>6, MovesView DEF Moves

\* The thread takes an event: it is learning of that file.
LEMMA NextEventView ==
  ASSUME TypeOK, NEW d \in Device, ViewOf(d), NextEvent(d)
  PROVE  /\ Announced /\ \A e \in Device \ {d} : Untouched(e)
         /\ ViewOf(d)'
<1>. USE DEF server, device, user
<1>. DEFINE v == Head(events[d])
<1>0. events[d] \in Seq(Event) /\ events[d] # << >>
  BY OfDevice DEF NextEvent
<1>1. net[d].pc \in {"task", "update"} /\ Runs(d)
  BY DEF NextEvent, Asks
<1>2. Alone(d)
  BY <1>1 DEF NextEvent, Alone, TypeOK
<1>3. Announced
  BY <1>2, AloneStep
<1>4. /\ net'[d].pc \in {"measure", "drop"} /\ net'[d].for = "event"
      /\ net'[d].event = v
  BY OfDevice DEF NextEvent, TypeOK, NetState
<1>5. /\ main' = main /\ known' = known /\ sessions' = sessions /\ store' = store
      /\ events'[d] = Tail(events[d])
  BY DEF NextEvent, TypeOK
<1>6. ASSUME NEW f \in File, Queued(d, f), v.file # f
      PROVE  Queued(d, f)'
  <2>1. PICK i \in 1 .. Len(events[d]) : events[d][i].file = f
    BY <1>6 DEF Queued
  <2>2. v = events[d][1] /\ Len(events[d]) \in Nat
    BY <1>0
  <2>3. i # 1
    BY <2>1, <2>2, <1>6
  <2>4. i - 1 \in 1 .. Len(events'[d]) /\ events'[d][i - 1] = events[d][i]
    BY <1>0, <1>5, <2>2, <2>3
  <2>. QED
    BY <2>1, <2>4 DEF Queued
<1>7. HeardOf(d)'
  <2>. SUFFICES ASSUME NEW f \in File, Runs(d)', sessions'[d] = 1, store'[f] # Absent,
                       ~Changing(f)', ~Learning(d, f)'
                PROVE  known'[d][f]["network"] \in {store'[f], Unknown}
    BY DEF HeardOf
  <2>1. ~Changing(f)
    BY <1>1, <1>2 DEF Alone, Changing
  <2>2. ~Queued(d, f)
    BY <1>4, <1>6 DEF Learning, Queued
  <2>3. ~Learning(d, f)
    BY <1>1, <2>2 DEF Learning, Queued
  <2>. QED
    BY <1>1, <1>5, <2>1, <2>3 DEF ViewOf, HeardOf
<1>8. SendsLatest(d)' /\ AppliesLatest(d)'
  BY <1>4 DEF SendsLatest, AppliesLatest
<1>9. Connected(d)'
  BY <1>1, <1>4, <1>5 DEF ViewOf, Connected, Runs
<1>. QED
  BY <1>2, <1>7, <1>8, <1>9, AloneStep DEF ViewOf

\* The thread goes on with the file of its event, or stops: the steps that
\* leave the server's files, the queues and the sessions alone.
Advances(d) ==
  /\ net[d].pc \in {"measure", "read", "apply", "drop"}
  /\ net'[d].pc \notin {"off", "open", "write", "broadcast"}
  /\ net'[d].event = net[d].event /\ net'[d].for = net[d].for
  /\ Runs(d)
  /\ Runs(d)' /\ store' = store /\ events' = events /\ sessions' = sessions
  /\ \A e \in Device \ {d} :
       main'[e] = main[e] /\ known'[e] = known[e] /\ net'[e] = net[e]

LEMMA AdvancesView ==
  ASSUME TypeOK, NEW d \in Device, ViewOf(d), Advances(d)
  PROVE  /\ Announced /\ \A e \in Device \ {d} : Untouched(e)
         /\ Connected(d)'
         /\ \A f \in File : Changing(f)' <=> Changing(f)
         /\ \A f \in File : Queued(d, f)' <=> Queued(d, f)
<1>1. Alone(d)
  BY DEF Alone, Advances
<1>2. Connected(d)'
  BY DEF Advances, ViewOf, Connected, Runs
<1>3. \A f \in File : Changing(f)' <=> Changing(f)
  BY DEF Advances, Changing
<1>4. \A f \in File : Queued(d, f)' <=> Queued(d, f)
  BY DEF Advances, Queued
<1>. QED
  BY <1>1, <1>2, <1>3, <1>4, AloneStep

\* Only what the device hears of the file of its event can change.
LEMMA HearsOne ==
  ASSUME TypeOK, NEW d \in Device, ViewOf(d), Advances(d),
         NEW g \in File, g = net[d].event.file,
         \A f \in File \ {g} : known'[d][f] = known[d][f],
         \/ store[g] = Absent
         \/ known'[d][g]["network"] \in {store[g], Unknown}
         \/ known'[d][g] = known[d][g] /\ (Learning(d, g) => Learning(d, g)')
         \/ Changing(g) \/ Queued(d, g)
  PROVE  HeardOf(d)'
<1>. SUFFICES ASSUME NEW f \in File, sessions'[d] = 1, store'[f] # Absent,
                     ~Changing(f)', ~Learning(d, f)'
              PROVE  known'[d][f]["network"] \in {store'[f], Unknown}
  BY DEF HeardOf
<1>1. store' = store /\ Runs(d) /\ sessions[d] = 1
  BY DEF Advances
<1>2. ~Changing(f) /\ ~Queued(d, f)
  BY AdvancesView DEF Learning, Queued
<1>3. CASE f # g
  <2>1. ~Learning(d, f)
    BY <1>2, <1>3 DEF Learning, Queued
  <2>. QED
    BY <1>1, <1>2, <1>3, <2>1 DEF ViewOf, HeardOf
<1>4. CASE f = g
  BY <1>1, <1>2, <1>4 DEF ViewOf, HeardOf
<1>. QED
  BY <1>3, <1>4

LEMMA MeasureView ==
  ASSUME TypeOK, NEW d \in Device, ViewOf(d), Measure(d)
  PROVE  /\ Announced /\ \A e \in Device \ {d} : Untouched(e)
         /\ ViewOf(d)'
<1>. USE DEF server, device, user
<1>. SUFFICES ASSUME NEW g \in File, g = net[d].event.file
              PROVE  /\ Announced /\ \A e \in Device \ {d} : Untouched(e)
                     /\ ViewOf(d)'
  BY OfDevice
<1>1. /\ net'[d].pc = "read" /\ net'[d].event = net[d].event
      /\ net'[d].for = net[d].for /\ net'[d].seen = store[g] /\ net'[d].linked = TRUE
  BY OfDevice DEF Measure, TypeOK, NetState
<1>2. Advances(d)
  BY <1>1 DEF Measure, Advances, Runs, TypeOK
<1>3. HeardOf(d)'
  <2>1. Learning(d, g) => Learning(d, g)'
    BY <1>1 DEF Learning, Measure
  <2>. QED
    BY <1>2, <2>1, HearsOne DEF Measure
<1>4. SendsLatest(d)' /\ AppliesLatest(d)'
  BY <1>1 DEF SendsLatest, AppliesLatest, Measure
<1>. QED
  BY <1>2, <1>3, <1>4, AdvancesView DEF ViewOf

LEMMA NoFileView ==
  ASSUME TypeOK, NEW d \in Device, ViewOf(d), NoFile(d)
  PROVE  /\ Announced /\ \A e \in Device \ {d} : Untouched(e)
         /\ ViewOf(d)'
<1>. USE DEF server, device, user
<1>. SUFFICES ASSUME NEW g \in File, g = net[d].event.file
              PROVE  /\ Announced /\ \A e \in Device \ {d} : Untouched(e)
                     /\ ViewOf(d)'
  BY OfDevice
<1>1. /\ net'[d].pc \in {"apply", "update"} /\ net'[d].event = net[d].event
      /\ net'[d].for = net[d].for /\ net'[d].buf = net[d].buf
      /\ store[g] = Absent /\ store' = store /\ known' = known
  BY OfDevice DEF NoFile, Goto, TypeOK, NetState
<1>2. Runs(d) /\ Runs(d)'
  BY OfDevice DEF NoFile, Runs, Fetched, TypeOK, MainState
<1>3. Advances(d)
  BY <1>1, <1>2 DEF NoFile, Goto, Advances, TypeOK
<1>4. HeardOf(d)'
  BY <1>1, <1>3, HearsOne
<1>5. SendsLatest(d)' /\ AppliesLatest(d)'
  BY <1>1 DEF SendsLatest, AppliesLatest
<1>. QED
  BY <1>3, <1>4, <1>5, AdvancesView DEF ViewOf

LEMMA ReadView ==
  ASSUME TypeOK, NEW d \in Device, ViewOf(d), Read(d)
  PROVE  /\ Announced /\ \A e \in Device \ {d} : Untouched(e)
         /\ ViewOf(d)'
<1>. USE DEF server, device, user
<1>. SUFFICES ASSUME NEW g \in File, g = net[d].event.file
              PROVE  /\ Announced /\ \A e \in Device \ {d} : Untouched(e)
                     /\ ViewOf(d)'
  BY OfDevice
<1>. DEFINE c == IF net[d].seen = Empty THEN Empty ELSE Contents(d)
<1>1. /\ net'[d].pc = (IF net[d].for = "event" THEN "apply" ELSE "update")
      /\ net'[d].event = net[d].event /\ net'[d].for = net[d].for
      /\ net'[d].buf = c /\ store' = store /\ known' = known
  BY OfDevice DEF Read, TypeOK, NetState
<1>2. Runs(d) /\ Runs(d)'
  BY OfDevice DEF Read, Runs, Fetched, TypeOK, MainState
<1>3. Advances(d)
  BY <1>1, <1>2 DEF Read, Put, Advances, TypeOK
<1>4. net[d].for = "event" => store[g] = c \/ Changing(g) \/ Queued(d, g)
  BY <1>2 DEF ViewOf, SendsLatest, Contents, Read
<1>5. HeardOf(d)'
  <2>1. CASE Changing(g) \/ Queued(d, g)
    BY <1>1, <1>3, <2>1, HearsOne
  <2>2. CASE ~Changing(g) /\ ~Queued(d, g)
    <3>1. Learning(d, g) => Learning(d, g)'
      BY <1>1, <1>4, <2>2 DEF Learning, Queued
    <3>. QED
      BY <1>1, <1>3, <3>1, HearsOne
  <2>. QED
    BY <2>1, <2>2
<1>6. SendsLatest(d)' /\ AppliesLatest(d)'
  <2>1. Changing(g)' <=> Changing(g)
    BY <1>3, AdvancesView
  <2>2. Queued(d, g)' <=> Queued(d, g)
    BY <1>3, AdvancesView
  <2>. HIDE DEF c
  <2>. QED
    BY <1>1, <1>4, <2>1, <2>2 DEF SendsLatest, AppliesLatest, Changing, Queued
<1>. QED
  BY <1>3, <1>5, <1>6, AdvancesView DEF ViewOf

\* A file that was cut while it was read is being stored again, or the event
\* about that is in the queue.
LEMMA ReadForeverView ==
  ASSUME TypeOK, NEW d \in Device, ViewOf(d), ReadForever(d)
  PROVE  /\ Announced /\ \A e \in Device \ {d} : Untouched(e)
         /\ ViewOf(d)'
<1>. USE DEF server, device, user
<1>. SUFFICES ASSUME NEW g \in File, g = net[d].event.file
              PROVE  /\ Announced /\ \A e \in Device \ {d} : Untouched(e)
                     /\ ViewOf(d)'
  BY OfDevice
<1>1. /\ net'[d].pc = "hung" /\ net'[d].event = net[d].event
      /\ net'[d].for = net[d].for /\ main' = main
  BY OfDevice DEF ReadForever, Goto, TypeOK, NetState
<1>2. CASE Runs(d)
  <2>1. Advances(d)
    BY <1>1, <1>2 DEF ReadForever, Goto, Advances, Runs, TypeOK
  <2>2. net[d].for = "event" => Changing(g) \/ Queued(d, g)
    BY <1>2 DEF ReadForever, Contents, ViewOf, SendsLatest
  <2>3. Learning(d, g) => Queued(d, g) \/ Changing(g)
    BY <2>2 DEF Learning, Queued
  <2>4. HeardOf(d)'
    BY <2>1, <2>3, HearsOne DEF ReadForever
  <2>. QED
    BY <1>1, <2>1, <2>4, AdvancesView DEF ViewOf, SendsLatest, AppliesLatest
<1>3. CASE ~Runs(d)
  <2>1. main'[d].pc = "ended"
    BY <1>1, <1>3, OfDevice DEF Runs, ViewOf, Connected, ReadForever
  <2>2. Alone(d)
    BY DEF ReadForever, Goto, Alone, TypeOK
  <2>. QED
    BY <1>1, <2>1, <2>2, AloneStep, EndedView
<1>. QED
  BY <1>2, <1>3

\* What was downloaded is what the server has, or there is more to hear.
LEMMA ApplyView ==
  ASSUME TypeOK, NEW d \in Device, ViewOf(d), Apply(d)
  PROVE  /\ Announced /\ \A e \in Device \ {d} : Untouched(e)
         /\ ViewOf(d)'
<1>. USE DEF server, device, user
<1>. SUFFICES ASSUME NEW g \in File, g = net[d].event.file
              PROVE  /\ Announced /\ \A e \in Device \ {d} : Untouched(e)
                     /\ ViewOf(d)'
  BY OfDevice
<1>1. /\ net'[d].pc \in {"connect", "task"} /\ net'[d].event = net[d].event
      /\ net'[d].for = net[d].for
  BY OfDevice DEF Apply, Loop, TypeOK, NetState
<1>2. CASE End(d) /\ UNCHANGED <<known, dir, notices>>
  <2>1. main'[d].pc = "ended"
    BY <1>2, OfDevice DEF End, TypeOK, MainState
  <2>2. Alone(d)
    BY <1>2 DEF Apply, End, Alone, TypeOK
  <2>. QED
    BY <1>1, <2>1, <2>2, AloneStep, EndedView
<1>. DEFINE c == net[d].buf
<1>3. CASE /\ main' = main
           /\ \/ known' = [known EXCEPT ![d][g]["network"] = c]
              \/ known' = known /\ known[d][g]["network"] = c
  <2>1. /\ known'[d][g]["network"] = c
        /\ \A e \in Device \ {d} : known'[e] = known[e]
        /\ \A f \in File \ {g} : known'[d][f] = known[d][f]
    BY <1>3, KnownNetwork
  <2>2. Advances(d)
    BY <1>1, <1>3, <2>1 DEF Apply, Advances, Runs, TypeOK
  <2>3. store[g] \in {Absent, c} \/ Changing(g) \/ Queued(d, g)
    BY DEF Apply, ViewOf, AppliesLatest
  <2>4. HeardOf(d)'
    BY <2>1, <2>2, <2>3, HearsOne
  <2>. QED
    BY <1>1, <2>2, <2>4, AdvancesView DEF ViewOf, SendsLatest, AppliesLatest
<1>. QED
  BY <1>2, <1>3 DEF Apply

LEMMA DropView ==
  ASSUME TypeOK, NEW d \in Device, ViewOf(d), Drop(d)
  PROVE  /\ Announced /\ \A e \in Device \ {d} : Untouched(e)
         /\ ViewOf(d)'
<1>. USE DEF server, device, user
<1>. SUFFICES ASSUME NEW g \in File, g = net[d].event.file
              PROVE  /\ Announced /\ \A e \in Device \ {d} : Untouched(e)
                     /\ ViewOf(d)'
  BY OfDevice
<1>1. /\ net'[d].pc \in {"connect", "task"} /\ net'[d].event = net[d].event
      /\ net'[d].for = net[d].for /\ main' = main
  BY OfDevice DEF Drop, Loop, TypeOK, NetState
<1>2. /\ known'[d][g]["network"] = Unknown
      /\ \A e \in Device \ {d} : known'[e] = known[e]
      /\ \A f \in File \ {g} : known'[d][f] = known[d][f]
  <2>1. CASE known' = [known EXCEPT ![d][g]["network"] = Unknown]
    <3>1. /\ known'[d] = [known[d] EXCEPT ![g]["network"] = Unknown]
          /\ \A e \in Device \ {d} : known'[e] = known[e]
      BY <2>1 DEF TypeOK
    <3>2. \A f \in File \ {g} : known'[d][f] = known[d][f]
      BY <3>1, OfDevice
    <3>3. known'[d][g]["network"] = Unknown
      BY <3>1, OfDevice DEF Key
    <3>. QED
      BY <3>1, <3>2, <3>3
  <2>2. CASE known' = known /\ known[d][g]["network"] = Unknown
    BY <2>2
  <2>. QED
    BY <2>1, <2>2 DEF Drop
<1>3. Advances(d)
  BY <1>1, <1>2 DEF Drop, Advances, Runs, TypeOK
<1>4. HeardOf(d)'
  BY <1>2, <1>3, HearsOne
<1>. QED
  BY <1>1, <1>3, <1>4, AdvancesView DEF ViewOf, SendsLatest, AppliesLatest

-----------------------------------------------------------------------------
(* The theorem *)

LEMMA ViewsInitially == Init => ViewsFresh
<1>. SUFFICES ASSUME Init, NEW d \in Device PROVE ViewOf(d)
  BY DEF ViewsFresh
<1>1. /\ net[d].pc = (IF d \in scene.running THEN "task" ELSE "off")
      /\ main[d].pc = (IF d \in scene.running THEN "run" ELSE "off")
      /\ sessions[d] = (IF d \in scene.running THEN 1 ELSE 0)
  BY DEF Init
<1>2. \A f \in File : known[d][f]["network"] = Unknown
  BY DEF Init, Key
<1>. QED
  BY <1>1, <1>2 DEF ViewOf, HeardOf, SendsLatest, AppliesLatest, Connected, Runs

LEMMA NextViews == TypeOK /\ ViewsFresh /\ [Next]_vars => ViewsFresh'
<1>. SUFFICES ASSUME TypeOK, ViewsFresh, [Next]_vars PROVE ViewsFresh'
  OBVIOUS
<1>. DEFINE Apart(d) == /\ Announced /\ \A e \in Device \ {d} : Untouched(e)
                        /\ ViewOf(d)'
<1>0. \A e \in Device : ViewOf(e)
  BY DEF ViewsFresh
<1>1. CASE UNCHANGED vars
  <2>1. Announced /\ \A e \in Device : Untouched(e)
    BY <1>1 DEF vars, server, device, user, Announced, Untouched, Changing, Grows, Runs
  <2>. QED
    BY <1>0, <2>1, UntouchedView DEF ViewsFresh
<1>2. ASSUME NEW d \in Device, Apart(d)
      PROVE  ViewsFresh'
  <2>1. \A e \in Device \ {d} : ViewOf(e)'
    BY <1>0, <1>2, UntouchedView
  <2>. QED
    BY <1>2, <2>1 DEF ViewsFresh
<1>3. ASSUME NEW d \in Device, NetworkThread(d) \/ SessionThread(d)
      PROVE  Apart(d)
  <2>1. CASE Connect(d) \/ SessionEnds(d)
    BY <1>0, <2>1, ConnectView, LeaveView
  <2>2. CASE \/ ListTask(d) \/ UploadTask(d) \/ DownloadTask(d) \/ NoEvent(d)
             \/ DeleteTask(d) \/ Open(d) \/ Write(d) \/ Broadcast(d)
    BY <1>0, <2>2, GoesOnView
  <2>3. CASE NextEvent(d) \/ Apply(d) \/ Drop(d)
    BY <1>0, <2>3, NextEventView, ApplyView, DropView
  <2>4. CASE NoFile(d) \/ Measure(d) \/ Read(d) \/ ReadForever(d)
    BY <1>0, <2>4, NoFileView, MeasureView, ReadView, ReadForeverView
  <2>. QED
    BY <1>3, <2>1, <2>2, <2>3, <2>4 DEF NetworkThread, SessionThread
<1>4. ASSUME NEW d \in Device, Start(d) \/ CliExit(d)
      PROVE  Apart(d)
  BY <1>0, <1>4, StartView, LeaveView
<1>5. ASSUME NEW d \in Device,
             \/ MainThread(d) \/ NotifyThread(d)
             \/ \E f \in scene.files :
                  \/ Save(d, f) \/ RemoveFile(d, f) \/ CliUpload(d, f)
                  \/ CliDownload(d, f) \/ CliDelete(d, f) \/ ListServer(d, f)
      PROVE  ViewsFresh'
  BY <1>0, <1>5, StillView DEF ViewsFresh
<1>. HIDE DEF Apart
<1>. QED
  BY <1>1, <1>2, <1>3, <1>4, <1>5 DEF Next, UserActs

\* No change of a file is lost between write_file or remove and the queues of
\* the sessions (server.cpp:147-152, client.cpp:129-166 of the server), for any
\* number of devices and sessions, and whether or not sessions use the file
\* at the same time.
THEOREM NoChangeLost == Spec => []NetworkViewFresh
<1>1. Init => TypeOK /\ ViewsFresh
  BY TypedInitially, ViewsInitially
<1>2. (TypeOK /\ ViewsFresh) /\ [Next]_vars => (TypeOK /\ ViewsFresh)'
  BY NextTyped, NextViews
<1>3. TypeOK /\ ViewsFresh => NetworkViewFresh
  BY DEF ViewsFresh, ViewOf, HeardOf, NetworkViewFresh, Runs
<1>. QED
  BY <1>1, <1>2, <1>3, PTL DEF Spec
-----------------------------------------------------------------------------
(* Users who wait: the inductive invariant *)

\* The contents of a file that nobody saved.
First == {Absent, MaxCommands + 1}

Removes == {"remove", "delete"} \cap scene.commands # {}

\* Users give one command at a time, or one at all, and sessions do not use a
\* file that another writes.  No save has the contents of a file that was there
\* before.  Where users remove files, none was there before and no device
\* starts: dir_hash does not know what a device downloads when it starts, and
\* its removal goes nowhere.
Orderly ==
  /\ AtomicFiles
  /\ \A f \in File : scene.initial[f] \in First
  /\ scene.patient \/ (scene.times <= 1 /\ ~Removes)
  /\ Removes => /\ scene.starting = {}
                /\ \A f \in File : scene.initial[f] = Absent

Items(s) == {s[i] : i \in 1 .. Len(s)}

\* What is queued about one file.
News(d, f) == {v \in Items(events[d]) : v.file = f}
Sightings(d, f) == {v \in Items(notices[d]) : v.file = f}
Orders(d, f) ==
  {t \in Items(tasks[d]) : t.type \in {"upload", "delete"} /\ t.file = f}

\* What the network thread of d and its session do about f, downloads of the
\* user apart.  A file that is fetched at the start is first found.
Doing(d, f) ==
  IF net[d].event.file # f THEN "nothing"
  ELSE IF \/ net[d].pc \in {"open", "write", "broadcast", "drop"}
          \/ net[d].pc \in {"measure", "read", "apply"} /\ net[d].for = "event"
       THEN net[d].pc
  ELSE IF net[d].for = "fetch" /\ net[d].pc = "measure" THEN "find"
  ELSE IF net[d].for = "fetch" /\ net[d].pc = "read" THEN "fetch"
  ELSE "nothing"

Someone(f, acts) == \E d \in Device : Doing(d, f) \in acts

\* The type of the event and the entry of dir_hash for the version n.
EventType(n) == IF n = Absent THEN "deleted" ELSE "modified"
Mark(n) == IF n = Absent THEN Unknown ELSE n

\* Before the device watches its directory.
Starting(d) == main[d].pc \in {"clean", "list", "fetch", "fetching"}

\* d has seen f in the server's list, and has not got it.
Listed(d, f) ==
  \/ f \in main[d].todo
  \/ \E t \in Items(tasks[d]) : t.type = "fetch" /\ t.file = f
  \/ Doing(d, f) \in {"find", "fetch"}

Fetches(d, f) == main[d].pc \in {"clean", "list"} \/ Listed(d, f)

\* dir_hash has the latest version of f, or d has it from its start.
Has(d, f, k) ==
  \/ known[d][f][k] = Mark(latest[f])
  \/ ~Removes /\ known[d][f][k] = Unknown /\ dir[d][f] = latest[f]

\* d will ask its session to store the latest version.
Wants(d, f) ==
  \/ Orders(d, f) # {}
  \/ Sightings(d, f) # {} /\ known[d][f]["inotify"] # Mark(latest[f])

Pending(f) == \E d \in Device : Runs(d) /\ Wants(d, f)

\* d will learn of the latest version, or everybody will.
Told(d, f) ==
  News(d, f) # {} \/ Doing(d, f) \in {"measure", "read", "apply", "drop"}

TellsAll(f) ==
  \/ Someone(f, {"open", "write", "broadcast"})
  \/ Pending(f) /\ (latest[f] = Absent => store[f] # Absent)

\* Nothing that is under way about f speaks of another version.
Carries(d, f) ==
  Runs(d) =>
    /\ \A v \in News(d, f) : v.type = EventType(latest[f])
    /\ \A v \in Sightings(d, f) :
         v.type = EventType(latest[f]) /\ dir[d][f] = latest[f]
    /\ \A t \in Orders(d, f) :
         /\ t.type = "delete" <=> latest[f] = Absent
         /\ t.type = "upload" =>
              latest[f] = IF t.from = Absent THEN dir[d][f] ELSE t.from

Handles(d, f) ==
  /\ Doing(d, f) \in {"open", "write"} => net[d].sent = latest[f]
  /\ Doing(d, f) \in {"open", "write", "measure", "read", "apply"}
       => latest[f] # Absent
  /\ Doing(d, f) \in {"open", "write", "broadcast"}
       => net[d].event.type = EventType(latest[f])
  /\ Doing(d, f) \in {"write", "read", "fetch"} => net[d].linked
  /\ Doing(d, f) = "read" => net[d].seen = latest[f]
  /\ Doing(d, f) = "apply" => net[d].buf = latest[f]
  /\ Doing(d, f) = "drop" => latest[f] = Absent

\* d has the latest version and knows it by both names, or will get it.
Knows(d, f) ==
  Runs(d) =>
    /\ Has(d, f, "network") \/ Told(d, f) \/ TellsAll(f) \/ Fetches(d, f)
    /\ known[d][f]["network"] = Mark(latest[f])
         => dir[d][f] = latest[f] \/ Fetches(d, f)
    /\ dir[d][f] = latest[f] => Has(d, f, "inotify") \/ Sightings(d, f) # {}
    /\ Starting(d) => /\ known[d][f]["network"] \in {Unknown, Mark(latest[f])}
                      /\ known[d][f]["inotify"] = Unknown

\* The server has the latest version, or will be told; nobody reads another.
Heard(d, f) == Told(d, f) \/ known[d][f]["network"] = latest[f]

Learnt(f) ==
  Someone(f, {"broadcast"}) \/ \E d \in Device : Runs(d) /\ Heard(d, f)

Stored(f) ==
  /\ store[f] = latest[f] \/ Pending(f) \/ Someone(f, {"open", "write"})
  /\ latest[f] # Absent /\ Learnt(f)
       => store[f] = latest[f]
          \/ (store[f] # Absent /\ Someone(f, {"write"}))
  /\ ~(Someone(f, {"read", "fetch"}) /\ Someone(f, {"write"}))
  /\ store[f] = Empty => Someone(f, {"write"})
  /\ \A d \in Device :
       /\ Runs(d) /\ Listed(d, f) => store[f] # Absent
       /\ Doing(d, f) = "fetch" => net[d].seen = store[f]

\* Contents that were there before or that users gave.
Version == 0 .. commands \cup {MaxCommands + 1}

Recent(f) ==
  /\ latest[f] \in Version /\ store[f] \in Version \cup {Empty}
  /\ \A d \in Device :
       /\ dir[d][f] \in Version
       /\ \A k \in Key : known[d][f][k] \in Version \cup {Unknown}

\* Nothing is under way about f but first downloads.
Idle(f) ==
  /\ store[f] = latest[f]
  /\ \A d \in Device :
       /\ Doing(d, f) \in {"nothing", "find", "fetch"}
       /\ Runs(d) => News(d, f) = {} /\ Sightings(d, f) = {} /\ Orders(d, f) = {}
       /\ Starting(d) => \A k \in Key : known[d][f][k] = Unknown

\* Where users remove nothing, a file nobody saved stays as it was.
Virgin(f) ==
  ~Removes /\ latest[f] \in First =>
    /\ Idle(f)
    /\ latest[f] = Absent => \A d \in Device : Runs(d) => dir[d][f] = Absent

\* d was not started yet.
Off(d) ==
  /\ tasks[d] = << >> /\ events[d] = << >> /\ notices[d] = << >>
  /\ \A f \in File : dir[d][f] = Absent /\ \A k \in Key : known[d][f][k] = Unknown

\* Where the threads of d may be: nobody connects twice, and main asks for one
\* thing at a time.
Calm(d) ==
  /\ ~Runs(d) => \A f \in File : Doing(d, f) = "nothing"
  /\ main[d].pc = "off" => Off(d) /\ sessions[d] = 0 /\ net[d].pc = "off"
  /\ Runs(d) => \/ sessions[d] > 0 /\ net[d].pc \notin {"off", "connect"}
                \/ net[d].pc = "connect" /\ main[d].pc \in {"clean", "list"}
  /\ Starting(d) => ~Removes /\ notices[d] = << >>
  /\ ~net[d].leaving
  /\ net[d].pc = "apply" => net[d].for = "event"
  /\ main[d].pc \notin {"fetch", "fetching"} => main[d].todo = {}
  /\ main[d].pc \in {"clean", "fetch"} => tasks[d] = << >>
  /\ main[d].pc = "list" =>
       tasks[d] = << >> \/ (Tail(tasks[d]) = << >> /\ Head(tasks[d]).type = "list")
  /\ main[d].pc = "fetching" =>
       \/ /\ tasks[d] # << >> /\ Tail(tasks[d]) = << >> /\ Head(tasks[d]).type = "fetch"
          /\ \A f \in File : Doing(d, f) \notin {"find", "fetch"}
       \/ tasks[d] = << >> /\ \E f \in File : Doing(d, f) \in {"find", "fetch"}
  /\ main[d].pc # "fetching" =>
       /\ \A t \in Items(tasks[d]) : t.type # "fetch"
       /\ \A f \in File : Doing(d, f) \notin {"find", "fetch"}

FileRight(f) ==
  /\ Stored(f) /\ Recent(f) /\ Virgin(f)
  /\ \A d \in Device : Carries(d, f) /\ Handles(d, f) /\ Knows(d, f)

Converges ==
  /\ \A d \in Device : Calm(d)
  /\ \A f \in File : FileRight(f)
-----------------------------------------------------------------------------
(* Queues as sets *)

LEMMA ItemsAppend ==
  ASSUME NEW S, NEW s \in Seq(S), NEW x \in S
  PROVE  Items(Append(s, x)) = Items(s) \cup {x}
<1>. DEFINE t == Append(s, x)
<1>1. /\ Len(s) \in Nat /\ Len(t) = Len(s) + 1 /\ t[Len(s) + 1] = x
      /\ \A i \in 1 .. Len(s) : t[i] = s[i]
  OBVIOUS
<1>. HIDE DEF t
<1>2. ASSUME NEW i \in 1 .. Len(t)
      PROVE  t[i] \in Items(s) \cup {x}
  <2>1. CASE i = Len(s) + 1
    BY <1>1, <2>1
  <2>2. CASE i # Len(s) + 1
    <3>1. i \in 1 .. Len(s)
      BY <1>1, <2>2
    <3>. QED
      BY <1>1, <3>1 DEF Items
  <2>. QED
    BY <2>1, <2>2
<1>3. ASSUME NEW i \in 1 .. Len(s)
      PROVE  s[i] \in Items(t)
  <2>1. i \in 1 .. Len(t) /\ s[i] = t[i]
    BY <1>1
  <2>. QED
    BY <2>1 DEF Items
<1>4. x \in Items(t)
  <2>1. Len(s) + 1 \in 1 .. Len(t)
    BY <1>1
  <2>. QED
    BY <1>1, <2>1 DEF Items
<1>5. Items(t) \subseteq Items(s) \cup {x}
  BY <1>2 DEF Items
<1>6. Items(s) \subseteq Items(t)
  BY <1>3 DEF Items
<1>. QED
  BY <1>4, <1>5, <1>6 DEF t

LEMMA ItemsTail ==
  ASSUME NEW S, NEW s \in Seq(S), s # << >>
  PROVE  Items(s) = {Head(s)} \cup Items(Tail(s))
<1>. DEFINE t == Tail(s)
<1>1. /\ Len(s) \in Nat \ {0} /\ Len(t) = Len(s) - 1 /\ Head(s) = s[1]
      /\ \A i \in 1 .. Len(t) : t[i] = s[i + 1]
  OBVIOUS
<1>. HIDE DEF t
<1>2. ASSUME NEW i \in 1 .. Len(s)
      PROVE  s[i] \in {s[1]} \cup Items(t)
  <2>1. CASE i = 1
    BY <2>1
  <2>2. CASE i # 1
    <3>1. i - 1 \in 1 .. Len(t) /\ t[i - 1] = s[i]
      BY <1>1, <2>2
    <3>. QED
      BY <3>1 DEF Items
  <2>. QED
    BY <2>1, <2>2
<1>3. ASSUME NEW j \in 1 .. Len(t)
      PROVE  t[j] \in Items(s)
  <2>1. j + 1 \in 1 .. Len(s) /\ t[j] = s[j + 1]
    BY <1>1
  <2>. QED
    BY <2>1 DEF Items
<1>4. s[1] \in Items(s)
  <2>1. 1 \in 1 .. Len(s)
    BY <1>1
  <2>. QED
    BY <2>1 DEF Items
<1>5. Items(s) \subseteq {s[1]} \cup Items(t)
  BY <1>2 DEF Items
<1>6. Items(t) \subseteq Items(s)
  BY <1>3 DEF Items
<1>. QED
  BY <1>1, <1>4, <1>5, <1>6 DEF t

LEMMA ItemsEmpty == Items(<< >>) = {}
BY DEF Items

-----------------------------------------------------------------------------
(* What a step leaves as it was *)

Kept(d, f) ==
  /\ Runs(d)' <=> Runs(d)
  /\ News(d, f)' = News(d, f) /\ Sightings(d, f)' = Sightings(d, f)
  /\ Orders(d, f)' = Orders(d, f)
  /\ dir'[d][f] = dir[d][f] /\ known'[d][f] = known[d][f]
  /\ Starting(d)' => Starting(d)
  /\ (Listed(d, f)' <=> Listed(d, f)) /\ (Fetches(d, f)' <=> Fetches(d, f))
  /\ Doing(d, f)' = Doing(d, f)
  /\ Doing(d, f) # "nothing" =>
       /\ net'[d].sent = net[d].sent /\ net'[d].seen = net[d].seen
       /\ net'[d].buf = net[d].buf /\ net'[d].event = net[d].event
  /\ Doing(d, f) \in {"write", "read", "fetch"} => net'[d].linked = net[d].linked

SameUser == UNCHANGED <<scene, latest>> /\ commands' \in {commands, commands + 1}

LEMMA KeptDevice ==
  ASSUME NEW d \in Device,
         main'[d] = main[d], events'[d] = events[d], notices'[d] = notices[d],
         tasks'[d] = tasks[d], dir'[d] = dir[d], known'[d] = known[d],
         net'[d] = net[d]
  PROVE  \A f \in File : Kept(d, f)
BY DEF Kept, Runs, News, Sightings, Orders, Doing, Starting, Listed, Fetches

LEMMA KeptWants ==
  ASSUME NEW d \in Device, NEW f \in File, Kept(d, f), latest'[f] = latest[f]
  PROVE  /\ Wants(d, f)' <=> Wants(d, f)
         /\ Told(d, f)' <=> Told(d, f)
         /\ Heard(d, f)' <=> Heard(d, f)
BY DEF Kept, Wants, Told, Heard

LEMMA KeptCarries ==
  ASSUME NEW d \in Device, NEW f \in File, Kept(d, f), latest'[f] = latest[f],
         Carries(d, f), Handles(d, f)
  PROVE  Carries(d, f)' /\ Handles(d, f)'
<1>1. Carries(d, f)'
  BY DEF Kept, Carries
<1>2. Handles(d, f)'
  BY DEF Kept, Handles
<1>. QED
  BY <1>1, <1>2

LEMMA KeptKnows ==
  ASSUME NEW d \in Device, NEW f \in File, Kept(d, f), latest'[f] = latest[f],
         scene' = scene, Knows(d, f),
         TellsAll(f) => TellsAll(f)' \/ (Runs(d) => Told(d, f)' \/ Fetches(d, f))
  PROVE  Knows(d, f)'
<1>1. \A k : Has(d, f, k)' <=> Has(d, f, k)
  BY DEF Kept, Has, Removes
<1>. QED
  BY <1>1, KeptWants DEF Kept, Knows

LEMMA KeptRecent ==
  ASSUME NEW f \in File, TypeOK, commands' \in {commands, commands + 1},
         latest'[f] = latest[f], Recent(f),
         store'[f] \in Version \cup {Empty},
         \A d \in Device :
           /\ dir'[d][f] \in Version
           /\ \A k \in Key : known'[d][f][k] \in Version \cup {Unknown}
  PROVE  Recent(f)'
<1>1. Version \subseteq Version'
  BY FileSyncAssumption DEF Version, TypeOK
<1>. QED
  BY <1>1 DEF Recent

LEMMA KeptIdle ==
  ASSUME NEW f \in File, \A d \in Device : Kept(d, f), store'[f] = store[f],
         latest'[f] = latest[f], scene' = scene, Virgin(f)
  PROVE  Virgin(f)'
<1>1. Idle(f) => Idle(f)'
  BY DEF Kept, Idle
<1>. QED
  BY <1>1 DEF Kept, Virgin, Removes

\* A step that leaves a file alone.
LEMMA KeptFile ==
  ASSUME NEW f \in File, TypeOK, \A d \in Device : Kept(d, f),
         store'[f] = store[f], latest'[f] = latest[f], scene' = scene,
         commands' \in {commands, commands + 1}, FileRight(f)
  PROVE  FileRight(f)'
<1>1. \A d \in Device :
        /\ Wants(d, f)' <=> Wants(d, f)
        /\ Told(d, f)' <=> Told(d, f)
        /\ Heard(d, f)' <=> Heard(d, f)
        /\ Runs(d)' <=> Runs(d)
        /\ Doing(d, f)' = Doing(d, f)
        /\ Listed(d, f)' <=> Listed(d, f)
        /\ Doing(d, f) = "fetch" => net'[d].seen = net[d].seen
  BY KeptWants DEF Kept
<1>2. Pending(f)' <=> Pending(f)
  BY <1>1 DEF Pending
<1>3. \A acts : Someone(f, acts)' <=> Someone(f, acts)
  BY <1>1 DEF Someone
<1>4. Learnt(f)' <=> Learnt(f)
  BY <1>1, <1>3 DEF Learnt
<1>5. Stored(f)'
  BY <1>1, <1>2, <1>3, <1>4 DEF FileRight, Stored
<1>6. TellsAll(f) => TellsAll(f)'
  BY <1>2, <1>3 DEF TellsAll
<1>7. Recent(f)'
  <2>1. \A d \in Device : dir'[d][f] = dir[d][f] /\ known'[d][f] = known[d][f]
    BY DEF Kept
  <2>2. Recent(f)
    BY DEF FileRight
  <2>3. store'[f] \in Version \cup {Empty}
    BY <2>2 DEF Recent
  <2>4. \A d \in Device :
          /\ dir'[d][f] \in Version
          /\ \A k \in Key : known'[d][f][k] \in Version \cup {Unknown}
    BY <2>1, <2>2 DEF Recent
  <2>. QED
    BY <2>2, <2>3, <2>4, KeptRecent
<1>8. Virgin(f)'
  BY KeptIdle DEF FileRight
<1>. QED
  BY <1>5, <1>6, <1>7, <1>8, KeptCarries, KeptKnows DEF FileRight

\* A file about which something is under way is not as it was.
LEMMA NotVirgin ==
  ASSUME NEW f \in File, Virgin(f), ~Idle(f), latest'[f] = latest[f], scene' = scene
  PROVE  Virgin(f)'
BY DEF Virgin, Removes

\* A step of d that has to do with a file.
LEMMA OneDevice ==
  ASSUME NEW d \in Device, NEW f \in File, TypeOK,
         \A e \in Device \ {d} : Kept(e, f),
         SameUser, FileRight(f),
         Carries(d, f)', Handles(d, f)', Knows(d, f)', Stored(f)', Virgin(f)',
         store'[f] \in Version \cup {Empty}, dir'[d][f] \in Version,
         \A k \in Key : known'[d][f][k] \in Version \cup {Unknown},
         TellsAll(f) => TellsAll(f)'
  PROVE  FileRight(f)'
<1>1. \A e \in Device \ {d} : Carries(e, f)' /\ Handles(e, f)' /\ Knows(e, f)'
  BY KeptCarries, KeptKnows DEF FileRight, SameUser
<1>2. Recent(f)'
  <2>1. \A e \in Device \ {d} : dir'[e][f] = dir[e][f] /\ known'[e][f] = known[e][f]
    BY DEF Kept
  <2>2. \A e \in Device :
          /\ dir'[e][f] \in Version
          /\ \A k \in Key : known'[e][f][k] \in Version \cup {Unknown}
    BY <2>1 DEF FileRight, Recent
  <2>. QED
    BY <2>2, KeptRecent DEF FileRight, SameUser
<1>. QED
  BY <1>1, <1>2 DEF FileRight
-----------------------------------------------------------------------------
(* Queues, file by file *)

LEMMA TaskTaken ==
  ASSUME TypeOK, NEW d \in Device, NEW type, Takes(d, type)
  PROVE  /\ Head(tasks[d]) \in Task /\ Head(tasks[d]).type = type
         /\ Head(tasks[d]) \in Items(tasks[d])
         /\ Items(tasks[d])' \subseteq Items(tasks[d])
         /\ \A f \in File :
              IF type \in {"upload", "delete"} /\ Head(tasks[d]).file = f
              THEN Orders(d, f) = {Head(tasks[d])} \cup Orders(d, f)'
              ELSE Orders(d, f)' = Orders(d, f)
         /\ \A e \in Device \ {d} : tasks'[e] = tasks[e]
<1>. DEFINE t == Head(tasks[d])
<1>1. tasks[d] \in Seq(Task) /\ tasks[d] # << >> /\ t.type = type
  BY OfDevice DEF Takes
<1>2. t \in Task
  BY <1>1
<1>3. tasks'[d] = Tail(tasks[d]) /\ \A e \in Device \ {d} : tasks'[e] = tasks[e]
  BY DEF Takes, TypeOK
<1>4. Items(tasks[d]) = {t} \cup Items(tasks[d])'
  BY <1>1, <1>3, ItemsTail
<1>. HIDE DEF t
<1>5. \A f \in File :
        IF type \in {"upload", "delete"} /\ t.file = f
        THEN Orders(d, f) = {t} \cup Orders(d, f)'
        ELSE Orders(d, f)' = Orders(d, f)
  BY <1>1, <1>4 DEF Orders
<1>. QED
  BY <1>1, <1>2, <1>3, <1>4, <1>5 DEF t

LEMMA TaskPushed ==
  ASSUME TypeOK, NEW d \in Device, NEW g \in File, NEW from \in Content,
         NEW type \in {"list", "fetch", "upload", "download", "delete"},
         Push(d, type, g, from)
  PROVE  /\ Items(tasks[d])' =
              Items(tasks[d]) \cup {[type |-> type, file |-> g, from |-> from]}
         /\ \A f \in File :
              IF type \in {"upload", "delete"} /\ g = f
              THEN Orders(d, f)' = Orders(d, f)
                     \cup {[type |-> type, file |-> g, from |-> from]}
              ELSE Orders(d, f)' = Orders(d, f)
         /\ \A e \in Device \ {d} : tasks'[e] = tasks[e]
<1>. DEFINE t == [type |-> type, file |-> g, from |-> from]
<1>1. t \in Task /\ t.type = type /\ t.file = g /\ tasks[d] \in Seq(Task)
  BY OfDevice DEF Task
<1>2. tasks'[d] = Append(tasks[d], t) /\ \A e \in Device \ {d} : tasks'[e] = tasks[e]
  BY DEF Push, TypeOK
<1>. HIDE DEF t
<1>3. Items(tasks[d])' = Items(tasks[d]) \cup {t}
  BY <1>1, <1>2, ItemsAppend
<1>4. \A f \in File :
        IF type \in {"upload", "delete"} /\ g = f
        THEN Orders(d, f)' = Orders(d, f) \cup {t}
        ELSE Orders(d, f)' = Orders(d, f)
  BY <1>1, <1>3 DEF Orders
<1>. QED
  BY <1>2, <1>3, <1>4 DEF t

LEMMA EventTaken ==
  ASSUME TypeOK, NEW d \in Device, events[d] # << >>,
         events' = [events EXCEPT ![d] = Tail(@)]
  PROVE  /\ Head(events[d]) \in Event
         /\ \A f \in File :
              IF Head(events[d]).file = f
              THEN News(d, f) = {Head(events[d])} \cup News(d, f)'
              ELSE News(d, f)' = News(d, f)
<1>. DEFINE v == Head(events[d])
<1>1. events[d] \in Seq(Event) /\ v \in Event
  BY OfDevice
<1>2. events'[d] = Tail(events[d])
  BY DEF TypeOK
<1>3. Items(events[d]) = {v} \cup Items(events[d])'
  BY <1>1, <1>2, ItemsTail
<1>. HIDE DEF v
<1>4. \A f \in File : IF v.file = f THEN News(d, f) = {v} \cup News(d, f)'
                                    ELSE News(d, f)' = News(d, f)
  BY <1>3 DEF News
<1>. QED
  BY <1>1, <1>4 DEF v

LEMMA NoticeTaken ==
  ASSUME TypeOK, NEW d \in Device, NEW type, Noticed(d, type)
  PROVE  /\ Head(notices[d]) \in Event /\ Head(notices[d]).type = type
         /\ \A f \in File :
              IF Head(notices[d]).file = f
              THEN Sightings(d, f) = {Head(notices[d])} \cup Sightings(d, f)'
              ELSE Sightings(d, f)' = Sightings(d, f)
         /\ \A e \in Device \ {d} : notices'[e] = notices[e]
<1>. DEFINE v == Head(notices[d])
<1>1. notices[d] \in Seq(Event) /\ v \in Event /\ notices[d] # << >> /\ v.type = type
  BY OfDevice DEF Noticed
<1>2. notices'[d] = Tail(notices[d]) /\ \A e \in Device \ {d} : notices'[e] = notices[e]
  BY DEF Noticed, TypeOK
<1>3. Items(notices[d]) = {v} \cup Items(notices[d])'
  BY <1>1, <1>2, ItemsTail
<1>. HIDE DEF v
<1>4. \A f \in File : IF v.file = f THEN Sightings(d, f) = {v} \cup Sightings(d, f)'
                                    ELSE Sightings(d, f)' = Sightings(d, f)
  BY <1>3 DEF Sightings
<1>. QED
  BY <1>1, <1>2, <1>4 DEF v

\* A device that runs watches its directory: it sees what is put there.
LEMMA FilePut ==
  ASSUME TypeOK, NEW d \in Device, NEW g \in File, NEW c, Put(d, g, c), Watches(d)
  PROVE  /\ dir'[d][g] = c
         /\ \A f \in File \ {g} : dir'[d][f] = dir[d][f] /\ Sightings(d, f)' = Sightings(d, f)
         /\ IF c = Absent /\ dir[d][g] = Absent THEN Sightings(d, g)' = Sightings(d, g)
            ELSE Sightings(d, g)' = Sightings(d, g)
                   \cup {[type |-> EventType(c), file |-> g]}
         /\ \A e \in Device \ {d} : dir'[e] = dir[e] /\ notices'[e] = notices[e]
<1>. DEFINE v == [type |-> EventType(c), file |-> g]
<1>1. v \in Event /\ v.file = g /\ notices[d] \in Seq(Event) /\ dir[d] \in [File -> Content]
  BY OfDevice DEF Event, EventType
<1>2. /\ dir'[d][g] = c /\ \A f \in File \ {g} : dir'[d][f] = dir[d][f]
      /\ \A e \in Device \ {d} : dir'[e] = dir[e] /\ notices'[e] = notices[e]
  BY <1>1 DEF Put, TypeOK
<1>3. IF c = Absent /\ dir[d][g] = Absent THEN notices'[d] = notices[d]
      ELSE notices'[d] = Append(notices[d], v)
  BY DEF Put, TypeOK, EventType
<1>. HIDE DEF v
<1>4. IF c = Absent /\ dir[d][g] = Absent THEN Items(notices[d])' = Items(notices[d])
      ELSE Items(notices[d])' = Items(notices[d]) \cup {v}
  <2>1. Items(Append(notices[d], v)) = Items(notices[d]) \cup {v}
    BY <1>1, ItemsAppend
  <2>. QED
    BY <1>3, <2>1
<1>. QED
  BY <1>1, <1>2, <1>4 DEF Sightings, v

-----------------------------------------------------------------------------
(* The steps of one device *)

\* The other devices are as they were.
Apart(d) ==
  /\ \A e \in Device \ {d} :
       /\ main'[e] = main[e] /\ events'[e] = events[e] /\ notices'[e] = notices[e]
       /\ tasks'[e] = tasks[e] /\ dir'[e] = dir[e] /\ known'[e] = known[e]
       /\ net'[e] = net[e] /\ sessions'[e] = sessions[e]
  /\ SameUser

\* Only d, and what it has to do with g, changes.
Elsewhere(d, g) ==
  /\ Apart(d)
  /\ \A f \in File \ {g} : Kept(d, f) /\ store'[f] = store[f]

LEMMA CalmKept ==
  ASSUME NEW d \in Device, Calm(d), scene' = scene, main'[d] = main[d],
         sessions'[d] = sessions[d], tasks'[d] = tasks[d],
         notices'[d] = notices[d], net'[d] = net[d],
         main[d].pc = "off" =>
           events'[d] = events[d] /\ dir'[d] = dir[d] /\ known'[d] = known[d]
  PROVE  Calm(d)'
<1>1. \A f \in File : Doing(d, f)' = Doing(d, f)
  BY DEF Doing
<1>2. Items(tasks[d])' = Items(tasks[d])
  BY DEF Items
<1>. QED
  BY <1>1, <1>2 DEF Calm, Runs, Starting, Off, Removes

\* The network thread of a device that runs goes on.
LEMMA CalmGoesOn ==
  ASSUME NEW d \in Device, Calm(d), scene' = scene, Runs(d),
         net[d].pc # "connect", main'[d] = main[d], sessions'[d] = sessions[d],
         \/ tasks'[d] = tasks[d]
         \/ Watches(d) /\ \A t \in Items(tasks[d])' : t.type # "fetch",
         notices'[d] = notices[d] \/ Watches(d),
         ~net'[d].leaving, net'[d].pc \notin {"off", "connect"},
         net'[d].pc = "apply" => net'[d].for = "event",
         \A f \in File :
           Doing(d, f)' \in {"find", "fetch"} <=> Doing(d, f) \in {"find", "fetch"}
  PROVE  Calm(d)' /\ Runs(d)'
<1>1. Runs(d)' /\ (Watches(d) => ~Starting(d)) /\ main[d].pc # "off"
  BY DEF Runs, Watches, Starting
<1>2. Watches(d) \/ Items(tasks[d])' = Items(tasks[d])
  BY DEF Items
<1>3. Starting(d)' <=> Starting(d)
  BY DEF Starting
<1>4. CASE Watches(d)
  <2>1. main[d].pc \in {"run", "listing"} /\ main'[d].pc = main[d].pc
        /\ main'[d].todo = main[d].todo
    BY <1>4 DEF Watches
  <2>2. \A t \in Items(tasks[d])' : t.type # "fetch"
    BY <2>1, <1>2 DEF Calm, Items
  <2>. QED
    BY <1>1, <1>3, <2>1, <2>2 DEF Calm, Runs, Removes
<1>5. CASE ~Watches(d)
  <2>1. tasks'[d] = tasks[d] /\ notices'[d] = notices[d]
        /\ Items(tasks[d])' = Items(tasks[d])
    BY <1>5, <1>2
  <2>. QED
    BY <1>1, <1>3, <2>1 DEF Calm, Runs, Removes
<1>. QED
  BY <1>4, <1>5

LEMMA StepDone ==
  ASSUME TypeOK, Converges, NEW d \in Device, NEW g \in File, Elsewhere(d, g),
         Calm(d)', Carries(d, g)', Handles(d, g)', Knows(d, g)', Stored(g)',
         Virgin(g)' \/ ~Idle(g),
         store'[g] \in Version \cup {Empty}, dir'[d][g] \in Version,
         \A k \in Key : known'[d][g][k] \in Version \cup {Unknown},
         TellsAll(g) => TellsAll(g)'
  PROVE  Converges'
<1>1. \A e \in Device \ {d}, f \in File : Kept(e, f)
  BY KeptDevice DEF Elsewhere, Apart
<1>2. \A e \in Device : Calm(e)'
  BY CalmKept DEF Converges, Elsewhere, Apart, SameUser
<1>3. FileRight(g)'
  <2>1. Virgin(g)'
    BY NotVirgin DEF Converges, FileRight, Elsewhere, Apart, SameUser
  <2>. QED
    BY <1>1, <2>1, OneDevice DEF Converges, Elsewhere, Apart
<1>4. \A f \in File \ {g} : FileRight(f)'
  BY <1>1, KeptFile DEF Converges, Elsewhere, Apart, SameUser
<1>. QED
  BY <1>2, <1>3, <1>4 DEF Converges

\* The same where neither the server's file nor the directory nor dir_hash
\* changes.
LEMMA QuietStepDone ==
  ASSUME TypeOK, Converges, NEW d \in Device, NEW g \in File, Elsewhere(d, g),
         Calm(d)', Carries(d, g)', Handles(d, g)', Knows(d, g)', Stored(g)',
         Virgin(g)' \/ ~Idle(g),
         store'[g] = store[g], dir' = dir, known' = known,
         TellsAll(g) => TellsAll(g)'
  PROVE  Converges'
<1>1. Recent(g)
  BY DEF Converges, FileRight
<1>2. /\ store'[g] \in Version \cup {Empty} /\ dir'[d][g] \in Version
      /\ \A k \in Key : known'[d][g][k] \in Version \cup {Unknown}
  BY <1>1 DEF Recent
<1>. QED
  BY <1>2, StepDone

\* A step that has to do with no file.
LEMMA NothingDone ==
  ASSUME TypeOK, Converges, NEW d \in Device, NEW g \in File, Elsewhere(d, g),
         Calm(d)', Kept(d, g), store'[g] = store[g]
  PROVE  Converges'
<1>1. \A e \in Device, f \in File : Kept(e, f)
  BY KeptDevice DEF Elsewhere, Apart
<1>2. \A e \in Device : Calm(e)'
  BY CalmKept DEF Converges, Elsewhere, Apart, SameUser
<1>3. \A f \in File : FileRight(f)'
  BY <1>1, KeptFile DEF Converges, Elsewhere, Apart, SameUser
<1>. QED
  BY <1>2, <1>3 DEF Converges

\* A step of d that has to do with every file.
LEMMA AllDone ==
  ASSUME TypeOK, Converges, NEW d \in Device, Apart(d), Calm(d)',
         \A f \in File :
           /\ Carries(d, f)' /\ Handles(d, f)' /\ Knows(d, f)' /\ Stored(f)'
           /\ Virgin(f)' /\ store'[f] = store[f] /\ dir'[d][f] \in Version
           /\ \A k \in Key : known'[d][f][k] \in Version \cup {Unknown}
           /\ TellsAll(f) => TellsAll(f)'
  PROVE  Converges'
<1>1. \A e \in Device \ {d}, f \in File : Kept(e, f)
  BY KeptDevice DEF Apart
<1>2. \A e \in Device : Calm(e)'
  BY CalmKept DEF Converges, Apart, SameUser
<1>3. ASSUME NEW f \in File PROVE FileRight(f)'
  <2>1. FileRight(f) /\ store'[f] \in Version \cup {Empty} /\ SameUser
    BY DEF Converges, FileRight, Recent, Apart
  <2>. QED
    BY <1>1, <2>1, OneDevice
<1>. QED
  BY <1>2, <1>3 DEF Converges

\* A step that leaves the server's file alone.
LEMMA StillStored ==
  ASSUME NEW d \in Device, NEW g \in File, Apart(d), Stored(g),
         store'[g] = store[g],
         Runs(d) /\ Wants(d, g)
           => Runs(d)' /\ (Wants(d, g)' \/ Doing(d, g)' \in {"open", "write"}),
         Doing(d, g) \in {"open", "write", "broadcast"} => Doing(d, g)' = Doing(d, g),
         Doing(d, g)' \in {"write", "broadcast"} => Doing(d, g)' = Doing(d, g),
         Doing(d, g)' \in {"read", "fetch"}
           => Doing(d, g) \in {"read", "fetch"} \/ ~Someone(g, {"write"}),
         Doing(d, g)' = "fetch" => net'[d].seen = store[g],
         Runs(d)' /\ Listed(d, g)' => store[g] # Absent,
         Runs(d)' /\ Heard(d, g)' => Runs(d) /\ Heard(d, g)
  PROVE  /\ Stored(g)'
         /\ TellsAll(g) => TellsAll(g)'
<1>1. latest' = latest /\ scene' = scene
  BY DEF Apart, SameUser
<1>2. \A e \in Device \ {d} : /\ Wants(e, g)' <=> Wants(e, g)
                              /\ Heard(e, g)' <=> Heard(e, g)
                              /\ Listed(e, g)' <=> Listed(e, g)
                              /\ Runs(e)' <=> Runs(e)
                              /\ Doing(e, g)' = Doing(e, g)
                              /\ net'[e] = net[e]
  BY <1>1, KeptDevice, KeptWants DEF Apart, Kept
<1>3. Pending(g) => Pending(g)' \/ Someone(g, {"open", "write"})'
  BY <1>2 DEF Pending, Someone
<1>4. /\ Someone(g, {"open", "write"}) => Someone(g, {"open", "write"})'
      /\ Someone(g, {"open", "write", "broadcast"})
           => Someone(g, {"open", "write", "broadcast"})'
      /\ Someone(g, {"open", "write"})' => Someone(g, {"open", "write", "broadcast"})'
      /\ Someone(g, {"write"}) <=> Someone(g, {"write"})'
      /\ Someone(g, {"broadcast"})' => Someone(g, {"broadcast"})
      /\ Someone(g, {"read", "fetch"})'
           => Someone(g, {"read", "fetch"}) \/ ~Someone(g, {"write"})
  BY <1>2 DEF Someone
<1>5. Learnt(g)' => Learnt(g)
  BY <1>2, <1>4 DEF Learnt
<1>6. \A e \in Device : /\ Runs(e)' /\ Listed(e, g)' => store[g] # Absent
                        /\ Doing(e, g)' = "fetch" => net'[e].seen = store[g]
  BY <1>2 DEF Stored
<1>7. Stored(g)'
  <2>1. store'[g] = latest'[g] \/ Pending(g)' \/ Someone(g, {"open", "write"})'
    BY <1>1, <1>3, <1>4 DEF Stored
  <2>2. latest'[g] # Absent /\ Learnt(g)'
          => store'[g] = latest'[g] \/ (store'[g] # Absent /\ Someone(g, {"write"})')
    BY <1>1, <1>4, <1>5 DEF Stored
  <2>3. ~(Someone(g, {"read", "fetch"})' /\ Someone(g, {"write"})')
    BY <1>4 DEF Stored
  <2>4. store'[g] = Empty => Someone(g, {"write"})'
    BY <1>4 DEF Stored
  <2>. QED
    BY <1>6, <2>1, <2>2, <2>3, <2>4 DEF Stored
<1>8. TellsAll(g) => TellsAll(g)'
  BY <1>1, <1>3, <1>4 DEF TellsAll
<1>. QED
  BY <1>7, <1>8
-----------------------------------------------------------------------------
(* Steps that have to do with no file *)

\* A device that watches its directory has got its first files.
LEMMA WatchesAll ==
  ASSUME NEW d \in Device, Calm(d), Watches(d)
  PROVE  /\ ~Starting(d) /\ Runs(d) /\ main[d].todo = {}
         /\ \A t \in Items(tasks[d]) : t.type # "fetch"
         /\ \A f \in File : ~Listed(d, f) /\ ~Fetches(d, f)
BY DEF Calm, Watches, Starting, Listed, Fetches, Runs

\* Before that it has asked for one thing at most.
LEMMA TakenFrom ==
  ASSUME TypeOK, NEW d \in Device, Calm(d), NEW type, Takes(d, type)
  PROVE  /\ Watches(d) \/ (main[d].pc = "list" /\ type = "list")
              \/ (main[d].pc = "fetching" /\ type = "fetch")
         /\ Watches(d) => type # "fetch"
<1>1. Runs(d) /\ tasks[d] # << >> /\ Head(tasks[d]).type = type
  BY DEF Takes
<1>2. main[d] \in MainState /\ Head(tasks[d]) \in Items(tasks[d])
  BY OfDevice, TaskTaken
<1>. QED
  BY <1>1, <1>2, WatchesAll DEF Calm, Runs, Watches, MainState

\* The network thread of d goes on with something that is no change.
LEMMA NothingAtWork ==
  ASSUME TypeOK, NEW d \in Device,
         \A f \in File : Doing(d, f) = "nothing" /\ Doing(d, f)' = "nothing",
         \A f \in File : Orders(d, f)' = Orders(d, f),
         \A f \in File :
           /\ Listed(d, f)' <=> Listed(d, f)
           /\ Fetches(d, f)' <=> Fetches(d, f),
         Starting(d)' => Starting(d),
         \A e \in Device \ {d} :
           net'[e] = net[e] /\ main'[e] = main[e] /\ tasks'[e] = tasks[e]
             /\ sessions'[e] = sessions[e],
         Runs(d)' <=> Runs(d),
         UNCHANGED <<store, events, dir, known, notices, latest, commands, scene>>
  PROVE  \A g \in File : Elsewhere(d, g) /\ Kept(d, g) /\ store'[g] = store[g]
<1>1. \A f \in File : News(d, f)' = News(d, f)
  BY DEF News
<1>2. \A f \in File : Sightings(d, f)' = Sightings(d, f)
  BY DEF Sightings
<1>3. \A f \in File : Kept(d, f)
  BY <1>1, <1>2 DEF Kept
<1>. QED
  BY <1>3 DEF Elsewhere, Apart, SameUser

\* What a user asked to see: the list, or a download.
LEMMA IdleTask ==
  ASSUME TypeOK, Converges, NEW d \in Device,
         \/ ListTask(d) /\ main[d].pc # "list"
         \/ DownloadTask(d) /\ main[d].pc # "fetching"
  PROVE  Converges'
<1>. USE DEF server, device, user
<1>1. Calm(d) /\ Runs(d) /\ net[d].pc = "task"
  BY DEF Converges, ListTask, DownloadTask, Takes
<1>2. \A f \in File : Doing(d, f) = "nothing"
  BY <1>1 DEF Doing
<1>3. CASE ListTask(d) /\ main[d].pc # "list"
  <2>1. /\ \A f \in File : Orders(d, f)' = Orders(d, f)
        /\ Items(tasks[d])' \subseteq Items(tasks[d])
        /\ \A e \in Device \ {d} : tasks'[e] = tasks[e]
    BY <1>3, TaskTaken DEF ListTask
  <2>2. Watches(d)
    BY <1>1, <1>3, TakenFrom DEF ListTask
  <2>3. /\ main'[d].pc = "run" /\ main'[d].todo = main[d].todo
        /\ \A e \in Device \ {d} : main'[e] = main[e]
    BY <1>3, OfDevice DEF ListTask, TypeOK, MainState
  <2>4. /\ net'[d].pc = "update" /\ net'[d].leaving = net[d].leaving
        /\ net'[d].for = net[d].for
        /\ \A e \in Device \ {d} : net'[e] = net[e]
    BY <1>3, OfDevice DEF ListTask, Goto, TypeOK, NetState
  <2>5. \A f \in File : Doing(d, f)' = "nothing"
    BY <2>4 DEF Doing
  <2>6. /\ ~Starting(d) /\ main[d].todo = {}
        /\ \A t \in Items(tasks[d]) : t.type # "fetch"
        /\ \A f \in File : ~Listed(d, f) /\ ~Fetches(d, f)
    BY <1>1, <2>2, WatchesAll
  <2>7. /\ ~Starting(d)' /\ main'[d].todo = {}
        /\ \A t \in Items(tasks[d])' : t.type # "fetch"
    BY <2>1, <2>3, <2>6 DEF Starting
  <2>8. \A f \in File : ~Listed(d, f)' /\ ~Fetches(d, f)'
    BY <2>3, <2>5, <2>7 DEF Listed, Fetches
  <2>9. Runs(d)' /\ Calm(d)'
    <3>1. sessions'[d] = sessions[d] /\ scene' = scene
      BY <1>3 DEF ListTask
    <3>. QED
      BY <1>1, <2>2, <2>3, <2>4, <2>5, <2>7, <3>1 DEF Runs, Watches, Calm
  <2>10. \A g \in File : Elsewhere(d, g) /\ Kept(d, g) /\ store'[g] = store[g]
    BY <1>1, <1>2, <1>3, <2>1, <2>3, <2>4, <2>5, <2>6, <2>7, <2>8, <2>9, NothingAtWork
       DEF ListTask
  <2>. QED
    BY <2>9, <2>10, NothingDone, FileSyncAssumption
<1>4. CASE DownloadTask(d) /\ main[d].pc # "fetching"
  <2>1. PICK for \in {"fetch", "download"} :
          /\ Takes(d, for)
          /\ net' = [net EXCEPT ![d].pc = "measure", ![d].for = for,
                      ![d].event = [type |-> "modified",
                                    file |-> Head(tasks[d]).file]]
          /\ UNCHANGED <<server, dir, known, notices, main, user, changes>>
    BY <1>4 DEF DownloadTask
  <2>2. Watches(d) /\ for # "fetch"
    BY <1>1, <1>4, <2>1, TakenFrom
  <2>3. /\ \A f \in File : Orders(d, f)' = Orders(d, f)
        /\ Items(tasks[d])' \subseteq Items(tasks[d])
        /\ \A e \in Device \ {d} : tasks'[e] = tasks[e]
    BY <2>1, TaskTaken
  <2>4. /\ net'[d].pc = "measure" /\ net'[d].leaving = net[d].leaving
        /\ net'[d].for = for
        /\ \A e \in Device \ {d} : net'[e] = net[e]
    BY <2>1, OfDevice DEF TypeOK, NetState
  <2>5. \A f \in File : Doing(d, f)' = "nothing"
    BY <2>2, <2>4 DEF Doing
  <2>6. /\ ~Starting(d)
        /\ \A t \in Items(tasks[d]) : t.type # "fetch"
        /\ \A f \in File : ~Listed(d, f) /\ ~Fetches(d, f)
    BY <1>1, <2>2, WatchesAll
  <2>7. \A t \in Items(tasks[d])' : t.type # "fetch"
    BY <2>3, <2>6
  <2>8. ~Starting(d)' /\ \A f \in File : ~Listed(d, f)' /\ ~Fetches(d, f)'
    BY <2>1, <2>2, <2>5, <2>6, <2>7 DEF Listed, Fetches, Starting
  <2>9. Runs(d)' /\ Calm(d)'
    <3>1. ~net'[d].leaving
      BY <1>1, <2>4 DEF Calm
    <3>. QED
      BY <1>1, <1>2, <2>1, <2>2, <2>4, <2>5, <2>7, <3>1, CalmGoesOn
  <2>10. \A g \in File : Elsewhere(d, g) /\ Kept(d, g) /\ store'[g] = store[g]
    BY <1>1, <1>2, <2>1, <2>3, <2>4, <2>5, <2>6, <2>8, <2>9, NothingAtWork
  <2>. QED
    BY <2>9, <2>10, NothingDone, FileSyncAssumption
<1>. QED
  BY <1>3, <1>4

\* No event, the end of a session, a download of the user.
LEMMA IdleStep ==
  ASSUME TypeOK, Converges, NEW d \in Device,
         \/ NoEvent(d) \/ SessionEnds(d)
         \/ /\ net[d].for = "download"
            /\ NoFile(d) \/ Measure(d) \/ Read(d) \/ ReadForever(d)
  PROVE  Converges'
<1>. USE DEF server, device, user
<1>1. Calm(d)
  BY DEF Converges
<1>2. \/ net[d].pc \in {"measure", "read"} /\ net[d].for = "download"
      \/ net[d].pc = "update" \/ SessionEnds(d)
  BY DEF NoEvent, NoFile, Measure, Read, ReadForever
<1>3. \A f \in File : Doing(d, f) = "nothing"
  <2>1. SessionEnds(d) => ~Runs(d)
    BY DEF SessionEnds, Runs
  <2>. QED
    BY <1>1, <1>2, <2>1 DEF Calm, Doing
<1>4. /\ net'[d].pc \in {"task", "update", "read", "hung"} \/ net'[d] = net[d]
      /\ net'[d].pc = "read" => net'[d].for = "download" \/ net'[d] = net[d]
      /\ net'[d].leaving = net[d].leaving /\ net'[d].for = net[d].for
      /\ \A e \in Device \ {d} : net'[e] = net[e]
  <2>1. CASE NoEvent(d)
    BY <1>1, <2>1, OfDevice DEF NoEvent, Loop, TypeOK, NetState, Calm
  <2>2. CASE SessionEnds(d)
    BY <2>2 DEF SessionEnds
  <2>3. CASE net[d].for = "download" /\ (NoFile(d) \/ ReadForever(d))
    BY <2>3, OfDevice DEF NoFile, ReadForever, Goto, TypeOK, NetState
  <2>4. CASE net[d].for = "download" /\ (Measure(d) \/ Read(d))
    BY <2>4, OfDevice DEF Measure, Read, TypeOK, NetState
  <2>. QED
    BY <2>1, <2>2, <2>3, <2>4
<1>5. \A f \in File : Doing(d, f)' = "nothing"
  <2>1. CASE net'[d] = net[d]
    BY <1>3, <2>1 DEF Doing
  <2>2. CASE net'[d] # net[d]
    BY <1>4, <2>2 DEF Doing
  <2>. QED
    BY <2>1, <2>2
<1>6. /\ UNCHANGED <<main, tasks, store, events, dir, known, notices, latest, commands,
                     scene>>
      /\ \A e \in Device \ {d} : sessions'[e] = sessions[e]
      /\ Runs(d) => sessions'[d] = sessions[d]
  BY DEF NoEvent, SessionEnds, NoFile, Measure, Read, ReadForever, Runs, TypeOK
<1>7. Runs(d)' <=> Runs(d)
  BY <1>6 DEF Runs
<1>8. Calm(d)'
  <2>1. CASE Runs(d)
    <3>1. net[d].pc # "connect"
      BY <1>2, <2>1 DEF SessionEnds, Runs
    <3>2. /\ ~net'[d].leaving /\ net'[d].pc \notin {"off", "connect"}
          /\ net'[d].pc = "apply" => net'[d].for = "event"
      BY <1>1, <1>4, <2>1, <3>1 DEF Calm
    <3>. QED
      BY <1>1, <1>3, <1>5, <1>6, <2>1, <3>1, <3>2, CalmGoesOn
  <2>2. CASE ~Runs(d)
    <3>1. main[d].pc # "off"
      <4>1. NoEvent(d) \/ SessionEnds(d) \/ NoFile(d) \/ Measure(d) \/ Read(d)
              => main[d].pc # "off"
        BY DEF NoEvent, SessionEnds, NoFile, Measure, Read, Runs
      <4>2. ReadForever(d) => main[d].pc # "off"
        BY <1>1 DEF ReadForever, Calm
      <4>. QED
        BY <4>1, <4>2
    <3>2. ~Starting(d) /\ Items(tasks[d])' = Items(tasks[d])
      BY <1>6, <2>2 DEF Starting, Runs, Items
    <3>. QED
      BY <1>1, <1>4, <1>5, <1>6, <1>7, <2>2, <3>1, <3>2 DEF Calm, Starting, Runs
  <2>. QED
    BY <2>1, <2>2
<1>9. \A f \in File :
        /\ Listed(d, f)' <=> Listed(d, f)
        /\ Fetches(d, f)' <=> Fetches(d, f)
        /\ Orders(d, f)' = Orders(d, f)
  BY <1>3, <1>5, <1>6 DEF Listed, Fetches, Orders
<1>10. \A g \in File : Elsewhere(d, g) /\ Kept(d, g) /\ store'[g] = store[g]
  BY <1>3, <1>4, <1>5, <1>6, <1>7, <1>9, NothingAtWork DEF Starting
<1>. QED
  BY <1>8, <1>10, NothingDone, FileSyncAssumption
-----------------------------------------------------------------------------
(* Steps that have to do with one file *)

\* What the invariant says of one device and one file.
LEMMA OfFile ==
  ASSUME TypeOK, Converges, NEW d \in Device, NEW g \in File
  PROVE  /\ Calm(d) /\ Carries(d, g) /\ Handles(d, g) /\ Knows(d, g) /\ Stored(g)
         /\ Recent(g) /\ Virgin(g)
         /\ latest[g] \in Version /\ dir[d][g] \in Version
         /\ \A k \in Key : known[d][g][k] \in Version \cup {Unknown}
         /\ latest[g] # Empty /\ latest[g] # Garbage /\ latest[g] # Unknown
         /\ Absent = 0 /\ Absent # Unknown /\ Empty # Absent
<1>1. FileRight(g) /\ Calm(d)
  BY DEF Converges
<1>2. Recent(g) /\ commands \in Nat /\ MaxCommands \in Nat
  BY <1>1, FileSyncAssumption DEF FileRight, TypeOK
<1>3. latest[g] \in Version /\ dir[d][g] \in Version
  BY <1>2 DEF Recent
<1>4. Empty \notin Version /\ Garbage \notin Version /\ Unknown \notin Version
  BY <1>2 DEF Version, Empty, Garbage, Unknown
<1>. QED
  BY <1>1, <1>2, <1>3, <1>4 DEF FileRight, Recent, Absent, Unknown, Empty

\* The other devices, and other files of d, are as they were.
LEMMA OthersKept ==
  ASSUME NEW d \in Device, NEW g \in File,
         \A e \in Device \ {d} :
           /\ main'[e] = main[e] /\ events'[e] = events[e] /\ notices'[e] = notices[e]
           /\ tasks'[e] = tasks[e] /\ dir'[e] = dir[e] /\ known'[e] = known[e]
           /\ net'[e] = net[e] /\ sessions'[e] = sessions[e],
         SameUser, Runs(d)' <=> Runs(d), Starting(d)' => Starting(d),
         \A f \in File \ {g} :
           /\ News(d, f)' = News(d, f) /\ Sightings(d, f)' = Sightings(d, f)
           /\ Orders(d, f)' = Orders(d, f) /\ store'[f] = store[f]
           /\ dir'[d][f] = dir[d][f] /\ known'[d][f] = known[d][f]
           /\ Listed(d, f)' <=> Listed(d, f)
           /\ Fetches(d, f)' <=> Fetches(d, f)
           /\ Doing(d, f) = "nothing" /\ Doing(d, f)' = "nothing"
  PROVE  Elsewhere(d, g)
BY DEF Elsewhere, Apart, Kept

LEMMA SameQueues ==
  ASSUME NEW d \in Device
  PROVE  /\ events'[d] = events[d] => \A f \in File : News(d, f)' = News(d, f)
         /\ notices'[d] = notices[d] => \A f \in File : Sightings(d, f)' = Sightings(d, f)
         /\ tasks'[d] = tasks[d] =>
              /\ \A f \in File : Orders(d, f)' = Orders(d, f)
              /\ Items(tasks[d])' = Items(tasks[d])
BY DEF News, Sightings, Orders, Items

\* The first downloads of d are where they were.
LEMMA SameStart ==
  ASSUME NEW d \in Device, main'[d] = main[d],
         \/ tasks'[d] = tasks[d]
         \/ \A t \in Items(tasks[d]) \cup Items(tasks[d])' : t.type # "fetch",
         \A f \in File : \/ Doing(d, f)' = Doing(d, f)
                         \/ /\ Doing(d, f) \notin {"find", "fetch"}
                            /\ Doing(d, f)' \notin {"find", "fetch"}
  PROVE  /\ Runs(d)' <=> Runs(d)
         /\ Starting(d)' <=> Starting(d)
         /\ \A f \in File : /\ Listed(d, f)' <=> Listed(d, f)
                            /\ Fetches(d, f)' <=> Fetches(d, f)
<1>1. (Runs(d)' <=> Runs(d)) /\ (Starting(d)' <=> Starting(d))
  BY DEF Runs, Starting
<1>2. \A f \in File :
        (\E t \in Items(tasks[d])' : t.type = "fetch" /\ t.file = f)
          <=> (\E t \in Items(tasks[d]) : t.type = "fetch" /\ t.file = f)
  BY SameQueues
<1>3. \A f \in File : Listed(d, f)' <=> Listed(d, f)
  BY <1>2 DEF Listed
<1>. QED
  BY <1>1, <1>3 DEF Fetches

\* What d knows of g does not change.
LEMMA KnowsOn ==
  ASSUME NEW d \in Device, NEW g \in File, Runs(d) => Knows(d, g), Runs(d)' => Runs(d),
         latest'[g] = latest[g], scene' = scene,
         dir'[d][g] = dir[d][g], known'[d][g] = known[d][g],
         Sightings(d, g)' = Sightings(d, g), Starting(d)' => Starting(d),
         Runs(d) /\ Told(d, g) => Told(d, g)' \/ TellsAll(g)',
         TellsAll(g) => TellsAll(g)', Fetches(d, g) => Fetches(d, g)'
  PROVE  Knows(d, g)'
<1>1. \A k : Has(d, g, k)' <=> Has(d, g, k)
  BY DEF Has, Removes
<1>. QED
  BY <1>1 DEF Knows

\* The network thread of d or its session goes on with g.
LEMMA WorksOn ==
  ASSUME NEW d \in Device, NEW g \in File,
         UNCHANGED <<sessions, events, dir, known, notices, tasks, main, latest,
                     commands, scene>>,
         \A e \in Device \ {d} : net'[e] = net[e],
         \A f \in File \ {g} :
           Doing(d, f) = "nothing" /\ Doing(d, f)' = "nothing" /\ store'[f] = store[f]
  PROVE  /\ Elsewhere(d, g)
         /\ Runs(d)' <=> Runs(d)
         /\ Starting(d)' <=> Starting(d)
         /\ \A f \in File : /\ News(d, f)' = News(d, f)
                            /\ Sightings(d, f)' = Sightings(d, f)
                            /\ Orders(d, f)' = Orders(d, f)
<1>1. (Runs(d)' <=> Runs(d)) /\ (Starting(d)' <=> Starting(d))
  BY DEF Runs, Starting
<1>2. /\ \A f \in File : /\ News(d, f)' = News(d, f)
                         /\ Sightings(d, f)' = Sightings(d, f)
                         /\ Orders(d, f)' = Orders(d, f)
      /\ Items(tasks[d])' = Items(tasks[d])
  BY SameQueues
<1>3. \A f \in File \ {g} : /\ Listed(d, f)' <=> Listed(d, f)
                            /\ Fetches(d, f)' <=> Fetches(d, f)
  BY <1>2 DEF Listed, Fetches
<1>4. SameUser
  BY DEF SameUser
<1>. QED
  BY <1>1, <1>2, <1>3, <1>4, OthersKept

\* The network thread sends an upload.
LEMMA UploadConverges ==
  ASSUME TypeOK, Converges, NEW d \in Device, UploadTask(d)
  PROVE  Converges'
<1>. USE DEF server, device, user
<1>. DEFINE t == Head(tasks[d])
            c == IF t.from = Absent THEN dir[d][t.file] ELSE t.from
<1>1. PICK g \in File : g = t.file
  BY FirstTask DEF UploadTask, Takes
<1>2. /\ t \in Task /\ t.type = "upload" /\ t \in Orders(d, g)
      /\ Items(tasks[d])' \subseteq Items(tasks[d])
      /\ Orders(d, g)' \subseteq Orders(d, g)
      /\ \A f \in File \ {g} : Orders(d, f)' = Orders(d, f)
      /\ \A e \in Device \ {d} : tasks'[e] = tasks[e]
  BY <1>1, TaskTaken DEF UploadTask
<1>3. /\ Calm(d) /\ Carries(d, g) /\ Handles(d, g) /\ Knows(d, g) /\ Stored(g)
      /\ Runs(d) /\ net[d].pc = "task"
  BY OfFile DEF UploadTask, Takes
<1>4. Watches(d)
  BY <1>3, TakenFrom DEF UploadTask
<1>5. latest[g] # Absent /\ c = latest[g]
  BY <1>2, <1>1, <1>3 DEF Carries
<1>6. /\ net'[d].pc = "open" /\ net'[d].sent = latest[g]
      /\ net'[d].event = [type |-> "modified", file |-> g]
      /\ net'[d].for = net[d].for /\ net'[d].leaving = net[d].leaving
      /\ \A e \in Device \ {d} : net'[e] = net[e]
  BY <1>1, <1>5, OfDevice DEF UploadTask, TypeOK, NetState
<1>. HIDE DEF t, c
<1>7. /\ \A f \in File : Doing(d, f) = "nothing"
      /\ \A f \in File \ {g} : Doing(d, f)' = "nothing"
      /\ Doing(d, g)' = "open"
  BY <1>3, <1>6 DEF Doing
<1>8. UNCHANGED <<store, sessions, events, dir, known, notices, main, latest, commands,
                  scene>>
  BY DEF UploadTask
<1>9. \A u \in Items(tasks[d]) \cup Items(tasks[d])' : u.type # "fetch"
  BY <1>2, <1>3, <1>4, WatchesAll
<1>10. Runs(d)' /\ Calm(d)'
  <2>1. ~net'[d].leaving
    BY <1>3, <1>6 DEF Calm
  <2>. QED
    BY <1>3, <1>4, <1>6, <1>7, <1>8, <1>9, <2>1, CalmGoesOn
<1>11. \A f \in File : News(d, f)' = News(d, f) /\ Sightings(d, f)' = Sightings(d, f)
  BY <1>8, SameQueues
<1>12. /\ Starting(d)' <=> Starting(d)
       /\ \A f \in File : /\ Listed(d, f)' <=> Listed(d, f)
                          /\ Fetches(d, f)' <=> Fetches(d, f)
  BY <1>7, <1>8, <1>9, SameStart
<1>13. Elsewhere(d, g)
  BY <1>2, <1>1, <1>3, <1>6, <1>7, <1>8, <1>10, <1>11, <1>12, OthersKept DEF SameUser
<1>14. Stored(g)' /\ (TellsAll(g) => TellsAll(g)')
  <2>1. Heard(d, g)' => Heard(d, g)
    BY <1>7, <1>8, <1>11 DEF Told, Heard
  <2>2. Runs(d)' /\ Listed(d, g)' => store[g] # Absent
    BY <1>3, <1>12 DEF Stored
  <2>. QED
    BY <1>3, <1>7, <1>8, <1>10, <1>13, <2>1, <2>2, StillStored DEF Elsewhere
<1>15. Carries(d, g)'
  BY <1>2, <1>1, <1>3, <1>8, <1>11 DEF Carries
<1>16. Handles(d, g)'
  BY <1>5, <1>6, <1>7, <1>8 DEF Handles, EventType
<1>17. Knows(d, g)'
  <2>1. Told(d, g) => Told(d, g)'
    BY <1>7, <1>11 DEF Told
  <2>. QED
    BY <1>3, <1>8, <1>11, <1>12, <1>14, <2>1, KnowsOn
<1>18. ~Idle(g)
  BY <1>2, <1>3 DEF Idle
<1>. QED
  BY <1>8, <1>10, <1>13, <1>14, <1>15, <1>16, <1>17, <1>18, QuietStepDone

\* A session empties the file that it is about to write.
LEMMA OpenConverges ==
  ASSUME TypeOK, AtomicFiles, Converges, NEW d \in Device, Open(d)
  PROVE  Converges'
<1>. USE DEF server, device, user
<1>1. PICK g \in File : g = net[d].event.file
  BY OfDevice
<1>2. /\ Calm(d) /\ Carries(d, g) /\ Handles(d, g) /\ Knows(d, g) /\ Stored(g)
      /\ Recent(g) /\ net[d].pc = "open" /\ Empty # Absent
  BY OfFile DEF Open
<1>3. /\ net'[d].pc = "write" /\ net'[d].linked /\ net'[d].sent = net[d].sent
      /\ net'[d].event = net[d].event /\ net'[d].for = net[d].for
      /\ net'[d].leaving = net[d].leaving
      /\ \A e \in Device \ {d} : net'[e] = net[e]
  BY OfDevice DEF Open, TypeOK, NetState
<1>4. /\ \A f \in File \ {g} : Doing(d, f) = "nothing" /\ Doing(d, f)' = "nothing"
      /\ Doing(d, g) = "open" /\ Doing(d, g)' = "write"
  BY <1>1, <1>2, <1>3 DEF Doing
<1>5. UNCHANGED <<sessions, events, dir, known, notices, tasks, main, latest, commands,
                  scene>>
  BY DEF Open
<1>6. /\ store'[g] = Empty /\ \A f \in File \ {g} : store'[f] = store[f]
  BY <1>1 DEF Open, TypeOK
<1>7. Runs(d)
  BY <1>2, <1>4 DEF Calm
<1>8. /\ Elsewhere(d, g) /\ Runs(d)'
      /\ Starting(d)' <=> Starting(d)
      /\ \A f \in File : /\ News(d, f)' = News(d, f)
                         /\ Sightings(d, f)' = Sightings(d, f)
                         /\ Orders(d, f)' = Orders(d, f)
  BY <1>3, <1>4, <1>5, <1>6, <1>7, WorksOn
<1>9. Fetches(d, g)' <=> Fetches(d, g)
  BY <1>4, <1>5, SameStart
<1>10. Calm(d)'
  <2>1. /\ ~net'[d].leaving /\ net'[d].pc \notin {"off", "connect", "apply"}
        /\ net[d].pc # "connect"
    BY <1>2, <1>3 DEF Calm
  <2>2. \A f \in File :
          Doing(d, f)' \in {"find", "fetch"} <=> Doing(d, f) \in {"find", "fetch"}
    BY <1>4
  <2>. QED
    BY <1>2, <1>5, <1>7, <2>1, <2>2, CalmGoesOn
<1>11. \A e \in Device \ {d} :
         Doing(e, g)' = Doing(e, g) /\ Doing(e, g) \notin {"read", "write", "fetch"}
  <2>. SUFFICES ASSUME NEW e \in Device \ {d}
                PROVE  Doing(e, g)' = Doing(e, g)
                       /\ Doing(e, g) \notin {"read", "write", "fetch"}
    OBVIOUS
  <2>1. net'[e] = net[e]
    BY <1>3
  <2>2. ~(net[e].pc \in {"write", "read"} /\ net[e].event.file = g)
    BY <1>1 DEF Open, CanUse
  <2>3. Doing(e, g)' = Doing(e, g)
    BY <2>1 DEF Doing
  <2>4. Doing(e, g) \in {"read", "write", "fetch"}
          => net[e].pc \in {"write", "read"} /\ net[e].event.file = g
    BY DEF Doing
  <2>. QED
    BY <2>2, <2>3, <2>4
<1>12. /\ Someone(g, {"open", "write", "broadcast"})' /\ Someone(g, {"write"})'
       /\ ~Someone(g, {"read", "fetch"})' /\ Someone(g, {"open", "write"})'
       /\ \A e \in Device : Doing(e, g)' # "fetch"
  BY <1>4, <1>11 DEF Someone
<1>13. Stored(g)' /\ TellsAll(g)'
  BY <1>2, <1>6, <1>12 DEF Stored, TellsAll
<1>14. Carries(d, g)'
  BY <1>2, <1>5, <1>7, <1>8 DEF Carries
<1>15. Handles(d, g)'
  BY <1>2, <1>3, <1>4, <1>5 DEF Handles
<1>16. Knows(d, g)'
  BY <1>2, <1>5, <1>7, <1>8, <1>9, <1>13, KnowsOn
<1>17. ~Idle(g)
  BY <1>4 DEF Idle
<1>. QED
  BY <1>2, <1>5, <1>6, <1>8, <1>10, <1>13, <1>14, <1>15, <1>16, <1>17, StepDone DEF Recent

\* A session writes what was sent.
LEMMA WriteConverges ==
  ASSUME TypeOK, Converges, NEW d \in Device, Write(d)
  PROVE  Converges'
<1>. USE DEF server, device, user
<1>1. PICK g \in File : g = net[d].event.file
  BY OfDevice
<1>2. /\ Calm(d) /\ Carries(d, g) /\ Handles(d, g) /\ Knows(d, g) /\ Stored(g)
      /\ Recent(g) /\ net[d].pc = "write" /\ latest[g] # Empty
  BY OfFile DEF Write
<1>3. /\ net'[d].pc = "broadcast"
      /\ net'[d].event = net[d].event /\ net'[d].for = net[d].for
      /\ net'[d].leaving = net[d].leaving
      /\ \A e \in Device \ {d} : net'[e] = net[e]
  BY OfDevice DEF Write, Goto, TypeOK, NetState
<1>4. /\ \A f \in File \ {g} : Doing(d, f) = "nothing" /\ Doing(d, f)' = "nothing"
      /\ Doing(d, g) = "write" /\ Doing(d, g)' = "broadcast"
  BY <1>1, <1>2, <1>3 DEF Doing
<1>5. UNCHANGED <<sessions, events, dir, known, notices, tasks, main, latest, commands,
                  scene>>
  BY DEF Write
<1>6. /\ store'[g] = latest[g] /\ \A f \in File \ {g} : store'[f] = store[f]
      /\ latest[g] # Absent
  BY <1>1, <1>2, <1>4 DEF Write, TypeOK, Handles
<1>7. Runs(d)
  BY <1>2, <1>4 DEF Calm
<1>8. /\ Elsewhere(d, g) /\ Runs(d)'
      /\ Starting(d)' <=> Starting(d)
      /\ \A f \in File : /\ News(d, f)' = News(d, f)
                         /\ Sightings(d, f)' = Sightings(d, f)
                         /\ Orders(d, f)' = Orders(d, f)
  BY <1>3, <1>4, <1>5, <1>6, <1>7, WorksOn
<1>9. Fetches(d, g)' <=> Fetches(d, g)
  BY <1>4, <1>5, SameStart
<1>10. Calm(d)'
  <2>1. /\ ~net'[d].leaving /\ net'[d].pc \notin {"off", "connect", "apply"}
        /\ net[d].pc # "connect"
    BY <1>2, <1>3 DEF Calm
  <2>2. \A f \in File :
          Doing(d, f)' \in {"find", "fetch"} <=> Doing(d, f) \in {"find", "fetch"}
    BY <1>4
  <2>. QED
    BY <1>2, <1>5, <1>7, <2>1, <2>2, CalmGoesOn
<1>11. \A e \in Device \ {d} : Doing(e, g)' = Doing(e, g)
  BY <1>3 DEF Doing
<1>12. /\ Someone(g, {"open", "write", "broadcast"})'
       /\ Someone(g, {"write"})
       /\ Someone(g, {"read", "fetch"})' => Someone(g, {"read", "fetch"})
       /\ \A e \in Device : Doing(e, g)' = "fetch" => Someone(g, {"read", "fetch"})
  BY <1>4, <1>11 DEF Someone
<1>13. Stored(g)' /\ TellsAll(g)'
  BY <1>2, <1>5, <1>6, <1>12 DEF Stored, TellsAll
<1>14. Carries(d, g)'
  BY <1>2, <1>5, <1>7, <1>8 DEF Carries
<1>15. Handles(d, g)'
  BY <1>2, <1>3, <1>4, <1>5 DEF Handles
<1>16. Knows(d, g)'
  BY <1>2, <1>5, <1>7, <1>8, <1>9, <1>13, KnowsOn
<1>17. ~Idle(g)
  BY <1>4 DEF Idle
<1>. QED
  BY <1>2, <1>5, <1>6, <1>8, <1>10, <1>13, <1>14, <1>15, <1>16, <1>17, StepDone DEF Recent

\* The network thread gets the next event, and may know of it already.
LEMMA NextEventConverges ==
  ASSUME TypeOK, Converges, NEW d \in Device, NextEvent(d)
  PROVE  Converges'
<1>. USE DEF server, device, user
<1>1. events[d] # << >> /\ Head(events[d]) \in Event
  BY FirstEvent DEF NextEvent
<1>2. PICK g \in File : g = Head(events[d]).file
  BY <1>1 DEF Event
<1>3. /\ Head(events[d]) \in News(d, g) /\ News(d, g)' \subseteq News(d, g)
      /\ \A f \in File \ {g} : News(d, f)' = News(d, f)
      /\ \A e \in Device \ {d} : events'[e] = events[e]
  BY <1>1, <1>2, EventTaken DEF NextEvent, TypeOK
<1>4. /\ Calm(d) /\ Carries(d, g) /\ Handles(d, g) /\ Knows(d, g) /\ Stored(g)
      /\ Runs(d) /\ net[d].pc \in {"task", "update"}
  BY OfFile DEF NextEvent, Asks
<1>5. Head(events[d]).type = EventType(latest[g])
  BY <1>3, <1>4 DEF Carries
<1>6. /\ net'[d].pc = (IF latest[g] # Absent THEN "measure" ELSE "drop")
      /\ net'[d].event.file = g /\ net'[d].for = "event"
      /\ net'[d].leaving = net[d].leaving
      /\ \A e \in Device \ {d} : net'[e] = net[e]
  BY <1>2, <1>5, OfDevice DEF NextEvent, TypeOK, NetState, EventType
<1>7. /\ \A f \in File : Doing(d, f) = "nothing"
      /\ \A f \in File \ {g} : Doing(d, f)' = "nothing"
      /\ Doing(d, g)' = (IF latest[g] # Absent THEN "measure" ELSE "drop")
  BY <1>4, <1>6 DEF Doing
<1>8. UNCHANGED <<store, sessions, dir, known, notices, tasks, main, latest, commands,
                  scene>>
  BY DEF NextEvent
<1>9. /\ Runs(d)' /\ (Starting(d)' <=> Starting(d))
      /\ \A f \in File : /\ Listed(d, f)' <=> Listed(d, f)
                         /\ Fetches(d, f)' <=> Fetches(d, f)
      /\ \A f \in File : Sightings(d, f)' = Sightings(d, f) /\ Orders(d, f)' = Orders(d, f)
  BY <1>4, <1>7, <1>8, SameStart, SameQueues
<1>10. Calm(d)'
  <2>1. ~net'[d].leaving /\ net'[d].pc \notin {"off", "connect", "apply"}
    BY <1>4, <1>6 DEF Calm
  <2>2. \A f \in File :
          Doing(d, f)' \in {"find", "fetch"} <=> Doing(d, f) \in {"find", "fetch"}
    BY <1>7
  <2>. QED
    BY <1>4, <1>8, <2>1, <2>2, CalmGoesOn
<1>11. Elsewhere(d, g)
  <2>1. SameUser
    BY <1>8 DEF SameUser
  <2>. QED
    BY <1>3, <1>4, <1>6, <1>7, <1>8, <1>9, <2>1, OthersKept
<1>12. Told(d, g) /\ Told(d, g)' /\ (Wants(d, g)' <=> Wants(d, g))
  BY <1>3, <1>7, <1>8, <1>9 DEF Told, Wants
<1>13. Stored(g)' /\ (TellsAll(g) => TellsAll(g)')
  <2>1. Heard(d, g) /\ (Listed(d, g)' => store[g] # Absent)
    BY <1>4, <1>9, <1>12 DEF Heard, Stored
  <2>2. Doing(d, g)' \notin {"write", "broadcast", "read", "fetch"}
    BY <1>7
  <2>. QED
    BY <1>4, <1>7, <1>8, <1>9, <1>11, <1>12, <2>1, <2>2, StillStored DEF Elsewhere
<1>14. Carries(d, g)'
  BY <1>3, <1>4, <1>8, <1>9 DEF Carries
<1>15. Handles(d, g)'
  BY <1>7, <1>8 DEF Handles
<1>16. Knows(d, g)'
  BY <1>4, <1>8, <1>9, <1>12, <1>13, KnowsOn
<1>17. ~Idle(g)
  BY <1>3, <1>4 DEF Idle
<1>. QED
  BY <1>8, <1>10, <1>11, <1>13, <1>14, <1>15, <1>16, <1>17, QuietStepDone

\* A version that is asked for after an event is the latest; one that is
\* fetched at the start is a whole one.
LEMMA LatestRead ==
  ASSUME TypeOK, AtomicFiles, Converges, NEW d \in Device, NEW g \in File,
         Runs(d), g = net[d].event.file
  PROVE  /\ Doing(d, g) \in {"measure", "read"} =>
              /\ latest[g] # Absent /\ store[g] # Absent
              /\ Doing(d, g) = "read" \/ CanUse(d, g, {"write"}) =>
                   store[g] = latest[g]
         /\ Doing(d, g) \in {"find", "fetch"} => store[g] # Absent
         /\ Doing(d, g) \in {"measure", "find"} /\ CanUse(d, g, {"write"})
              => ~Someone(g, {"write"})
         /\ Doing(d, g) \in {"read", "fetch"} => ~Someone(g, {"write"})
         /\ Doing(d, g) = "fetch" => store[g] # Empty
<1>1. Calm(d) /\ Handles(d, g) /\ Stored(g) /\ Empty # Absent
  BY OfFile
<1>2. Doing(d, g) \in {"measure", "find"} /\ CanUse(d, g, {"write"})
        => ~Someone(g, {"write"})
  BY DEF CanUse, Someone, Doing
<1>3. Doing(d, g) \in {"read", "fetch"} => ~Someone(g, {"write"})
  BY <1>1 DEF Stored, Someone
<1>4. Doing(d, g) \in {"find", "fetch"} => store[g] # Absent
  BY <1>1 DEF Stored, Listed
<1>5. Doing(d, g) = "fetch" => store[g] # Empty
  BY <1>1, <1>3 DEF Stored
<1>6. ASSUME Doing(d, g) \in {"measure", "read"}
      PROVE  /\ latest[g] # Absent /\ store[g] # Absent
             /\ Doing(d, g) = "read" \/ CanUse(d, g, {"write"}) =>
                  store[g] = latest[g]
  <2>1. latest[g] # Absent
    BY <1>1, <1>6 DEF Handles
  <2>2. Learnt(g)
    BY <1>6 DEF Learnt, Heard, Told
  <2>3. store[g] = latest[g] \/ (store[g] # Absent /\ Someone(g, {"write"}))
    BY <1>1, <2>1, <2>2 DEF Stored
  <2>. QED
    BY <1>2, <1>3, <1>6, <2>1, <2>3
<1>. QED
  BY <1>2, <1>3, <1>4, <1>5, <1>6

\* A file of the server's list is asked for.
LEMMA FetchTaskConverges ==
  ASSUME TypeOK, Converges, NEW d \in Device, DownloadTask(d), main[d].pc = "fetching"
  PROVE  Converges'
<1>. USE DEF server, device, user
<1>1. Calm(d) /\ Runs(d) /\ net[d].pc = "task" /\ tasks[d] # << >>
  BY DEF Converges, DownloadTask, Takes
<1>2. /\ Tail(tasks[d]) = << >> /\ Head(tasks[d]).type = "fetch"
      /\ tasks[d] \in Seq(Task) /\ Head(tasks[d]) \in Task
  BY <1>1, OfDevice DEF Calm
<1>3. PICK g \in File : g = Head(tasks[d]).file
  BY <1>2 DEF Task
<1>4. Takes(d, "fetch") /\ UNCHANGED <<store, sessions, events, dir, known, notices, main,
                                      latest, commands, scene>>
  BY <1>2 DEF DownloadTask, Takes
<1>5. /\ net'[d].pc = "measure" /\ net'[d].for = "fetch"
      /\ net'[d].event.file = g /\ net'[d].leaving = net[d].leaving
      /\ \A e \in Device \ {d} : net'[e] = net[e]
  BY <1>2, <1>3, OfDevice DEF DownloadTask, Takes, TypeOK, NetState
<1>6. /\ \A f \in File : Doing(d, f) = "nothing"
      /\ \A f \in File \ {g} : Doing(d, f)' = "nothing"
      /\ Doing(d, g)' = "find"
  BY <1>1, <1>5 DEF Doing
<1>7. /\ tasks'[d] = << >> /\ \A e \in Device \ {d} : tasks'[e] = tasks[e]
      /\ \A f \in File : Orders(d, f)' = Orders(d, f)
      /\ Items(tasks[d]) = {Head(tasks[d])}
  <2>1. /\ \A e \in Device \ {d} : tasks'[e] = tasks[e]
        /\ \A f \in File : Orders(d, f)' = Orders(d, f)
    BY <1>4, TaskTaken
  <2>2. tasks'[d] = Tail(tasks[d])
    BY <1>4 DEF Takes, TypeOK
  <2>3. Items(tasks[d]) = {Head(tasks[d])} \cup Items(Tail(tasks[d]))
    BY <1>1, <1>2, ItemsTail
  <2>. QED
    BY <1>2, <2>1, <2>2, <2>3, ItemsEmpty
<1>8. Runs(d)' /\ Starting(d)' /\ Starting(d)
  BY <1>1, <1>4 DEF Runs, Starting
<1>9. \A f \in File : /\ Listed(d, f)' <=> Listed(d, f)
                      /\ Fetches(d, f)' <=> Fetches(d, f)
  <2>1. Items(tasks[d])' = {}
    BY <1>7, ItemsEmpty DEF Items
  <2>2. Listed(d, g) /\ Listed(d, g)'
    BY <1>2, <1>3, <1>6, <1>7 DEF Listed
  <2>3. \A f \in File \ {g} : Listed(d, f)' <=> Listed(d, f)
    BY <1>3, <1>4, <1>6, <1>7, <2>1 DEF Listed
  <2>. QED
    BY <1>4, <2>2, <2>3 DEF Fetches
<1>10. \A f \in File : News(d, f)' = News(d, f) /\ Sightings(d, f)' = Sightings(d, f)
  BY <1>4, SameQueues
<1>11. Elsewhere(d, g)
  <2>1. SameUser
    BY <1>4 DEF SameUser
  <2>. QED
    BY <1>1, <1>4, <1>5, <1>6, <1>7, <1>8, <1>9, <1>10, <2>1, OthersKept
<1>12. Calm(d)'
  <2>1. main[d].pc = "fetching" /\ main'[d] = main[d] /\ ~net'[d].leaving
    BY <1>1, <1>4, <1>5 DEF Calm
  <2>. QED
    BY <1>1, <1>4, <1>5, <1>6, <1>7, <1>8, <2>1 DEF Calm, Runs, Starting, Removes
<1>13. /\ Carries(d, g) /\ Handles(d, g) /\ Knows(d, g) /\ Stored(g) /\ Virgin(g)
  BY OfFile
<1>14. /\ Told(d, g)' <=> Told(d, g)
       /\ Wants(d, g)' <=> Wants(d, g)
       /\ Heard(d, g)' <=> Heard(d, g)
  BY <1>4, <1>6, <1>7, <1>10 DEF Told, Wants, Heard
<1>15. Stored(g)' /\ (TellsAll(g) => TellsAll(g)')
  <2>1. Listed(d, g)' => store[g] # Absent
    BY <1>1, <1>9, <1>13 DEF Stored
  <2>2. Doing(d, g)' \notin {"write", "broadcast", "read", "fetch"}
    BY <1>6
  <2>. QED
    BY <1>1, <1>4, <1>6, <1>8, <1>11, <1>13, <1>14, <2>1, <2>2, StillStored DEF Elsewhere
<1>16. Carries(d, g)'
  BY <1>1, <1>4, <1>7, <1>10, <1>13 DEF Carries
<1>17. Handles(d, g)'
  BY <1>6 DEF Handles
<1>18. Knows(d, g)'
  BY <1>1, <1>4, <1>8, <1>9, <1>10, <1>13, <1>14, <1>15, KnowsOn
<1>19. Virgin(g)'
  <2>1. Idle(g) => Idle(g)'
    <3>1. \A e \in Device \ {d} : Kept(e, g)
      BY <1>11, KeptDevice DEF Elsewhere, Apart
    <3>. QED
      BY <1>1, <1>4, <1>6, <1>7, <1>8, <1>10, <3>1 DEF Idle, Kept
  <2>2. \A e \in Device : Runs(e)' => Runs(e)
    BY <1>4 DEF Runs
  <2>. QED
    BY <1>4, <1>13, <2>1, <2>2 DEF Virgin, Removes
<1>. QED
  BY <1>4, <1>11, <1>12, <1>15, <1>16, <1>17, <1>18, <1>19, QuietStepDone

\* A session measures the file that a device downloads.
LEMMA MeasureConverges ==
  ASSUME TypeOK, AtomicFiles, Converges, NEW d \in Device, Measure(d),
         net[d].for \in {"event", "fetch"}
  PROVE  Converges'
<1>. USE DEF server, device, user
<1>1. PICK g \in File : g = net[d].event.file
  BY OfDevice
<1>2. /\ Calm(d) /\ Carries(d, g) /\ Handles(d, g) /\ Knows(d, g) /\ Stored(g)
      /\ Virgin(g) /\ Runs(d) /\ net[d].pc = "measure"
  BY OfFile DEF Measure
<1>3. /\ net'[d].pc = "read" /\ net'[d].linked /\ net'[d].seen = store[g]
      /\ net'[d].event = net[d].event /\ net'[d].for = net[d].for
      /\ net'[d].leaving = net[d].leaving
      /\ \A e \in Device \ {d} : net'[e] = net[e]
  BY <1>1, OfDevice DEF Measure, TypeOK, NetState
<1>4. /\ \A f \in File \ {g} : Doing(d, f) = "nothing" /\ Doing(d, f)' = "nothing"
      /\ \/ Doing(d, g) = "measure" /\ Doing(d, g)' = "read"
         \/ Doing(d, g) = "find" /\ Doing(d, g)' = "fetch"
  BY <1>1, <1>2, <1>3 DEF Doing
<1>5. UNCHANGED <<store, sessions, events, dir, known, notices, tasks, main, latest,
                  commands, scene>>
  BY DEF Measure
<1>6. ~Someone(g, {"write"}) /\ (Doing(d, g)' = "read" => store[g] = latest[g])
  BY <1>1, <1>2, <1>4, LatestRead DEF Measure
<1>7. /\ Elsewhere(d, g) /\ Runs(d)'
      /\ Starting(d)' <=> Starting(d)
      /\ \A f \in File : /\ News(d, f)' = News(d, f)
                         /\ Sightings(d, f)' = Sightings(d, f)
                         /\ Orders(d, f)' = Orders(d, f)
  BY <1>2, <1>3, <1>4, <1>5, WorksOn
<1>8. \A f \in File : /\ Doing(d, f)' \in {"find", "fetch"}
                           <=> Doing(d, f) \in {"find", "fetch"}
                      /\ Listed(d, f)' <=> Listed(d, f)
                      /\ Fetches(d, f)' <=> Fetches(d, f)
  BY <1>4, <1>5, SameQueues DEF Listed, Fetches
<1>9. Calm(d)'
  <2>1. ~net'[d].leaving
    BY <1>2, <1>3 DEF Calm
  <2>. QED
    BY <1>2, <1>3, <1>5, <1>8, <2>1, CalmGoesOn
<1>10. /\ Told(d, g)' <=> Told(d, g)
       /\ Wants(d, g)' <=> Wants(d, g)
       /\ Heard(d, g)' <=> Heard(d, g)
  BY <1>4, <1>5, <1>7 DEF Told, Wants, Heard
<1>11. Stored(g)' /\ (TellsAll(g) => TellsAll(g)')
  <2>1. Listed(d, g)' => store[g] # Absent
    BY <1>2, <1>8 DEF Stored
  <2>. QED
    BY <1>2, <1>3, <1>4, <1>5, <1>6, <1>7, <1>10, <2>1, StillStored DEF Elsewhere
<1>12. Carries(d, g)'
  BY <1>2, <1>5, <1>7 DEF Carries
<1>13. Handles(d, g)'
  BY <1>2, <1>3, <1>4, <1>5, <1>6 DEF Handles
<1>14. Knows(d, g)'
  BY <1>2, <1>5, <1>7, <1>8, <1>10, <1>11, KnowsOn
<1>15. Virgin(g)' \/ ~Idle(g)
  <2>1. ASSUME Idle(g) PROVE Idle(g)'
    <3>1. \A e \in Device \ {d} : Kept(e, g)
      BY <1>7, KeptDevice DEF Elsewhere, Apart
    <3>2. Doing(d, g)' = "fetch"
      BY <1>4, <2>1 DEF Idle
    <3>. QED
      BY <1>2, <1>5, <1>7, <2>1, <3>1, <3>2 DEF Idle, Kept
  <2>2. \A e \in Device : Runs(e)' => Runs(e)
    BY <1>5 DEF Runs
  <2>. QED
    BY <1>2, <1>5, <2>1, <2>2 DEF Virgin, Removes
<1>. QED
  BY <1>5, <1>7, <1>9, <1>11, <1>12, <1>13, <1>14, <1>15, QuietStepDone

\* A session sends the file that an event told the device of.
LEMMA ReadConverges ==
  ASSUME TypeOK, AtomicFiles, Converges, NEW d \in Device, Read(d),
         net[d].for = "event"
  PROVE  Converges'
<1>. USE DEF server, device, user
<1>1. PICK g \in File : g = net[d].event.file
  BY OfDevice
<1>2. /\ Calm(d) /\ Carries(d, g) /\ Handles(d, g) /\ Knows(d, g) /\ Stored(g)
      /\ Runs(d) /\ net[d].pc = "read" /\ latest[g] # Empty
  BY OfFile DEF Read
<1>3. Doing(d, g) = "read" /\ \A f \in File \ {g} : Doing(d, f) = "nothing"
  BY <1>1, <1>2 DEF Doing
<1>4. latest[g] # Absent /\ store[g] = latest[g]
  BY <1>1, <1>2, <1>3, LatestRead
<1>5. (IF net[d].seen = Empty THEN Empty ELSE Contents(d)) = latest[g]
  BY <1>1, <1>2, <1>3, <1>4 DEF Handles, Contents
<1>6. /\ net'[d].pc = "apply" /\ net'[d].buf = latest[g]
      /\ net'[d].event = net[d].event /\ net'[d].for = "event"
      /\ net'[d].leaving = net[d].leaving
      /\ \A e \in Device \ {d} : net'[e] = net[e]
  BY <1>5, OfDevice DEF Read, TypeOK, NetState
<1>7. /\ \A f \in File \ {g} : Doing(d, f)' = "nothing"
      /\ Doing(d, g)' = "apply"
  BY <1>1, <1>6 DEF Doing
<1>8. UNCHANGED <<store, sessions, events, dir, known, notices, tasks, main, latest,
                  commands, scene>>
  BY DEF Read
<1>9. /\ Elsewhere(d, g) /\ Runs(d)'
      /\ Starting(d)' <=> Starting(d)
      /\ \A f \in File : /\ News(d, f)' = News(d, f)
                         /\ Sightings(d, f)' = Sightings(d, f)
                         /\ Orders(d, f)' = Orders(d, f)
  BY <1>2, <1>3, <1>6, <1>7, <1>8, WorksOn
<1>10. /\ Listed(d, g)' <=> Listed(d, g)
       /\ Fetches(d, g)' <=> Fetches(d, g)
  BY <1>3, <1>7, <1>8, SameStart
<1>11. Calm(d)'
  <2>1. ~net'[d].leaving
    BY <1>2, <1>6 DEF Calm
  <2>2. \A f \in File :
          Doing(d, f)' \in {"find", "fetch"} <=> Doing(d, f) \in {"find", "fetch"}
    BY <1>3, <1>7
  <2>. QED
    BY <1>2, <1>6, <1>8, <2>1, <2>2, CalmGoesOn
<1>12. /\ Told(d, g)' <=> Told(d, g)
       /\ Wants(d, g)' <=> Wants(d, g)
       /\ Heard(d, g)' <=> Heard(d, g)
  BY <1>3, <1>7, <1>8, <1>9 DEF Told, Wants, Heard
<1>13. Stored(g)' /\ (TellsAll(g) => TellsAll(g)')
  <2>1. Listed(d, g)' => store[g] # Absent
    BY <1>2, <1>10 DEF Stored
  <2>. QED
    BY <1>2, <1>3, <1>7, <1>8, <1>9, <1>12, <2>1, StillStored DEF Elsewhere
<1>14. Carries(d, g)'
  BY <1>2, <1>8, <1>9 DEF Carries
<1>15. Handles(d, g)'
  BY <1>4, <1>6, <1>7, <1>8 DEF Handles
<1>16. Knows(d, g)'
  BY <1>2, <1>8, <1>9, <1>10, <1>12, <1>13, KnowsOn
<1>17. ~Idle(g)
  BY <1>3 DEF Idle
<1>. QED
  BY <1>8, <1>9, <1>11, <1>13, <1>14, <1>15, <1>16, <1>17, QuietStepDone

\* Nothing is missing, or cut, while it is read.
LEMMA NeverMissing ==
  ASSUME TypeOK, AtomicFiles, Converges, NEW d \in Device,
         net[d].for \in {"event", "fetch"}
  PROVE  ~NoFile(d) /\ ~ReadForever(d)
<1>1. PICK g \in File : g = net[d].event.file
  BY OfDevice
<1>2. /\ Calm(d) /\ Handles(d, g) /\ latest[g] # Empty
  BY OfFile
<1>3. net[d].pc \in {"measure", "read"}
        => Runs(d) /\ Doing(d, g) \in {"measure", "read", "find", "fetch"}
  BY <1>1, <1>2 DEF Calm, Doing
<1>4. ~NoFile(d)
  BY <1>1, <1>3, LatestRead DEF NoFile
<1>5. ~ReadForever(d)
  <2>. SUFFICES ASSUME ReadForever(d) PROVE FALSE
    OBVIOUS
  <2>1. Runs(d) /\ Doing(d, g) \in {"read", "fetch"}
    BY <1>1, <1>3 DEF ReadForever, Doing
  <2>2. store[g] # Empty
    BY <1>1, <1>2, <2>1, LatestRead
  <2>. QED
    BY <1>1, <1>2, <2>1, <2>2 DEF Handles, Contents, ReadForever
<1>. QED
  BY <1>4, <1>5

\* A file of the server's list arrives.  When it is not the latest version,
\* somebody is about to send that.
LEMMA FetchedConverges ==
  ASSUME TypeOK, AtomicFiles, Converges, NEW d \in Device, Read(d),
         net[d].for = "fetch"
  PROVE  Converges'
<1>. USE DEF server, device, user
<1>1. PICK g \in File : g = net[d].event.file
  BY OfDevice
<1>2. /\ Calm(d) /\ Carries(d, g) /\ Handles(d, g) /\ Knows(d, g) /\ Stored(g)
      /\ Recent(g) /\ Virgin(g)
      /\ Runs(d) /\ net[d].pc = "read" /\ Absent # Unknown /\ latest[g] # Unknown
  BY OfFile DEF Read
<1>3. Doing(d, g) = "fetch" /\ \A f \in File \ {g} : Doing(d, f) = "nothing"
  BY <1>1, <1>2 DEF Doing
<1>4. /\ main[d].pc = "fetching" /\ tasks[d] = << >> /\ notices[d] = << >>
      /\ ~Removes /\ Starting(d)
  <2>1. main[d].pc = "fetching"
    BY <1>2, <1>3 DEF Calm
  <2>. QED
    BY <1>2, <1>3, <2>1 DEF Calm, Starting
<1>5. store[g] \notin {Absent, Empty} /\ ~Someone(g, {"write"})
  BY <1>1, <1>2, <1>3, LatestRead
<1>6. (IF net[d].seen = Empty THEN Empty ELSE Contents(d)) = store[g]
  BY <1>1, <1>2, <1>3, <1>5 DEF Handles, Stored, Contents
<1>7. /\ net'[d].pc = "update" /\ net'[d].event = net[d].event
      /\ net'[d].for = "fetch" /\ net'[d].leaving = net[d].leaving
      /\ \A e \in Device \ {d} : net'[e] = net[e]
  BY <1>6, OfDevice DEF Read, TypeOK, NetState
<1>8. \A f \in File : Doing(d, f)' = "nothing"
  BY <1>7 DEF Doing
<1>9. /\ UNCHANGED <<store, sessions, events, known, tasks, latest, commands, scene>>
      /\ Put(d, g, store[g]) /\ main' = [main EXCEPT ![d] = Fetched(@)]
  BY <1>1, <1>6 DEF Read
<1>10. /\ main'[d].pc = "fetch" /\ main'[d].todo = main[d].todo
       /\ \A e \in Device \ {d} : main'[e] = main[e]
  BY <1>9, OfDevice DEF Fetched, TypeOK, MainState
<1>11. /\ notices' = notices /\ dir'[d][g] = store[g]
       /\ \A f \in File \ {g} : dir'[d][f] = dir[d][f]
       /\ \A e \in Device \ {d} : dir'[e] = dir[e]
  <2>1. ~Watches(d)
    BY <1>4 DEF Watches
  <2>. QED
    BY <1>9, <2>1, OfDevice DEF Put, TypeOK
<1>12. /\ Runs(d)'
       /\ \A f \in File : /\ News(d, f)' = News(d, f)
                          /\ Sightings(d, f)' = {} /\ Sightings(d, f) = {}
                          /\ Orders(d, f)' = {} /\ Orders(d, f) = {}
       /\ Items(tasks[d]) = {} /\ Items(tasks[d])' = {}
  <2>1. Runs(d)'
    BY <1>10 DEF Runs
  <2>2. Items(notices[d]) = {} /\ Items(tasks[d]) = {}
        /\ Items(notices[d])' = {} /\ Items(tasks[d])' = {}
    BY <1>4, <1>9, <1>11, ItemsEmpty DEF Items
  <2>. QED
    BY <1>9, <2>1, <2>2, SameQueues DEF Sightings, Orders
<1>13. \A f \in File \ {g} : /\ Listed(d, f)' <=> Listed(d, f)
                             /\ Fetches(d, f)' <=> Fetches(d, f)
  BY <1>3, <1>4, <1>8, <1>10, <1>12 DEF Listed, Fetches
<1>14. Elsewhere(d, g)
  <2>1. SameUser
    BY <1>9 DEF SameUser
  <2>. QED
    BY <1>2, <1>3, <1>4, <1>7, <1>8, <1>9, <1>10, <1>11, <1>12, <1>13, <2>1, OthersKept
<1>15. Calm(d)'
  <2>1. /\ Runs(d)' /\ main'[d].pc = "fetch" /\ tasks'[d] = << >>
        /\ notices'[d] = << >> /\ ~net'[d].leaving /\ net'[d].pc = "update"
        /\ sessions'[d] > 0
    BY <1>2, <1>4, <1>7, <1>9, <1>10, <1>11, <1>12 DEF Calm
  <2>. QED
    BY <1>4, <1>8, <1>9, <1>12, <2>1 DEF Calm, Removes
<1>16. ~Told(d, g)' <=> ~Told(d, g)
  BY <1>3, <1>8, <1>12 DEF Told
<1>17. /\ Wants(d, g)' <=> Wants(d, g)
       /\ Heard(d, g)' <=> Heard(d, g)
  BY <1>9, <1>12, <1>16 DEF Wants, Heard
<1>18. Stored(g)' /\ (TellsAll(g) => TellsAll(g)')
  BY <1>2, <1>3, <1>5, <1>8, <1>9, <1>12, <1>14, <1>17, StillStored DEF Elsewhere
<1>19. Carries(d, g)'
  BY <1>2, <1>9, <1>12 DEF Carries
<1>20. Handles(d, g)'
  BY <1>8 DEF Handles
<1>21. \/ store[g] = latest[g]
       \/ TellsAll(g)' /\ known[d][g]["network"] # Mark(latest[g])
  <2>1. ASSUME store[g] # latest[g] PROVE TellsAll(g)
    BY <1>2, <1>5, <2>1 DEF Stored, TellsAll, Someone
  <2>2. ASSUME store[g] # latest[g]
        PROVE  known[d][g]["network"] # Mark(latest[g])
    <3>1. latest[g] # Absent
      BY <1>2, <1>4, <1>5, <2>2 DEF Virgin, Idle, First
    <3>2. ~Learnt(g)
      BY <1>2, <1>5, <2>2, <3>1 DEF Stored
    <3>. QED
      BY <1>2, <3>1, <3>2 DEF Learnt, Heard, Mark
  <2>. QED
    BY <1>18, <2>1, <2>2
<1>22. Knows(d, g)'
  <2>1. known[d][g]["network"] \in {Unknown, Mark(latest[g])}
        /\ known[d][g]["inotify"] = Unknown
    BY <1>2, <1>4 DEF Knows
  <2>2. Has(d, g, "network")' \/ TellsAll(g)'
    BY <1>4, <1>9, <1>11, <1>21, <2>1 DEF Has, Removes
  <2>3. dir'[d][g] = latest[g] => Has(d, g, "inotify")'
    BY <1>4, <1>9, <2>1 DEF Has, Removes
  <2>. QED
    BY <1>9, <1>11, <1>21, <2>1, <2>2, <2>3 DEF Knows
<1>23. Virgin(g)'
  <2>1. Idle(g) => Idle(g)'
    <3>1. \A e \in Device \ {d} : Kept(e, g)
      BY <1>14, KeptDevice DEF Elsewhere, Apart
    <3>. QED
      BY <1>2, <1>4, <1>8, <1>9, <1>12, <3>1 DEF Idle, Kept
  <2>2. \A e \in Device \ {d} : Runs(e)' => Runs(e)
    BY <1>10 DEF Runs
  <2>. QED
    BY <1>2, <1>5, <1>9, <1>11, <2>1, <2>2 DEF Virgin, Removes, Idle
<1>24. dir'[d][g] \in Version /\ store'[g] \in Version \cup {Empty}
       /\ \A k \in Key : known'[d][g][k] \in Version \cup {Unknown}
  BY <1>2, <1>5, <1>9, <1>11 DEF Recent
<1>. QED
  BY <1>14, <1>15, <1>18, <1>19, <1>20, <1>22, <1>23, <1>24, StepDone

\* A file is deleted: who else has to do with it is told by the broadcast.
LEMMA DeleteConverges ==
  ASSUME TypeOK, Converges, NEW d \in Device, DeleteTask(d)
  PROVE  Converges'
<1>. USE DEF server, device, user
<1>1. PICK g \in File : g = Head(tasks[d]).file
  BY FirstTask DEF DeleteTask, Takes
<1>2. /\ Head(tasks[d]) \in Orders(d, g) /\ Head(tasks[d]).type = "delete"
      /\ Items(tasks[d])' \subseteq Items(tasks[d])
      /\ Orders(d, g)' \subseteq Orders(d, g)
      /\ \A f \in File \ {g} : Orders(d, f)' = Orders(d, f)
      /\ \A e \in Device \ {d} : tasks'[e] = tasks[e]
  BY <1>1, TaskTaken DEF DeleteTask
<1>3. /\ Calm(d) /\ Carries(d, g) /\ Handles(d, g) /\ Knows(d, g) /\ Stored(g)
      /\ Virgin(g) /\ Runs(d) /\ net[d].pc = "task"
  BY OfFile DEF DeleteTask, Takes
<1>4. latest[g] = Absent
  BY <1>2, <1>3 DEF Carries
<1>5. /\ store'[g] = Absent /\ \A f \in File \ {g} : store'[f] = store[f]
      /\ UNCHANGED <<sessions, events, dir, known, notices, main, latest, commands, scene>>
  BY <1>1 DEF DeleteTask, TypeOK
<1>6. /\ net'[d].pc = (IF store[g] = Absent THEN "update" ELSE "broadcast")
      /\ store[g] # Absent => net'[d].event = [type |-> "deleted", file |-> g]
      /\ net'[d].for = net[d].for /\ net'[d].leaving = net[d].leaving
  BY <1>1, OfDevice DEF DeleteTask, TypeOK, NetState
<1>7. \A e \in Device \ {d} :
        /\ net'[e].pc = net[e].pc /\ net'[e].event = net[e].event
        /\ net'[e].for = net[e].for /\ net'[e].leaving = net[e].leaving
        /\ net'[e].sent = net[e].sent /\ net'[e].seen = net[e].seen
        /\ net'[e].buf = net[e].buf
        /\ net[e].event.file # g => net'[e].linked = net[e].linked
  BY <1>1, OfDevice DEF DeleteTask, TypeOK, NetState
<1>8. /\ \A f \in File : Doing(d, f) = "nothing"
      /\ \A f \in File \ {g} : Doing(d, f)' = "nothing"
      /\ Doing(d, g)' = (IF store[g] = Absent THEN "nothing" ELSE "broadcast")
  BY <1>3, <1>6 DEF Doing
<1>9. \A e \in Device, f \in File :
        /\ News(e, f)' = News(e, f) /\ Sightings(e, f)' = Sightings(e, f)
        /\ Runs(e)' <=> Runs(e)
        /\ Starting(e)' <=> Starting(e)
  BY <1>5, SameQueues DEF Runs, Starting
<1>10. Removes /\ Removes'
  <2>1. ~Idle(g)
    BY <1>2, <1>3 DEF Idle
  <2>. QED
    BY <1>3, <1>4, <1>5, <2>1 DEF Virgin, First, Removes
<1>11. ASSUME NEW e \in Device
       PROVE  /\ Calm(e) /\ (Runs(e) => Watches(e)) /\ ~Starting(e)
              /\ \A f \in File : Doing(e, f) \notin {"find", "fetch"}
              /\ \A f \in File : Runs(e) => ~Listed(e, f) /\ ~Fetches(e, f)
  <2>1. Calm(e) /\ main[e] \in MainState
    BY OfFile, OfDevice
  <2>2. ~Starting(e)
    BY <1>10, <2>1 DEF Calm
  <2>3. Runs(e) => Watches(e)
    BY <2>1, <2>2 DEF Runs, Watches, Starting, MainState
  <2>4. \A f \in File : Doing(e, f) \notin {"find", "fetch"}
    BY <2>1, <2>2 DEF Calm, Starting
  <2>. QED
    BY <2>1, <2>2, <2>3, <2>4, WatchesAll
<1>12. ASSUME NEW e \in Device
       PROVE  /\ \A f \in File : (Listed(e, f)' => Listed(e, f))
              /\ e # d => \A f \in File : Doing(e, f)' = Doing(e, f)
              /\ e # d => \A f \in File : /\ Listed(e, f)' <=> Listed(e, f)
                                          /\ Fetches(e, f)' <=> Fetches(e, f)
  <2>1. e # d => \A f \in File : Doing(e, f)' = Doing(e, f)
    BY <1>7 DEF Doing
  <2>2. \A f \in File : Doing(e, f)' \notin {"find", "fetch"}
    BY <1>8, <1>11, <2>1
  <2>3. /\ main'[e] = main[e] /\ Items(tasks[e])' \subseteq Items(tasks[e])
        /\ e # d => Items(tasks[e])' = Items(tasks[e])
    BY <1>2, <1>5, SameQueues
  <2>. QED
    BY <1>11, <2>1, <2>2, <2>3 DEF Listed, Fetches
<1>13. \A e \in Device \ {d}, f \in File : Kept(e, f)
  <2>. SUFFICES ASSUME NEW e \in Device \ {d}, NEW f \in File PROVE Kept(e, f)
    OBVIOUS
  <2>1. Doing(e, f) \in {"write", "read", "fetch"}
          => net[e].event.file = f /\ latest[f] # Absent
    BY <1>11, OfFile DEF Doing, Handles
  <2>2. Orders(e, f)' = Orders(e, f)
    BY <1>2, SameQueues
  <2>. QED
    BY <1>4, <1>5, <1>7, <1>9, <1>12, <2>1, <2>2 DEF Kept
<1>14. ASSUME NEW f \in File \ {g} PROVE Kept(d, f)
  <2>1. ~Listed(d, f)' /\ ~Fetches(d, f)' /\ ~Listed(d, f) /\ ~Fetches(d, f)
    BY <1>3, <1>5, <1>11, <1>12 DEF Fetches
  <2>. QED
    BY <1>2, <1>5, <1>8, <1>9, <2>1 DEF Kept
<1>15. SameUser
  BY <1>5 DEF SameUser
<1>16. ASSUME NEW e \in Device PROVE Calm(e)'
  <2>1. CASE e = d
    <3>1. \A t \in Items(tasks[d])' : t.type # "fetch"
      BY <1>2, <1>3, <1>11, WatchesAll
    <3>2. ~net'[d].leaving /\ net'[d].pc \notin {"off", "connect", "apply"}
      BY <1>3, <1>6 DEF Calm
    <3>3. \A f \in File :
            Doing(d, f)' \in {"find", "fetch"} <=> Doing(d, f) \in {"find", "fetch"}
      BY <1>8
    <3>. QED
      BY <1>3, <1>5, <1>11, <2>1, <3>1, <3>2, <3>3, CalmGoesOn
  <2>2. CASE e # d
    <3>1. tasks'[e] = tasks[e] /\ Items(tasks[e])' = Items(tasks[e])
      BY <1>2, <2>2, SameQueues
    <3>2. Off(e)' <=> Off(e)
      BY <1>5, <3>1 DEF Off
    <3>. QED
      BY <1>5, <1>7, <1>9, <1>11, <1>12, <2>2, <3>1, <3>2 DEF Calm, Removes
  <2>. QED
    BY <2>1, <2>2
<1>17. \A e \in Device \ {d} : Doing(e, g)' = Doing(e, g)
  BY <1>13 DEF Kept
<1>18. /\ Someone(g, {"open", "write", "broadcast"})
            => Someone(g, {"open", "write", "broadcast"})'
       /\ store[g] # Absent => Someone(g, {"open", "write", "broadcast"})'
       /\ Someone(g, {"write"})' => Someone(g, {"write"})
       /\ Someone(g, {"read", "fetch"})' => Someone(g, {"read", "fetch"})
  BY <1>8, <1>17 DEF Someone
<1>19. Stored(g)'
  <2>1. \A e \in Device : (Runs(e)' => ~Listed(e, g)') /\ Doing(e, g)' # "fetch"
    BY <1>8, <1>9, <1>11, <1>12
  <2>2. store'[g] # Empty
    BY <1>5, OfFile
  <2>. QED
    BY <1>3, <1>4, <1>5, <1>18, <2>1, <2>2 DEF Stored
<1>20. TellsAll(g) => TellsAll(g)'
  BY <1>4, <1>18 DEF TellsAll
<1>21. Carries(d, g)'
  BY <1>2, <1>3, <1>5, <1>9 DEF Carries
<1>22. Handles(d, g)'
  BY <1>4, <1>5, <1>6, <1>8 DEF Handles, EventType
<1>23. Knows(d, g)'
  <2>1. Told(d, g) => Told(d, g)'
    BY <1>8, <1>9 DEF Told
  <2>2. ~Fetches(d, g)
    BY <1>3, <1>11
  <2>. QED
    BY <1>3, <1>5, <1>9, <1>20, <2>1, <2>2, KnowsOn
<1>24. FileRight(g)'
  <2>1. FileRight(g) /\ Virgin(g)'
    BY <1>10 DEF Converges, Virgin
  <2>2. /\ store'[g] \in Version \cup {Empty} /\ dir'[d][g] \in Version
        /\ \A k \in Key : known'[d][g][k] \in Version \cup {Unknown}
    BY <1>4, <1>5, OfFile
  <2>. QED
    BY <1>13, <1>15, <1>19, <1>20, <1>21, <1>22, <1>23, <2>1, <2>2, OneDevice
<1>25. \A f \in File \ {g} : FileRight(f)'
  BY <1>5, <1>13, <1>14, KeptFile DEF Converges
<1>. QED
  BY <1>16, <1>24, <1>25 DEF Converges

\* A session tells every device of an upload or a delete.
LEMMA BroadcastConverges ==
  ASSUME TypeOK, Converges, NEW d \in Device, Broadcast(d)
  PROVE  Converges'
<1>. USE DEF server, device, user
<1>1. PICK g \in File : g = net[d].event.file
  BY OfDevice
<1>2. /\ Calm(d) /\ Handles(d, g) /\ Stored(g) /\ Recent(g) /\ Virgin(g)
      /\ net[d].pc = "broadcast"
  BY OfFile DEF Broadcast
<1>3. /\ net'[d].pc = "update" /\ net'[d].for = net[d].for
      /\ net'[d].leaving = net[d].leaving
      /\ \A e \in Device \ {d} : net'[e] = net[e]
  BY OfDevice DEF Broadcast, Goto, TypeOK, NetState
<1>4. UNCHANGED <<store, sessions, dir, known, notices, tasks, main, latest, commands,
                  scene>>
  BY DEF Broadcast
<1>5. /\ \A f \in File \ {g} : Doing(d, f) = "nothing"
      /\ \A f \in File : Doing(d, f)' = "nothing"
      /\ Doing(d, g) = "broadcast"
      /\ \A e \in Device \ {d}, f \in File : Doing(e, f)' = Doing(e, f)
  BY <1>1, <1>2, <1>3 DEF Doing
<1>. DEFINE v == net[d].event
<1>6. v \in Event /\ v.file = g /\ v.type = EventType(latest[g]) /\ Runs(d)
  BY <1>1, <1>2, <1>5, OfDevice DEF Handles, Calm
<1>7. ASSUME NEW e \in Device
      PROVE  /\ \A f \in File \ {g} : News(e, f)' = News(e, f)
             /\ News(e, g)' \subseteq News(e, g) \cup {v}
             /\ sessions[e] > 0 => News(e, g)' # {}
             /\ News(e, g) # {} => News(e, g)' # {}
             /\ sessions[e] <= 0 => events'[e] = events[e]
  <2>1. /\ events'[e] = IF sessions[e] > 0 THEN Append(events[e], v) ELSE events[e]
        /\ events[e] \in Seq(Event) /\ sessions[e] \in Nat
    BY OfDevice DEF Broadcast, TypeOK
  <2>. HIDE DEF v
  <2>2. Items(Append(events[e], v)) = Items(events[e]) \cup {v}
    BY <1>6, <2>1, ItemsAppend
  <2>3. Items(events[e])' =
          IF sessions[e] > 0 THEN Items(events[e]) \cup {v} ELSE Items(events[e])
    BY <2>1, <2>2
  <2>. QED
    BY <1>6, <2>1, <2>3 DEF News
<1>. HIDE DEF v
<1>8. \A e \in Device :
        /\ \A f \in File : /\ Sightings(e, f)' = Sightings(e, f)
                           /\ Orders(e, f)' = Orders(e, f)
                           /\ Listed(e, f)' <=> Listed(e, f)
                           /\ Fetches(e, f)' <=> Fetches(e, f)
        /\ Runs(e)' <=> Runs(e)
        /\ Starting(e)' <=> Starting(e)
  <2>. SUFFICES ASSUME NEW e \in Device
                PROVE  /\ \A f \in File : /\ Sightings(e, f)' = Sightings(e, f)
                                          /\ Orders(e, f)' = Orders(e, f)
                                          /\ Listed(e, f)' <=> Listed(e, f)
                                          /\ Fetches(e, f)' <=> Fetches(e, f)
                       /\ Runs(e)' <=> Runs(e)
                       /\ Starting(e)' <=> Starting(e)
    OBVIOUS
  <2>1. \A f \in File : Doing(e, f)' = Doing(e, f)
                        \/ /\ Doing(e, f) \notin {"find", "fetch"}
                           /\ Doing(e, f)' \notin {"find", "fetch"}
    BY <1>5
  <2>. QED
    BY <1>4, <2>1, SameStart, SameQueues
<1>9. ASSUME NEW f \in File \ {g} PROVE FileRight(f)'
  <2>1. ASSUME NEW e \in Device PROVE Kept(e, f)
    <3>1. Doing(e, f)' = Doing(e, f)
      BY <1>5
    <3>2. Doing(e, f) # "nothing" => net'[e] = net[e]
      BY <1>3, <1>5
    <3>. QED
      BY <1>4, <1>7, <1>8, <3>1, <3>2 DEF Kept
  <2>. QED
    BY <1>4, <2>1, KeptFile DEF Converges
<1>10. ASSUME NEW e \in Device PROVE Calm(e)'
  <2>1. CASE e = d
    <3>1. \A f \in File :
            Doing(d, f)' \in {"find", "fetch"} <=> Doing(d, f) \in {"find", "fetch"}
      BY <1>5
    <3>2. ~net'[d].leaving
      BY <1>2, <1>3 DEF Calm
    <3>. QED
      BY <1>2, <1>3, <1>4, <1>6, <2>1, <3>1, <3>2, CalmGoesOn
  <2>2. CASE e # d
    <3>1. main[e].pc = "off" => sessions[e] <= 0
      BY OfFile DEF Calm
    <3>. QED
      BY <1>3, <1>4, <1>7, <2>2, <3>1, CalmKept DEF Converges
  <2>. QED
    BY <2>1, <2>2
<1>11. ASSUME NEW e \in Device PROVE Carries(e, g)' /\ Handles(e, g)'
  <2>1. Calm(e) /\ Carries(e, g) /\ Handles(e, g)
    BY OfFile
  <2>2. Carries(e, g)'
    BY <1>4, <1>6, <1>7, <1>8, <2>1 DEF Carries
  <2>3. Handles(e, g)'
    <3>1. CASE e = d
      BY <1>5, <3>1 DEF Handles
    <3>2. CASE e # d
      BY <1>3, <1>4, <1>5, <2>1, <3>2 DEF Handles
    <3>. QED
      BY <3>1, <3>2
  <2>. QED
    BY <2>2, <2>3
<1>12. ASSUME NEW e \in Device PROVE Knows(e, g)'
  <2>1. Calm(e) /\ Knows(e, g)
    BY OfFile
  <2>2. Runs(e) => Told(e, g)' \/ Fetches(e, g)'
    BY <1>7, <1>8, <2>1 DEF Calm, Told, Fetches
  <2>3. \A k : Has(e, g, k)' <=> Has(e, g, k)
    BY <1>4 DEF Has, Removes
  <2>. QED
    BY <1>4, <1>8, <2>1, <2>2, <2>3 DEF Knows
<1>13. Stored(g)'
  <2>1. \A e \in Device : Wants(e, g)' <=> Wants(e, g)
    BY <1>4, <1>8 DEF Wants
  <2>2. Pending(g)' <=> Pending(g)
    BY <1>8, <2>1 DEF Pending
  <2>3. /\ Someone(g, {"open", "write"})' <=> Someone(g, {"open", "write"})
        /\ Someone(g, {"write"})' <=> Someone(g, {"write"})
        /\ Someone(g, {"read", "fetch"})' <=> Someone(g, {"read", "fetch"})
        /\ Someone(g, {"broadcast"})
    BY <1>5 DEF Someone
  <2>4. \A e \in Device :
          /\ Runs(e)' /\ Listed(e, g)' => store[g] # Absent
          /\ Doing(e, g)' = "fetch" => net'[e].seen = store[g]
    BY <1>2, <1>3, <1>5, <1>8 DEF Stored
  <2>5. Learnt(g)
    BY <2>3 DEF Learnt
  <2>. QED
    BY <1>2, <1>4, <2>2, <2>3, <2>4, <2>5 DEF Stored
<1>14. Virgin(g)'
  BY <1>2, <1>4, <1>5, NotVirgin DEF Idle
<1>15. Recent(g)'
  BY <1>2, <1>4 DEF Recent, Version
<1>. QED
  BY <1>9, <1>10, <1>11, <1>12, <1>13, <1>14, <1>15 DEF Converges, FileRight

\* An event brings the latest version, in whatever state the device is.
LEMMA AppliedConverges ==
  ASSUME TypeOK, Converges, NEW d \in Device, Apply(d) \/ Drop(d)
  PROVE  Converges'
<1>. USE DEF server, device, user
<1>1. PICK g \in File : g = net[d].event.file
  BY OfDevice
<1>2. /\ Calm(d) /\ Carries(d, g) /\ Handles(d, g) /\ Knows(d, g) /\ Stored(g)
      /\ Recent(g) /\ Runs(d) /\ net[d].pc \in {"apply", "drop"}
      /\ latest[g] # Garbage /\ latest[g] # Unknown /\ Absent # Unknown
      /\ latest[g] \in Version
  BY OfFile DEF Apply, Drop
<1>3. /\ Doing(d, g) = net[d].pc
      /\ \A f \in File \ {g} : Doing(d, f) = "nothing"
  BY <1>1, <1>2 DEF Doing, Calm
<1>4. /\ net'[d].pc = "task" /\ net'[d].for = net[d].for
      /\ net'[d].leaving = net[d].leaving
      /\ \A e \in Device \ {d} : net'[e] = net[e]
  BY <1>2, OfDevice DEF Apply, Drop, Loop, Calm, TypeOK, NetState
<1>5. \A f \in File : Doing(d, f)' = "nothing"
  BY <1>4 DEF Doing
<1>. DEFINE n == latest[g]
            m == Mark(n)
<1>6. /\ UNCHANGED <<store, sessions, events, tasks, main, latest, commands, scene>>
      /\ \/ /\ known[d][g]["network"] = m /\ UNCHANGED <<known, dir, notices>>
         \/ /\ known' = [known EXCEPT ![d][g]["network"] = m] /\ Put(d, g, n)
  <2>1. CASE Apply(d)
    <3>1. net[d].buf = n /\ n # Absent
      BY <1>2, <1>3, <2>1 DEF Handles, Apply
    <3>2. m = n
      BY <3>1 DEF Mark
    <3>. HIDE DEF n, m
    <3>. QED
      BY <1>1, <1>2, <2>1, <3>1, <3>2 DEF Apply, n
  <2>2. CASE Drop(d)
    <3>1. n = Absent /\ m = Unknown
      BY <1>2, <1>3, <2>2 DEF Handles, Drop, Mark
    <3>. HIDE DEF n, m
    <3>. QED
      BY <1>1, <2>2, <3>1 DEF Drop, n
  <2>. QED
    BY <2>1, <2>2
<1>7. /\ known'[d][g]["network"] = m /\ known'[d][g]["inotify"] = known[d][g]["inotify"]
      /\ \A f \in File \ {g} : known'[d][f] = known[d][f]
      /\ \A e \in Device \ {d} : known'[e] = known[e]
  <2>. HIDE DEF m, n
  <2>. QED
    BY <1>6, KnownEntry DEF Key
<1>8. /\ \/ dir'[d][g] = n
         \/ dir'[d][g] = dir[d][g] /\ Fetches(d, g)
      /\ \A f \in File \ {g} : dir'[d][f] = dir[d][f] /\ Sightings(d, f)' = Sightings(d, f)
      /\ \A e \in Device \ {d} : dir'[e] = dir[e] /\ notices'[e] = notices[e]
      /\ notices'[d] = notices[d] \/ Watches(d)
      /\ Sightings(d, g) \subseteq Sightings(d, g)'
      /\ Sightings(d, g)' \subseteq
           Sightings(d, g) \cup {[type |-> EventType(n), file |-> g]}
      /\ Sightings(d, g)' # {} => dir'[d][g] = n
      /\ dir'[d][g] = n => Sightings(d, g)' # {} \/ Has(d, g, "inotify")'
  <2>1. CASE known[d][g]["network"] = m /\ UNCHANGED <<known, dir, notices>>
    <3>1. /\ dir[d][g] = n \/ Fetches(d, g)
          /\ dir[d][g] = n => Sightings(d, g) # {} \/ Has(d, g, "inotify")
          /\ Sightings(d, g) # {} => dir[d][g] = n
      BY <1>2, <2>1 DEF Knows, Carries
    <3>2. Has(d, g, "inotify")' <=> Has(d, g, "inotify")
      BY <1>6, <2>1 DEF Has, Removes
    <3>. QED
      BY <2>1, <3>1, <3>2, SameQueues
  <2>2. CASE Put(d, g, n) /\ Watches(d)
    <3>1. dir[d][g] = n => Sightings(d, g) # {} \/ Has(d, g, "inotify")
      BY <1>2 DEF Knows
    <3>2. dir[d][g] = n /\ dir'[d][g] = n /\ Has(d, g, "inotify")
            => Has(d, g, "inotify")'
      BY <1>6, <1>7 DEF Has, Removes
    <3>. HIDE DEF n, m
    <3>. QED
      BY <1>2, <2>2, <3>1, <3>2, FilePut
  <2>3. CASE Put(d, g, n) /\ ~Watches(d)
    <3>1. /\ notices' = notices /\ dir'[d][g] = n
          /\ \A f \in File \ {g} : dir'[d][f] = dir[d][f]
          /\ \A e \in Device \ {d} : dir'[e] = dir[e]
      <4>. HIDE DEF n, m
      <4>. QED
        BY <2>3, OfDevice DEF Put, TypeOK
    <3>2. Starting(d)
      BY <1>2, <2>3, OfDevice DEF Runs, Watches, Starting, MainState
    <3>3. Sightings(d, g) = {} /\ known[d][g]["inotify"] = Unknown /\ ~Removes
      BY <1>2, <3>2, ItemsEmpty DEF Calm, Knows, Sightings
    <3>4. Has(d, g, "inotify")'
      BY <1>6, <1>7, <3>1, <3>3 DEF Has, Removes
    <3>. QED
      BY <3>1, <3>3, <3>4, SameQueues
  <2>. QED
    BY <1>6, <2>1, <2>2, <2>3
<1>. HIDE DEF n, m
<1>9. /\ Runs(d)' /\ (Starting(d)' <=> Starting(d))
      /\ \A f \in File : /\ News(d, f)' = News(d, f) /\ Orders(d, f)' = Orders(d, f)
                         /\ Listed(d, f)' <=> Listed(d, f)
                         /\ Fetches(d, f)' <=> Fetches(d, f)
  <2>1. \A f \in File :
          Doing(d, f) \notin {"find", "fetch"} /\ Doing(d, f)' \notin {"find", "fetch"}
    BY <1>2, <1>3, <1>5
  <2>. QED
    BY <1>2, <1>6, <2>1, SameStart, SameQueues
<1>10. Calm(d)'
  <2>1. ~net'[d].leaving
    BY <1>2, <1>4 DEF Calm
  <2>2. \A f \in File :
          Doing(d, f)' \in {"find", "fetch"} <=> Doing(d, f) \in {"find", "fetch"}
    BY <1>2, <1>3, <1>5
  <2>. QED
    BY <1>2, <1>4, <1>6, <1>8, <2>1, <2>2, CalmGoesOn
<1>11. Elsewhere(d, g)
  <2>1. SameUser
    BY <1>6 DEF SameUser
  <2>. QED
    BY <1>2, <1>3, <1>4, <1>5, <1>6, <1>7, <1>8, <1>9, <2>1, OthersKept
<1>12. Told(d, g) /\ (Wants(d, g) => Wants(d, g)')
  BY <1>2, <1>3, <1>6, <1>7, <1>8, <1>9 DEF Told, Wants
<1>13. Stored(g)' /\ (TellsAll(g) => TellsAll(g)')
  <2>1. Heard(d, g) /\ (Listed(d, g)' => store[g] # Absent)
    BY <1>2, <1>9, <1>12 DEF Heard, Stored
  <2>. QED
    BY <1>2, <1>3, <1>5, <1>6, <1>9, <1>11, <1>12, <2>1, StillStored DEF Elsewhere
<1>14. Carries(d, g)'
  <2>1. /\ \A v \in Sightings(d, g)' : v.type = EventType(n)
        /\ \A t \in Orders(d, g) : t.type = "upload" /\ t.from = Absent
                                     => dir'[d][g] = n
    BY <1>2, <1>8 DEF Carries, n
  <2>. QED
    BY <1>2, <1>6, <1>8, <1>9, <2>1 DEF Carries, n
<1>15. Handles(d, g)'
  BY <1>5 DEF Handles
<1>16. Knows(d, g)'
  <2>1. Has(d, g, "network")'
    BY <1>6, <1>7 DEF Has, m, n
  <2>2. Starting(d)' => known[d][g]["inotify"] = Unknown
    BY <1>2, <1>9 DEF Knows
  <2>. QED
    BY <1>6, <1>7, <1>8, <1>9, <2>1, <2>2 DEF Knows, m, n
<1>17. ~Idle(g)
  BY <1>2, <1>3 DEF Idle
<1>18. /\ dir'[d][g] \in Version /\ store'[g] \in Version \cup {Empty}
       /\ \A k \in Key : known'[d][g][k] \in Version \cup {Unknown}
  BY <1>2, <1>6, <1>7, <1>8 DEF Recent, Key, Mark, m, n
<1>. QED
  BY <1>10, <1>11, <1>13, <1>14, <1>15, <1>16, <1>17, <1>18, StepDone

\* The notify thread: a change that came from the network is sent back, and
\* changes nothing.
LEMMA NotifyConverges ==
  ASSUME TypeOK, Converges, NEW d \in Device, NotifyThread(d)
  PROVE  Converges'
<1>. USE DEF server, device, user
<1>1. PICK g \in File : g = Head(notices[d]).file
  BY FirstNotice DEF NotifyThread, NotifyModified, NotifyDeleted, Noticed
<1>2. /\ Head(notices[d]) \in Sightings(d, g)
      /\ Sightings(d, g)' \subseteq Sightings(d, g)
      /\ \A f \in File \ {g} : Sightings(d, f)' = Sightings(d, f)
      /\ \A e \in Device \ {d} : notices'[e] = notices[e]
      /\ NotifyModified(d) => Head(notices[d]).type = "modified"
      /\ NotifyDeleted(d) => Head(notices[d]).type = "deleted"
  BY <1>1, NoticeTaken DEF NotifyThread, NotifyModified, NotifyDeleted
<1>3. /\ Calm(d) /\ Carries(d, g) /\ Handles(d, g) /\ Knows(d, g) /\ Stored(g)
      /\ Recent(g) /\ Watches(d) /\ Runs(d) /\ latest[g] \in Version
  BY OfFile DEF NotifyThread, NotifyModified, NotifyDeleted, Noticed, Watches, Runs
<1>. DEFINE n == latest[g]
            m == Mark(n)
            type == IF n = Absent THEN "delete" ELSE "upload"
<1>4. /\ Head(notices[d]).type = EventType(n) /\ dir[d][g] = n
  BY <1>2, <1>3 DEF Carries
<1>5. /\ UNCHANGED <<store, sessions, events, dir, main, net, latest, commands, scene>>
      /\ \/ known[d][g]["inotify"] = m /\ UNCHANGED <<known, tasks>>
         \/ /\ known' = [known EXCEPT ![d][g]["inotify"] = m]
            /\ Push(d, type, g, Absent)
  <2>1. CASE NotifyModified(d)
    <3>1. n # Absent
      BY <1>2, <1>4, <2>1 DEF EventType
    <3>2. m = n /\ type = "upload"
      BY <3>1 DEF Mark
    <3>. HIDE DEF n, m, type
    <3>. QED
      BY <1>1, <1>4, <2>1, <3>2 DEF NotifyModified
  <2>2. CASE NotifyDeleted(d)
    <3>1. n = Absent
      BY <1>2, <1>4, <2>2 DEF EventType
    <3>2. m = Unknown /\ type = "delete"
      BY <3>1 DEF Mark
    <3>. HIDE DEF n, m, type
    <3>. QED
      BY <1>1, <2>2, <3>2 DEF NotifyDeleted
  <2>. QED
    BY <2>1, <2>2 DEF NotifyThread
<1>6. /\ known'[d][g]["network"] = known[d][g]["network"]
      /\ known'[d][g]["inotify"] = m
      /\ \A f \in File \ {g} : known'[d][f] = known[d][f]
      /\ \A e \in Device \ {d} : known'[e] = known[e]
  <2>. HIDE DEF m, n
  <2>1. \/ known' = known /\ known[d][g]["inotify"] = m
        \/ known' = [known EXCEPT ![d][g]["inotify"] = m]
    BY <1>5
  <2>. QED
    BY <2>1, KnownEntry DEF Key
<1>7. /\ Orders(d, g) \subseteq Orders(d, g)'
      /\ Orders(d, g)' \subseteq
           Orders(d, g) \cup {[type |-> type, file |-> g, from |-> Absent]}
      /\ \A f \in File \ {g} : Orders(d, f)' = Orders(d, f)
      /\ Items(tasks[d])' \subseteq
           Items(tasks[d]) \cup {[type |-> type, file |-> g, from |-> Absent]}
      /\ \A e \in Device \ {d} : tasks'[e] = tasks[e]
      /\ Wants(d, g) => Orders(d, g)' # {}
  <2>1. CASE known[d][g]["inotify"] = m /\ UNCHANGED <<known, tasks>>
    <3>1. Items(tasks[d])' = Items(tasks[d])
      BY <2>1 DEF Items
    <3>. QED
      BY <2>1, <3>1, SameQueues DEF Wants
  <2>2. CASE Push(d, type, g, Absent)
    <3>1. type \in {"upload", "delete"}
      OBVIOUS
    <3>. DEFINE t == [type |-> type, file |-> g, from |-> Absent]
    <3>. HIDE DEF type
    <3>2. /\ Items(tasks[d])' = Items(tasks[d]) \cup {t}
          /\ Orders(d, g)' = Orders(d, g) \cup {t}
          /\ \A f \in File \ {g} : Orders(d, f)' = Orders(d, f)
          /\ \A e \in Device \ {d} : tasks'[e] = tasks[e]
      BY <2>2, <3>1, TaskPushed, Constants
    <3>. QED
      BY <3>2
  <2>. QED
    BY <1>5, <2>1, <2>2
<1>. HIDE DEF n, m, type
<1>8. \A t \in Items(tasks[d]) \cup Items(tasks[d])' : t.type # "fetch"
  <2>1. type # "fetch"
    BY DEF type
  <2>. QED
    BY <1>3, <1>7, <2>1, WatchesAll
<1>9. /\ Runs(d)' /\ (Starting(d)' <=> Starting(d))
      /\ \A f \in File : /\ News(d, f)' = News(d, f) /\ Doing(d, f)' = Doing(d, f)
                         /\ Listed(d, f)' <=> Listed(d, f)
                         /\ Fetches(d, f)' <=> Fetches(d, f)
  <2>1. \A f \in File : Doing(d, f)' = Doing(d, f)
    BY <1>5 DEF Doing
  <2>. QED
    BY <1>3, <1>5, <1>8, <2>1, SameStart, SameQueues
<1>10. Calm(d)'
  <2>1. /\ net[d].pc # "connect" /\ ~net[d].leaving
        /\ net[d].pc # "off" /\ (net[d].pc = "apply" => net[d].for = "event")
    BY <1>3 DEF Calm, Watches
  <2>. QED
    BY <1>3, <1>5, <1>8, <1>9, <2>1, CalmGoesOn
<1>11. \A f \in File \ {g} : Kept(d, f)
  BY <1>2, <1>3, <1>5, <1>6, <1>7, <1>9 DEF Kept
<1>12. Elsewhere(d, g)
  <2>1. SameUser
    BY <1>5 DEF SameUser
  <2>. QED
    BY <1>2, <1>5, <1>6, <1>7, <1>11, <2>1 DEF Elsewhere, Apart
<1>13. /\ Wants(d, g) => Wants(d, g)'
       /\ Told(d, g)' <=> Told(d, g)
       /\ Heard(d, g)' <=> Heard(d, g)
  BY <1>5, <1>6, <1>7, <1>9 DEF Wants, Told, Heard
<1>14. Stored(g)' /\ (TellsAll(g) => TellsAll(g)')
  <2>1. Listed(d, g)' => store[g] # Absent
    BY <1>3, <1>9 DEF Stored
  <2>2. /\ Doing(d, g)' \in {"read", "fetch"} => Doing(d, g) \in {"read", "fetch"}
        /\ Doing(d, g)' = "fetch" => net'[d].seen = store[g]
    BY <1>3, <1>5, <1>9 DEF Stored
  <2>. QED
    BY <1>3, <1>5, <1>9, <1>12, <1>13, <2>1, <2>2, StillStored DEF Elsewhere
<1>15. Carries(d, g)'
  <2>1. \A t \in Orders(d, g)' :
          /\ t.type = "delete" <=> n = Absent
          /\ t.type = "upload" => n = IF t.from = Absent THEN dir[d][g] ELSE t.from
    BY <1>3, <1>4, <1>7 DEF Carries, n, type
  <2>. QED
    BY <1>2, <1>3, <1>5, <1>9, <2>1 DEF Carries, n
<1>16. Handles(d, g)'
  BY <1>3, <1>5, <1>9 DEF Handles
<1>17. Knows(d, g)'
  <2>1. Has(d, g, "inotify")'
    BY <1>5, <1>6 DEF Has, m, n
  <2>2. Has(d, g, "network")' <=> Has(d, g, "network")
    BY <1>5, <1>6 DEF Has, Removes
  <2>3. ~Starting(d)'
    BY <1>3, <1>9, WatchesAll
  <2>. QED
    BY <1>3, <1>5, <1>6, <1>9, <1>13, <1>14, <2>1, <2>2, <2>3 DEF Knows
<1>18. ~Idle(g)
  BY <1>2, <1>3 DEF Idle
<1>19. /\ dir'[d][g] \in Version /\ store'[g] \in Version \cup {Empty}
       /\ \A k \in Key : known'[d][g][k] \in Version \cup {Unknown}
  BY <1>3, <1>5, <1>6 DEF Recent, Key, Mark, m, n
<1>. QED
  BY <1>10, <1>12, <1>14, <1>15, <1>16, <1>17, <1>18, <1>19, StepDone
-----------------------------------------------------------------------------
(* Devices that start *)

\* A step of d does not make a file one that was saved.
LEMMA StillVirgin ==
  ASSUME NEW d \in Device, NEW f \in File, Apart(d), store'[f] = store[f], Virgin(f),
         Idle(f) =>
           /\ Doing(d, f)' \in {"nothing", "find", "fetch"}
           /\ Runs(d)' => /\ News(d, f)' = {} /\ Sightings(d, f)' = {}
                          /\ Orders(d, f)' = {}
           /\ Starting(d)' => \A k \in Key : known'[d][f][k] = Unknown,
         ~Removes /\ Idle(f) /\ latest[f] = Absent /\ Runs(d)' => dir'[d][f] = Absent
  PROVE  Virgin(f)'
<1>1. /\ latest' = latest /\ scene' = scene
      /\ \A e \in Device \ {d} : Kept(e, f)
  BY KeptDevice DEF Apart, SameUser
<1>2. Idle(f) => Idle(f)'
  BY <1>1 DEF Idle, Kept
<1>. QED
  BY <1>1, <1>2 DEF Virgin, Removes, Kept

\* A user starts a device, which has nothing and has heard nothing yet.
LEMMA StartConverges ==
  ASSUME TypeOK, Converges, Orderly, NEW d \in Device, Start(d)
  PROVE  Converges'
<1>. USE DEF server, device, user
<1>1. /\ Calm(d) /\ main[d].pc = "off" /\ d \in scene.starting
      /\ UNCHANGED <<store, sessions, events, dir, known, notices, tasks, latest,
                     commands, scene>>
  BY DEF Converges, Start
<1>2. /\ Off(d) /\ main[d].todo = {} /\ ~net[d].leaving /\ ~Removes
  BY <1>1 DEF Calm, Orderly
<1>3. /\ main'[d].pc = "clean" /\ main'[d].todo = {}
      /\ net'[d].pc = "connect" /\ ~net'[d].leaving
      /\ \A e \in Device \ {d} : main'[e] = main[e] /\ net'[e] = net[e]
  BY <1>2, OfDevice DEF Start, TypeOK, MainState, NetState
<1>4. Apart(d)
  BY <1>1, <1>3 DEF Apart, SameUser
<1>5. Items(tasks[d])' = {}
  BY <1>1, <1>2, ItemsEmpty DEF Off
<1>6. \A f \in File :
        /\ News(d, f)' = {} /\ Sightings(d, f)' = {} /\ Orders(d, f)' = {}
        /\ Doing(d, f) = "nothing" /\ Doing(d, f)' = "nothing"
        /\ dir'[d][f] = Absent /\ \A k \in Key : known'[d][f][k] = Unknown
  <2>1. \A f \in File : News(d, f)' = {} /\ Sightings(d, f)' = {} /\ Orders(d, f)' = {}
    BY <1>1, <1>2, ItemsEmpty DEF Off, News, Sightings, Orders
  <2>2. \A f \in File : Doing(d, f) = "nothing" /\ Doing(d, f)' = "nothing"
    BY <1>1, <1>3 DEF Calm, Doing
  <2>. QED
    BY <1>1, <1>2, <2>1, <2>2 DEF Off
<1>7. Runs(d)' /\ ~Runs(d)
  BY <1>1, <1>3 DEF Runs
<1>8. Calm(d)'
  BY <1>1, <1>2, <1>3, <1>5, <1>6, <1>7 DEF Calm, Off, Removes
<1>9. ASSUME NEW f \in File
      PROVE  /\ Carries(d, f)' /\ Handles(d, f)' /\ Knows(d, f)' /\ Stored(f)'
             /\ Virgin(f)' /\ store'[f] = store[f] /\ dir'[d][f] \in Version
             /\ \A k \in Key : known'[d][f][k] \in Version \cup {Unknown}
             /\ TellsAll(f) => TellsAll(f)'
  <2>1. /\ Stored(f) /\ Virgin(f) /\ Recent(f) /\ latest[f] # Unknown
        /\ dir[d][f] \in Version
    BY OfFile
  <2>2. ~Listed(d, f)' /\ ~Heard(d, f)'
    BY <1>1, <1>3, <1>5, <1>6, <2>1 DEF Listed, Heard, Told, Key
  <2>3. Stored(f)' /\ (TellsAll(f) => TellsAll(f)')
    BY <1>1, <1>4, <1>6, <1>7, <2>1, <2>2, StillStored
  <2>4. Virgin(f)'
    BY <1>1, <1>4, <1>6, <2>1, StillVirgin
  <2>5. Knows(d, f)'
    <3>1. Fetches(d, f)'
      BY <1>3 DEF Fetches
    <3>2. dir'[d][f] = latest'[f] => Has(d, f, "inotify")'
      BY <1>1, <1>2, <1>6 DEF Has, Removes, Key
    <3>. QED
      BY <1>6, <3>1, <3>2 DEF Knows, Key
  <2>6. Carries(d, f)' /\ Handles(d, f)'
    BY <1>6 DEF Carries, Handles
  <2>. QED
    BY <1>1, <1>6, <2>1, <2>3, <2>4, <2>5, <2>6
<1>. QED
  BY <1>4, <1>8, <1>9, AllDone

\* What is said of a device that still has to see the server's list.
LEMMA BeforeList ==
  ASSUME TypeOK, NEW d \in Device, Calm(d), main[d].pc \in {"clean", "list"}
  PROVE  /\ Runs(d) /\ Starting(d) /\ ~Removes /\ main[d].todo = {}
         /\ \A t \in Items(tasks[d]) : t.type = "list"
         /\ \A f \in File :
              /\ Sightings(d, f) = {} /\ Orders(d, f) = {}
              /\ Doing(d, f) \notin {"find", "fetch"}
              /\ Fetches(d, f) /\ ~Listed(d, f) /\ ~Wants(d, f)
<1>1. Runs(d) /\ Starting(d)
  BY DEF Runs, Starting
<1>2. ~Removes /\ notices[d] = << >> /\ main[d].todo = {}
      /\ \A f \in File : Doing(d, f) \notin {"find", "fetch"}
  BY <1>1 DEF Calm
<1>3. \A t \in Items(tasks[d]) : t.type = "list"
  <2>1. tasks[d] \in Seq(Task)
    BY OfDevice
  <2>2. tasks[d] # << >> => Items(tasks[d]) = {Head(tasks[d])} \cup Items(Tail(tasks[d]))
    BY <2>1, ItemsTail
  <2>. QED
    BY <2>2, ItemsEmpty DEF Calm
<1>4. \A f \in File : Sightings(d, f) = {} /\ Orders(d, f) = {}
  BY <1>2, <1>3, ItemsEmpty DEF Sightings, Orders
<1>5. \A f \in File : Fetches(d, f) /\ ~Listed(d, f) /\ ~Wants(d, f)
  BY <1>2, <1>3, <1>4 DEF Fetches, Listed, Wants
<1>. QED
  BY <1>1, <1>2, <1>3, <1>4, <1>5

\* The network thread of a device that starts is accepted, or main ends.
LEMMA ConnectConverges ==
  ASSUME TypeOK, Converges, NEW d \in Device, Connect(d)
  PROVE  Converges'
<1>. USE DEF server, device, user
<1>1. /\ Calm(d) /\ Runs(d) /\ net[d].pc = "connect"
      /\ UNCHANGED <<store, dir, known, notices, tasks, latest, commands, scene>>
  BY DEF Converges, Connect
<1>2. main[d].pc \in {"clean", "list"}
  BY <1>1 DEF Calm
<1>3. /\ ~Removes /\ main[d].todo = {} /\ Starting(d)
      /\ \A t \in Items(tasks[d]) : t.type = "list"
      /\ \A f \in File :
           /\ Sightings(d, f) = {} /\ Orders(d, f) = {}
           /\ Fetches(d, f) /\ ~Listed(d, f) /\ ~Wants(d, f)
  BY <1>1, <1>2, BeforeList
<1>4. /\ Items(tasks[d])' = Items(tasks[d])
      /\ \A f \in File : /\ Sightings(d, f)' = {} /\ Orders(d, f)' = {}
                         /\ Doing(d, f) = "nothing"
  BY <1>1, <1>3, SameQueues DEF Doing
<1>5. CASE Cardinality(Clients) < MaxConnections
  <2>1. /\ main' = main /\ sessions'[d] > 0
        /\ \A e \in Device \ {d} : sessions'[e] = sessions[e] /\ events'[e] = events[e]
        /\ events'[d] = << >>
    BY <1>5 DEF Connect, TypeOK
  <2>2. /\ net'[d].pc = "task" /\ ~net'[d].leaving
        /\ \A e \in Device \ {d} : net'[e] = net[e]
    BY <1>5, OfDevice DEF Connect, TypeOK, NetState
  <2>3. Apart(d)
    BY <1>1, <2>1, <2>2 DEF Apart, SameUser
  <2>4. \A f \in File : Doing(d, f)' = "nothing" /\ News(d, f)' = {}
    BY <2>1, <2>2, ItemsEmpty DEF Doing, News
  <2>5. /\ Runs(d)' /\ Starting(d)'
        /\ \A f \in File : Fetches(d, f)' /\ ~Listed(d, f)' /\ ~Wants(d, f)'
    BY <1>1, <1>2, <1>3, <1>4, <2>1, <2>4 DEF Runs, Starting, Fetches, Listed, Wants
  <2>6. Calm(d)'
    BY <1>1, <1>2, <1>3, <1>4, <2>1, <2>2, <2>4, <2>5 DEF Calm, Removes
  <2>7. ASSUME NEW f \in File
        PROVE  /\ Carries(d, f)' /\ Handles(d, f)' /\ Knows(d, f)' /\ Stored(f)'
               /\ Virgin(f)' /\ store'[f] = store[f] /\ dir'[d][f] \in Version
               /\ \A k \in Key : known'[d][f][k] \in Version \cup {Unknown}
               /\ TellsAll(f) => TellsAll(f)'
    <3>1. /\ Knows(d, f) /\ Stored(f) /\ Virgin(f) /\ dir[d][f] \in Version
          /\ \A k \in Key : known[d][f][k] \in Version \cup {Unknown}
      BY OfFile
    <3>2. Heard(d, f)' => Heard(d, f)
      BY <1>1, <2>4 DEF Heard, Told
    <3>3. Stored(f)' /\ (TellsAll(f) => TellsAll(f)')
      BY <1>1, <1>3, <1>4, <2>3, <2>4, <2>5, <3>1, <3>2, StillStored
    <3>4. Virgin(f)'
      BY <1>1, <1>3, <1>4, <2>3, <2>4, <3>1, StillVirgin DEF Virgin, Idle
    <3>5. Knows(d, f)'
      <4>1. Has(d, f, "inotify")' <=> Has(d, f, "inotify")
        BY <1>1 DEF Has, Removes
      <4>. QED
        BY <1>1, <1>3, <1>4, <2>5, <3>1, <4>1 DEF Knows
    <3>6. Carries(d, f)' /\ Handles(d, f)'
      BY <1>4, <2>4 DEF Carries, Handles
    <3>. QED
      BY <1>1, <3>1, <3>3, <3>4, <3>5, <3>6
  <2>. QED
    BY <2>3, <2>6, <2>7, AllDone
<1>6. CASE ~(Cardinality(Clients) < MaxConnections)
  <2>1. /\ main'[d].pc = "ended" /\ main'[d].todo = {}
        /\ \A e \in Device \ {d} : main'[e] = main[e]
        /\ UNCHANGED <<sessions, events, net>>
    <3>1. End(d) /\ UNCHANGED <<sessions, events, net>>
      BY <1>6 DEF Connect
    <3>2. main' = [main EXCEPT ![d].pc = "ended"]
      BY <3>1 DEF End
    <3>. QED
      BY <1>3, <3>1, <3>2, OfDevice DEF TypeOK, MainState
  <2>2. Apart(d)
    BY <1>1, <2>1 DEF Apart, SameUser
  <2>3. \A f \in File : Doing(d, f)' = "nothing" /\ ~Listed(d, f)'
    BY <1>3, <1>4, <2>1 DEF Doing, Listed
  <2>4. ~Runs(d)' /\ ~Starting(d)'
    BY <2>1 DEF Runs, Starting
  <2>5. Calm(d)'
    BY <1>1, <1>3, <1>4, <2>1, <2>3, <2>4 DEF Calm
  <2>6. ASSUME NEW f \in File
        PROVE  /\ Carries(d, f)' /\ Handles(d, f)' /\ Knows(d, f)' /\ Stored(f)'
               /\ Virgin(f)' /\ store'[f] = store[f] /\ dir'[d][f] \in Version
               /\ \A k \in Key : known'[d][f][k] \in Version \cup {Unknown}
               /\ TellsAll(f) => TellsAll(f)'
    <3>1. /\ Stored(f) /\ Virgin(f) /\ dir[d][f] \in Version
          /\ \A k \in Key : known[d][f][k] \in Version \cup {Unknown}
      BY OfFile
    <3>2. Stored(f)' /\ (TellsAll(f) => TellsAll(f)')
      BY <1>1, <1>3, <1>4, <2>2, <2>3, <2>4, <3>1, StillStored
    <3>3. Virgin(f)'
      BY <1>1, <2>2, <2>3, <2>4, <3>1, StillVirgin
    <3>4. Carries(d, f)' /\ Handles(d, f)' /\ Knows(d, f)'
      BY <2>3, <2>4 DEF Carries, Handles, Knows
    <3>. QED
      BY <1>1, <3>1, <3>2, <3>3, <3>4
  <2>. QED
    BY <2>2, <2>5, <2>6, AllDone
<1>. QED
  BY <1>5, <1>6

\* main empties the directory of a device that starts.
LEMMA CleanConverges ==
  ASSUME TypeOK, Converges, NEW d \in Device, Clean(d)
  PROVE  Converges'
<1>. USE DEF server, device, user
<1>1. /\ Calm(d) /\ main[d].pc = "clean"
      /\ UNCHANGED <<store, sessions, events, known, notices, net, latest, commands, scene>>
  BY DEF Converges, Clean
<1>2. /\ Runs(d) /\ ~Removes /\ main[d].todo = {} /\ Starting(d)
      /\ \A f \in File :
           /\ Sightings(d, f) = {} /\ Orders(d, f) = {}
           /\ Doing(d, f) \notin {"find", "fetch"} /\ ~Wants(d, f)
  BY <1>1, BeforeList
<1>3. /\ main'[d].pc = "list" /\ main'[d].todo = {}
      /\ \A f \in File : dir'[d][f] = Absent
      /\ \A e \in Device \ {d} : main'[e] = main[e] /\ dir'[e] = dir[e]
  BY <1>2, OfDevice DEF Clean, TypeOK, MainState
<1>4. PICK g \in File : Push(d, "list", g, Absent)
  BY DEF Clean
<1>5. /\ \A f \in File : Orders(d, f)' = Orders(d, f)
      /\ \A e \in Device \ {d} : tasks'[e] = tasks[e]
  BY <1>4, TaskPushed, Constants
<1>6. /\ Tail(tasks'[d]) = << >> /\ Head(tasks'[d]).type = "list"
      /\ \A t \in Items(tasks[d])' : t.type = "list"
  <2>. DEFINE t == [type |-> "list", file |-> g, from |-> Absent]
  <2>1. tasks[d] = << >> /\ tasks'[d] = Append(tasks[d], t) /\ t.type = "list"
    BY <1>1, <1>4 DEF Calm, Push, TypeOK
  <2>. HIDE DEF t
  <2>2. tasks'[d] = << t >>
    BY <2>1
  <2>3. Items(<< t >>) = {t}
    BY ItemsTail DEF Items
  <2>. QED
    BY <2>1, <2>2, <2>3 DEF Items
<1>7. Apart(d)
  BY <1>1, <1>3, <1>5 DEF Apart, SameUser
<1>8. \A f \in File : /\ Doing(d, f)' = Doing(d, f) /\ News(d, f)' = News(d, f)
                      /\ Sightings(d, f)' = {} /\ Orders(d, f)' = {}
  BY <1>1, <1>2, <1>5, SameQueues DEF Doing
<1>9. /\ Runs(d)' /\ Starting(d)'
      /\ \A f \in File : Fetches(d, f)' /\ ~Listed(d, f)'
  BY <1>2, <1>3, <1>6, <1>8 DEF Runs, Starting, Fetches, Listed
<1>10. Calm(d)'
  BY <1>1, <1>2, <1>3, <1>6, <1>8, <1>9 DEF Calm, Removes
<1>11. ASSUME NEW f \in File
       PROVE  /\ Carries(d, f)' /\ Handles(d, f)' /\ Knows(d, f)' /\ Stored(f)'
              /\ Virgin(f)' /\ store'[f] = store[f] /\ dir'[d][f] \in Version
              /\ \A k \in Key : known'[d][f][k] \in Version \cup {Unknown}
              /\ TellsAll(f) => TellsAll(f)'
  <2>1. /\ Knows(d, f) /\ Stored(f) /\ Virgin(f) /\ Handles(d, f) /\ Carries(d, f)
        /\ \A k \in Key : known[d][f][k] \in Version \cup {Unknown}
    BY OfFile
  <2>2. /\ Heard(d, f)' => Heard(d, f)
        /\ Doing(d, f)' # "fetch"
    BY <1>1, <1>2, <1>8 DEF Heard, Told
  <2>3. Stored(f)' /\ (TellsAll(f) => TellsAll(f)')
    BY <1>1, <1>2, <1>7, <1>8, <1>9, <2>1, <2>2, StillStored
  <2>4. Virgin(f)'
    <3>1. Idle(f) => /\ Doing(d, f)' = "nothing" /\ News(d, f)' = {}
                     /\ \A k \in Key : known'[d][f][k] = Unknown
      BY <1>1, <1>2, <1>8 DEF Idle
    <3>. QED
      BY <1>1, <1>3, <1>7, <1>8, <2>1, <3>1, StillVirgin
  <2>5. Knows(d, f)'
    <3>1. dir'[d][f] = latest'[f] => Has(d, f, "inotify")'
      BY <1>1, <1>2, <2>1 DEF Has, Removes, Knows
    <3>. QED
      BY <1>1, <1>2, <1>9, <2>1, <3>1 DEF Knows
  <2>6. Carries(d, f)' /\ Handles(d, f)'
    BY <1>1, <1>2, <1>8, <2>1 DEF Carries, Handles
  <2>7. Absent \in Version
    BY FileSyncAssumption DEF Version, Absent, TypeOK
  <2>. QED
    BY <1>1, <1>3, <2>1, <2>3, <2>4, <2>5, <2>6, <2>7
<1>. QED
  BY <1>7, <1>10, <1>11, AllDone

\* The server's list arrives: what is not on it is missing on the server for
\* good, or somebody is about to send it.
LEMMA ListedConverges ==
  ASSUME TypeOK, Converges, NEW d \in Device, ListTask(d), main[d].pc = "list"
  PROVE  Converges'
<1>. USE DEF server, device, user
<1>1. /\ Calm(d) /\ Runs(d) /\ net[d].pc = "task" /\ tasks[d] # << >>
      /\ UNCHANGED <<store, sessions, events, dir, known, notices, latest, commands,
                     scene>>
  BY DEF Converges, ListTask, Takes
<1>2. /\ ~Removes /\ Starting(d)
      /\ \A f \in File : Sightings(d, f) = {} /\ Orders(d, f) = {} /\ ~Wants(d, f)
  BY <1>1, BeforeList
<1>3. /\ tasks'[d] = << >> /\ \A e \in Device \ {d} : tasks'[e] = tasks[e]
  BY <1>1 DEF Calm, ListTask, Takes, TypeOK
<1>4. /\ net'[d].pc = "update" /\ net'[d].leaving = net[d].leaving
      /\ \A e \in Device \ {d} : net'[e] = net[e]
  BY OfDevice DEF ListTask, Goto, TypeOK, NetState
<1>. DEFINE todo == {f \in File : store[f] # Absent}
<1>5. /\ main'[d].pc = "fetch" /\ main'[d].todo = todo
      /\ \A e \in Device \ {d} : main'[e] = main[e]
  BY <1>1, OfDevice DEF ListTask, Fetched, TypeOK, MainState
<1>6. Apart(d)
  BY <1>1, <1>3, <1>4, <1>5 DEF Apart, SameUser
<1>7. /\ Items(tasks[d])' = {}
      /\ \A f \in File :
           /\ Doing(d, f) = "nothing" /\ Doing(d, f)' = "nothing"
           /\ News(d, f)' = News(d, f)
           /\ Sightings(d, f)' = {} /\ Orders(d, f)' = {}
  <2>1. Items(tasks[d])' = {}
    BY <1>3, ItemsEmpty DEF Items
  <2>2. \A f \in File : Orders(d, f)' = {}
    BY <2>1 DEF Orders
  <2>3. \A f \in File : Doing(d, f) = "nothing" /\ Doing(d, f)' = "nothing"
    BY <1>1, <1>4 DEF Doing
  <2>. QED
    BY <1>1, <1>2, <2>1, <2>2, <2>3, SameQueues
<1>8. \A f \in File : /\ Listed(d, f)' <=> store[f] # Absent
                      /\ Fetches(d, f)' <=> store[f] # Absent
  BY <1>5, <1>7 DEF Listed, Fetches
<1>9. Runs(d)'
  BY <1>5 DEF Runs
<1>10. Calm(d)'
  <2>1. sessions'[d] > 0 /\ ~net'[d].leaving /\ notices'[d] = << >>
    BY <1>1, <1>2, <1>4 DEF Calm
  <2>. HIDE DEF todo
  <2>. QED
    BY <1>2, <1>3, <1>4, <1>5, <1>7, <1>9, <2>1, <1>1 DEF Calm, Removes
<1>11. ASSUME NEW f \in File
       PROVE  /\ Carries(d, f)' /\ Handles(d, f)' /\ Knows(d, f)' /\ Stored(f)'
              /\ Virgin(f)' /\ store'[f] = store[f] /\ dir'[d][f] \in Version
              /\ \A k \in Key : known'[d][f][k] \in Version \cup {Unknown}
              /\ TellsAll(f) => TellsAll(f)'
  <2>1. /\ Knows(d, f) /\ Stored(f) /\ Virgin(f) /\ dir[d][f] \in Version
        /\ \A k \in Key : known[d][f][k] \in Version \cup {Unknown}
    BY OfFile
  <2>2. Heard(d, f)' => Heard(d, f)
    BY <1>1, <1>7 DEF Heard, Told
  <2>3. Stored(f)' /\ (TellsAll(f) => TellsAll(f)')
    BY <1>1, <1>2, <1>6, <1>7, <1>8, <2>1, <2>2, StillStored
  <2>4. Virgin(f)'
    BY <1>1, <1>2, <1>6, <1>7, <2>1, StillVirgin DEF Virgin, Idle
  <2>5. /\ known[d][f]["network"] \in {Unknown, Mark(latest[f])}
        /\ known[d][f]["inotify"] = Unknown
    BY <1>2, <1>1, <2>1 DEF Knows
  <2>6. ASSUME store[f] = Absent, latest[f] = Absent
        PROVE  Has(d, f, "network") /\ dir[d][f] = latest[f]
    BY <1>1, <1>2, <2>1, <2>5, <2>6 DEF Virgin, First, Has, Mark
  <2>7. ASSUME store[f] = Absent, latest[f] # Absent
        PROVE  TellsAll(f) /\ known[d][f]["network"] # Mark(latest[f])
    <3>1. ~Learnt(f)
      BY <2>1, <2>7 DEF Stored
    <3>2. known[d][f]["network"] # latest[f]
      BY <1>1, <3>1 DEF Learnt, Heard
    <3>3. TellsAll(f)
      BY <2>1, <2>7 DEF Stored, TellsAll, Someone
    <3>. QED
      BY <2>7, <3>2, <3>3 DEF Mark
  <2>8. Knows(d, f)'
    <3>1. dir'[d][f] = latest'[f] => Has(d, f, "inotify")'
      BY <1>1, <1>2, <2>5 DEF Has, Removes
    <3>2. Has(d, f, "network") => Has(d, f, "network")'
      BY <1>1 DEF Has, Removes
    <3>3. /\ Has(d, f, "network")' \/ TellsAll(f)' \/ Fetches(d, f)'
          /\ known'[d][f]["network"] = Mark(latest'[f])
               => dir'[d][f] = latest'[f] \/ Fetches(d, f)'
      BY <1>1, <1>8, <2>3, <2>6, <2>7, <3>2
    <3>. QED
      BY <1>1, <2>5, <3>1, <3>3 DEF Knows
  <2>9. Carries(d, f)' /\ Handles(d, f)'
    <3>1. Carries(d, f)
      BY OfFile
    <3>. QED
      BY <1>1, <1>7, <3>1 DEF Carries, Handles
  <2>. QED
    BY <1>1, <2>1, <2>3, <2>4, <2>8, <2>9
<1>. QED
  BY <1>6, <1>10, <1>11, AllDone

\* main asks for the next file of the list.
LEMMA FetchConverges ==
  ASSUME TypeOK, Converges, NEW d \in Device, Fetch(d)
  PROVE  Converges'
<1>. USE DEF server, device, user
<1>1. /\ Calm(d) /\ main[d].pc = "fetch"
      /\ UNCHANGED <<store, sessions, events, dir, known, notices, net, latest, commands,
                     scene>>
  BY DEF Converges, Fetch
<1>2. PICK g \in main[d].todo :
        /\ main' = [main EXCEPT ![d].pc = "fetching", ![d].todo = @ \ {g}]
        /\ Push(d, "fetch", g, Absent)
  BY DEF Fetch
<1>3. /\ g \in File
      /\ main'[d].pc = "fetching" /\ main'[d].todo = main[d].todo \ {g}
      /\ \A e \in Device \ {d} : main'[e] = main[e]
  BY <1>2, OfDevice DEF TypeOK, MainState
<1>4. /\ \A f \in File : Orders(d, f)' = Orders(d, f)
      /\ \A e \in Device \ {d} : tasks'[e] = tasks[e]
  BY <1>2, <1>3, TaskPushed, Constants
<1>. DEFINE t == [type |-> "fetch", file |-> g, from |-> Absent]
<1>5. /\ tasks[d] = << >> /\ tasks'[d] # << >> /\ Tail(tasks'[d]) = << >>
      /\ Head(tasks'[d]).type = "fetch"
      /\ Items(tasks[d]) = {} /\ Items(tasks[d])' = {t}
      /\ t.type = "fetch" /\ t.file = g
  <2>1. tasks[d] = << >> /\ tasks'[d] = Append(tasks[d], t)
    BY <1>1, <1>2 DEF Calm, Push, TypeOK
  <2>2. t.type = "fetch" /\ t.file = g
    OBVIOUS
  <2>. HIDE DEF t
  <2>3. tasks'[d] = << t >>
    BY <2>1
  <2>4. Items(<< t >>) = {t}
    BY ItemsTail DEF Items
  <2>. QED
    BY <2>1, <2>2, <2>3, <2>4, ItemsEmpty DEF Items
<1>. HIDE DEF t
<1>6. \A f \in File :
        /\ Doing(d, f)' = Doing(d, f) /\ Doing(d, f) \notin {"find", "fetch"}
        /\ News(d, f)' = News(d, f) /\ Sightings(d, f)' = Sightings(d, f)
  BY <1>1, SameQueues DEF Calm, Doing
<1>7. Runs(d) /\ Runs(d)' /\ Starting(d) /\ Starting(d)'
  BY <1>1, <1>3 DEF Runs, Starting
<1>8. \A f \in File : /\ Listed(d, f)' <=> Listed(d, f)
                      /\ Fetches(d, f)' <=> Fetches(d, f)
  BY <1>1, <1>2, <1>3, <1>5, <1>6 DEF Listed, Fetches
<1>9. \A f \in File : Kept(d, f)
  BY <1>1, <1>4, <1>6, <1>7, <1>8 DEF Kept
<1>10. Elsewhere(d, g)
  BY <1>1, <1>3, <1>4, <1>9 DEF Elsewhere, Apart, SameUser
<1>11. Calm(d)'
  BY <1>1, <1>3, <1>5, <1>6, <1>7 DEF Calm, Runs, Starting, Removes
<1>. QED
  BY <1>1, <1>3, <1>9, <1>10, <1>11, NothingDone

\* Nothing of the list is left: what d got is all it had to get.
LEMMA WatchConverges ==
  ASSUME TypeOK, Converges, NEW d \in Device, Watch(d)
  PROVE  Converges'
<1>. USE DEF server, device, user
<1>1. /\ Calm(d) /\ main[d].pc = "fetch" /\ main[d].todo = {}
      /\ UNCHANGED <<store, sessions, events, dir, known, notices, tasks, net, latest,
                     commands, scene>>
  BY DEF Converges, Watch
<1>2. /\ main'[d].pc = "run" /\ main'[d].todo = {}
      /\ \A e \in Device \ {d} : main'[e] = main[e]
  BY OfDevice DEF Watch, TypeOK, MainState
<1>3. /\ Runs(d) /\ Runs(d)' /\ Starting(d) /\ ~Starting(d)'
      /\ Items(tasks[d])' = Items(tasks[d])
  BY <1>1, <1>2 DEF Runs, Starting, Items
<1>4. \A f \in File :
        /\ Doing(d, f)' = Doing(d, f)
        /\ News(d, f)' = News(d, f) /\ Sightings(d, f)' = Sightings(d, f)
        /\ Orders(d, f)' = Orders(d, f)
  BY <1>1, <1>3, SameQueues DEF Doing, Orders
<1>5. \A f \in File : /\ Listed(d, f)' <=> Listed(d, f)
                      /\ Fetches(d, f)' <=> Fetches(d, f)
  BY <1>1, <1>2, <1>3, <1>4 DEF Listed, Fetches
<1>6. \A f \in File : Kept(d, f)
  BY <1>1, <1>3, <1>4, <1>5 DEF Kept
<1>7. PICK g \in File : TRUE
  BY FileSyncAssumption
<1>8. Elsewhere(d, g)
  BY <1>1, <1>2, <1>6 DEF Elsewhere, Apart, SameUser
<1>9. Calm(d)'
  BY <1>1, <1>2, <1>3, <1>4 DEF Calm, Runs, Starting, Removes
<1>. QED
  BY <1>1, <1>6, <1>8, <1>9, NothingDone
-----------------------------------------------------------------------------
(* What users do when nothing is left to be done *)

\* When nothing is left to be done no thread is busy with a file.
LEMMA QuietIdle ==
  ASSUME TypeOK, Converges, Quiet, NEW f \in File
  PROVE  Idle(f)
<1>1. ASSUME NEW d \in Device
      PROVE  /\ Doing(d, f) = "nothing" /\ ~Starting(d)
             /\ Runs(d) => News(d, f) = {} /\ Sightings(d, f) = {} /\ Orders(d, f) = {}
  <2>1. Calm(d)
    BY DEF Converges
  <2>2. ~Starting(d)
    BY DEF Quiet, Starting, Runs
  <2>3. Doing(d, f) = "nothing"
    BY <2>1 DEF Quiet, Calm, Doing
  <2>. QED
    BY <2>2, <2>3, ItemsEmpty DEF Quiet, News, Sightings, Orders
<1>2. ~Pending(f) /\ ~Someone(f, {"open", "write"})
  BY <1>1 DEF Pending, Wants, Someone
<1>3. store[f] = latest[f]
  BY <1>2 DEF Converges, FileRight, Stored
<1>. QED
  BY <1>1, <1>3 DEF Idle

\* What every device in use has then.
LEMMA IdleHas ==
  ASSUME Converges, NEW f \in File, Idle(f), NEW d \in Device, Watches(d)
  PROVE  /\ dir[d][f] = latest[f]
         /\ \A k \in Key : Has(d, f, k)
<1>1. Calm(d) /\ Knows(d, f)
  BY DEF Converges, FileRight
<1>2. Runs(d) /\ ~Fetches(d, f)
  BY <1>1, WatchesAll
<1>3. ~Someone(f, {"open", "write", "broadcast"}) /\ ~Pending(f)
  BY DEF Idle, Someone, Pending, Wants
<1>4. ~TellsAll(f) /\ ~Told(d, f)
  BY <1>2, <1>3 DEF TellsAll, Told, Idle
<1>5. Has(d, f, "network") /\ dir[d][f] = latest[f]
  BY <1>1, <1>2, <1>4 DEF Knows, Has
<1>6. Has(d, f, "inotify")
  BY <1>1, <1>2, <1>5 DEF Knows, Idle
<1>. QED
  BY <1>5, <1>6 DEF Key

\* Users who do not wait act once, when no file has been saved before.
LEMMA CommandIdle ==
  ASSUME TypeOK, Converges, Orderly, NEW d \in Device, NEW name, Command(d, name)
  PROVE  /\ commands' = commands + 1 /\ commands < MaxCommands /\ scene' = scene
         /\ commands \in Nat /\ MaxCommands \in Nat
         /\ name \in {"remove", "delete"} => Removes
         /\ \A f \in File : Idle(f)
<1>1. /\ commands' = commands + 1 /\ commands < scene.times /\ scene' = scene
      /\ name \in scene.commands
  BY DEF Command
<1>2. scene.times \in 0 .. MaxCommands /\ commands \in Nat /\ MaxCommands \in Nat
  BY FileSyncAssumption DEF TypeOK, Scene
<1>3. ASSUME NEW f \in File PROVE Idle(f)
  <2>1. CASE scene.patient
    BY <2>1, QuietIdle DEF Command
  <2>2. CASE ~scene.patient
    <3>1. commands = 0 /\ ~Removes
      BY <1>1, <1>2, <2>2 DEF Orderly
    <3>2. latest[f] \in Version /\ Virgin(f)
      BY OfFile
    <3>. QED
      BY <3>1, <3>2 DEF Version, Virgin, First, Absent
  <2>. QED
    BY <2>1, <2>2
<1>. QED
  BY <1>1, <1>2, <1>3 DEF Removes

\* A user changes a file, on the device or at the prompt.
LEMMA NewVersion ==
  ASSUME TypeOK, Converges, NEW d \in Device, NEW g \in File, Idle(g), Watches(d),
         latest'[g] = commands + 1 \/ (latest'[g] = Absent /\ Removes),
         latest'[g] # latest[g],
         commands' = commands + 1, commands < MaxCommands, scene' = scene,
         UNCHANGED <<store, known, net, main, events>>,
         \A e \in Device \ {d} :
           notices'[e] = notices[e] /\ tasks'[e] = tasks[e] /\ dir'[e] = dir[e],
         \A t \in Items(tasks[d])' : t.type # "fetch",
         \/ /\ dir'[d][g] = latest'[g] /\ Orders(d, g)' = {}
            /\ Sightings(d, g)' = {[type |-> EventType(latest'[g]), file |-> g]}
         \/ /\ dir'[d][g] = dir[d][g] /\ Sightings(d, g)' = {}
            /\ \E t \in Orders(d, g)' :
                 /\ Orders(d, g)' = {t}
                 /\ t.type = "delete" <=> latest'[g] = Absent
                 /\ t.type = "upload" => t.from # Absent /\ t.from = latest'[g]
  PROVE  FileRight(g)'
<1>. DEFINE n == latest'[g]
<1>1. commands \in Nat /\ MaxCommands \in Nat
  BY FileSyncAssumption DEF TypeOK
<1>2. /\ Stored(g) /\ Recent(g) /\ store[g] = latest[g] /\ Empty # Absent
      /\ latest[g] \in Version /\ latest[g] # Empty /\ latest[g] # Unknown
  BY OfFile DEF Idle
<1>3. /\ commands + 1 \notin Version /\ commands + 1 # Unknown /\ n # Unknown
      /\ commands + 1 # Absent /\ Version \subseteq Version' /\ n \in Version'
      /\ commands + 1 # MaxCommands + 1
  BY <1>1 DEF Version, Unknown, Absent
<1>4. ASSUME NEW e \in Device
      PROVE  /\ Runs(e)' <=> Runs(e)
             /\ Starting(e)' <=> Starting(e)
             /\ Doing(e, g)' = Doing(e, g)
             /\ Doing(e, g) \in {"nothing", "find", "fetch"}
             /\ News(e, g)' = News(e, g)
             /\ Listed(e, g)' <=> Listed(e, g)
             /\ Removes /\ Runs(e) => Watches(e)
             /\ Runs(e) => News(e, g) = {} /\ Sightings(e, g) = {} /\ Orders(e, g) = {}
             /\ Starting(e) => \A k \in Key : known[e][g][k] = Unknown
             /\ Calm(e) /\ Handles(e, g) /\ (Starting(e) => ~Removes)
  <2>1. Doing(e, g)' = Doing(e, g)
    BY DEF Doing
  <2>2. Calm(e) /\ Handles(e, g) /\ main[e] \in MainState
    BY OfFile, OfDevice
  <2>3. Removes /\ Runs(e) => Watches(e)
    BY <2>2 DEF Calm, Runs, Watches, Starting, MainState
  <2>4. Listed(e, g)' <=> Listed(e, g)
    <3>1. CASE e = d
      BY <2>1, <2>2, <3>1, WatchesAll DEF Listed
    <3>2. CASE e # d
      BY <2>1, <3>2, SameQueues DEF Listed
    <3>. QED
      BY <3>1, <3>2
  <2>. QED
    BY <2>1, <2>2, <2>3, <2>4, SameQueues DEF Runs, Starting, Idle, Calm
<1>5. ASSUME NEW e \in Device, Runs(e)
      PROVE  /\ dir[e][g] # n
             /\ \A k \in Key : known[e][g][k] # Mark(n)
  <2>1. CASE n = commands + 1
    BY <1>2, <1>3, <2>1 DEF Recent, Mark
  <2>2. CASE n = Absent /\ Removes
    <3>1. Watches(e)
      BY <1>4, <1>5, <2>2
    <3>2. dir[e][g] = latest[g] /\ \A k \in Key : known[e][g][k] = latest[g]
      BY <2>2, <3>1, IdleHas DEF Has, Mark
    <3>. QED
      BY <1>2, <2>2, <3>2 DEF Mark
  <2>. QED
    BY <2>1, <2>2
<1>6. Runs(d)
  BY <1>4, WatchesAll
<1>7. Pending(g)'
  <2>1. known'[d][g]["inotify"] # Mark(n)
    BY <1>5, <1>6 DEF Key
  <2>2. Wants(d, g)'
    BY <2>1 DEF Wants
  <2>. QED
    BY <1>4, <1>6, <2>2 DEF Pending
<1>8. TellsAll(g)'
  <2>1. n = Absent => store'[g] # Absent
    BY <1>2
  <2>. QED
    BY <1>7, <2>1 DEF TellsAll
<1>9. \A e \in Device : Runs(e)' => ~Told(e, g)'
  BY <1>4 DEF Told
<1>10. Stored(g)'
  <2>1. ~Someone(g, {"write"})' /\ ~Someone(g, {"broadcast"})'
    BY <1>4 DEF Someone
  <2>2. n # Absent => ~Learnt(g)'
    <3>1. ASSUME n # Absent, NEW e \in Device, Runs(e)' PROVE ~Heard(e, g)'
      BY <1>4, <1>5, <1>9, <3>1 DEF Heard, Mark, Key
    <3>. QED
      BY <2>1, <3>1 DEF Learnt
  <2>3. \A e \in Device : /\ Runs(e)' /\ Listed(e, g)' => store[g] # Absent
                          /\ Doing(e, g)' = "fetch" => net'[e].seen = store[g]
    BY <1>2, <1>4 DEF Stored
  <2>. QED
    BY <1>2, <1>7, <2>1, <2>2, <2>3 DEF Stored
<1>11. Recent(g)'
  <2>1. \A e \in Device : dir'[e][g] \in {n, dir[e][g]}
    OBVIOUS
  <2>2. /\ store'[g] \in Version' \cup {Empty}
        /\ \A e \in Device :
             /\ dir'[e][g] \in Version'
             /\ \A k \in Key : known'[e][g][k] \in Version' \cup {Unknown}
    BY <1>2, <1>3, <2>1 DEF Recent
  <2>. QED
    BY <1>3, <2>2 DEF Recent
<1>12. Virgin(g)'
  <2>1. ~Removes => n \notin First
    BY <1>3 DEF First
  <2>. QED
    BY <2>1 DEF Virgin, Removes, First
<1>13. \A e \in Device : Handles(e, g)'
  BY <1>4 DEF Handles
<1>14. ASSUME NEW e \in Device PROVE Carries(e, g)' /\ Knows(e, g)'
  <2>. SUFFICES ASSUME Runs(e) PROVE Carries(e, g)' /\ Knows(e, g)'
    BY <1>4 DEF Carries, Knows
  <2>1. /\ News(e, g)' = {} /\ known'[e][g]["network"] # Mark(n)
        /\ Starting(e)' => \A k \in Key : known'[e][g][k] = Unknown
    BY <1>4, <1>5 DEF Key
  <2>2. CASE e = d
    <3>1. ~Starting(e)'
      BY <1>4, <2>2, WatchesAll
    <3>2. Carries(e, g)'
      BY <1>5, <2>1, <2>2 DEF Carries
    <3>3. dir'[e][g] = n => Sightings(e, g)' # {}
      BY <1>5, <2>2
    <3>. QED
      BY <1>8, <2>1, <3>1, <3>2, <3>3 DEF Knows
  <2>3. CASE e # d
    <3>1. Sightings(e, g)' = {} /\ Orders(e, g)' = {} /\ dir'[e][g] # n
      BY <1>4, <1>5, <2>3, SameQueues
    <3>2. Carries(e, g)'
      BY <2>1, <3>1 DEF Carries
    <3>. QED
      BY <1>8, <2>1, <3>1, <3>2 DEF Knows, Key
  <2>. QED
    BY <2>2, <2>3
<1>. QED
  BY <1>10, <1>11, <1>12, <1>13, <1>14 DEF FileRight

\* A command that d gets leaves other files alone.
LEMMA CommandKept ==
  ASSUME TypeOK, Converges, NEW d \in Device, Watches(d),
         UNCHANGED <<store, sessions, events, known, net>>,
         \A e \in Device \ {d} :
           /\ main'[e] = main[e] /\ notices'[e] = notices[e]
           /\ tasks'[e] = tasks[e] /\ dir'[e] = dir[e],
         main'[d].pc \in {"run", "listing"}, main'[d].todo = main[d].todo,
         \A t \in Items(tasks[d])' : t.type # "fetch",
         NEW f \in File,
         dir'[d][f] = dir[d][f], Sightings(d, f)' = Sightings(d, f),
         Orders(d, f)' = Orders(d, f)
  PROVE  \A e \in Device : Kept(e, f)
<1>1. \A e \in Device \ {d} : Kept(e, f)
  BY KeptDevice
<1>2. Kept(d, f)
  <2>1. /\ Runs(d) /\ ~Starting(d) /\ main[d].todo = {} /\ Calm(d)
        /\ ~Listed(d, f) /\ ~Fetches(d, f)
    BY WatchesAll DEF Converges
  <2>2. Doing(d, f)' = Doing(d, f) /\ Doing(d, f) \notin {"find", "fetch"}
    BY <2>1 DEF Doing, Listed
  <2>3. /\ Runs(d)' /\ ~Starting(d)' /\ ~Listed(d, f)' /\ ~Fetches(d, f)'
    BY <2>1, <2>2 DEF Runs, Starting, Listed, Fetches
  <2>. QED
    BY <2>1, <2>2, <2>3, SameQueues DEF Kept
<1>. QED
  BY <1>1, <1>2

\* A command puts tasks and notices about one file in the queues of a device.
LEMMA CommandDone ==
  ASSUME TypeOK, Converges, NEW d \in Device, NEW g \in File, Watches(d),
         commands' = commands + 1, scene' = scene,
         UNCHANGED <<store, sessions, events, known, net>>,
         \A e \in Device \ {d} :
           /\ main'[e] = main[e] /\ notices'[e] = notices[e]
           /\ tasks'[e] = tasks[e] /\ dir'[e] = dir[e],
         main'[d].pc \in {"run", "listing"}, main'[d].todo = main[d].todo,
         \A t \in Items(tasks[d])' : t.type # "fetch",
         \A f \in File \ {g} :
           /\ latest'[f] = latest[f] /\ dir'[d][f] = dir[d][f]
           /\ Sightings(d, f)' = Sightings(d, f) /\ Orders(d, f)' = Orders(d, f),
         FileRight(g)'
  PROVE  Converges'
<1>1. Calm(d)'
  <2>1. /\ Calm(d) /\ Runs(d) /\ ~Starting(d) /\ main[d].todo = {}
        /\ main[d].pc \in {"run", "listing"}
    BY WatchesAll DEF Converges, Watches
  <2>2. \A f \in File : Doing(d, f)' = Doing(d, f)
    BY DEF Doing
  <2>3. Runs(d)' /\ ~Starting(d)'
    BY DEF Runs, Starting
  <2>. QED
    BY <2>1, <2>2, <2>3 DEF Calm
<1>2. \A e \in Device \ {d} : Calm(e)'
  BY CalmKept DEF Converges
<1>3. ASSUME NEW f \in File \ {g} PROVE FileRight(f)'
  <2>1. \A e \in Device : Kept(e, f)
    BY CommandKept
  <2>. QED
    BY <2>1, KeptFile DEF Converges
<1>. QED
  BY <1>1, <1>2, <1>3 DEF Converges

\* A file in the directory changes.
LEMMA SaveConverges ==
  ASSUME TypeOK, Converges, Orderly, NEW d \in Device, NEW g \in File,
         Save(d, g) \/ RemoveFile(d, g)
  PROVE  Converges'
<1>1. /\ Watches(d) /\ New = commands + 1
      /\ UNCHANGED <<store, sessions, events, known, tasks, main, net>>
      /\ Put(d, g, latest'[g]) /\ \A f \in File \ {g} : latest'[f] = latest[f]
      /\ \/ latest'[g] = New
         \/ latest'[g] = Absent /\ dir[d][g] # Absent /\ RemoveFile(d, g)
  BY DEF Save, RemoveFile, New, TypeOK, server
<1>2. /\ commands' = commands + 1 /\ commands < MaxCommands /\ scene' = scene
      /\ commands \in Nat /\ MaxCommands \in Nat
      /\ RemoveFile(d, g) => Removes
      /\ \A f \in File : Idle(f)
  BY CommandIdle DEF Save, RemoveFile
<1>3. /\ dir[d][g] = latest[g] /\ latest[g] \in Version
      /\ commands + 1 \notin Version /\ commands + 1 # Absent
  BY <1>1, <1>2, IdleHas, OfFile DEF Version, Absent
<1>4. /\ latest'[g] = commands + 1 \/ (latest'[g] = Absent /\ Removes)
      /\ latest'[g] # latest[g]
  BY <1>1, <1>2, <1>3
<1>5. /\ Runs(d) /\ Sightings(d, g) = {} /\ Orders(d, g) = {}
      /\ \A t \in Items(tasks[d]) : t.type # "fetch"
  BY <1>1, <1>2, WatchesAll DEF Idle, Converges
<1>6. /\ dir'[d][g] = latest'[g]
      /\ \A f \in File \ {g} : dir'[d][f] = dir[d][f] /\ Sightings(d, f)' = Sightings(d, f)
      /\ Sightings(d, g)' = {[type |-> EventType(latest'[g]), file |-> g]}
      /\ \A e \in Device \ {d} : dir'[e] = dir[e] /\ notices'[e] = notices[e]
  <2>1. ~(latest'[g] = Absent /\ dir[d][g] = Absent)
    BY <1>3, <1>4
  <2>. QED
    BY <1>1, <1>5, <2>1, FilePut
<1>7. /\ \A f \in File : Orders(d, f)' = Orders(d, f)
      /\ \A t \in Items(tasks[d])' : t.type # "fetch"
  BY <1>1, <1>5, SameQueues
<1>8. FileRight(g)'
  BY <1>1, <1>2, <1>4, <1>5, <1>6, <1>7, NewVersion
<1>9. main'[d].pc \in {"run", "listing"} /\ main'[d].todo = main[d].todo
  BY <1>1 DEF Watches
<1>. QED
  BY <1>1, <1>2, <1>6, <1>7, <1>8, <1>9, CommandDone

\* The user gives a task to the network thread.
LEMMA PromptConverges ==
  ASSUME TypeOK, Converges, Orderly, NEW d \in Device, NEW g \in File,
         CliUpload(d, g) \/ CliDelete(d, g) \/ CliDownload(d, g) \/ ListServer(d, g)
  PROVE  Converges'
<1>1. /\ Watches(d) /\ New = commands + 1
      /\ UNCHANGED <<store, sessions, events, dir, known, notices, net>>
      /\ \A f \in File \ {g} : latest'[f] = latest[f]
      /\ \A e \in Device \ {d} : main'[e] = main[e]
  BY DEF CliUpload, CliDelete, CliDownload, ListServer, Watches, New, TypeOK, server
<1>2. /\ commands' = commands + 1 /\ commands < MaxCommands /\ scene' = scene
      /\ commands \in Nat /\ MaxCommands \in Nat
      /\ CliDelete(d, g) => Removes
      /\ \A f \in File : Idle(f)
  BY CommandIdle DEF CliUpload, CliDelete, CliDownload, ListServer
<1>3. /\ main'[d].pc \in {"run", "listing"} /\ main'[d].todo = main[d].todo
      /\ ~ListServer(d, g) => main' = main
  BY OfDevice DEF CliUpload, CliDelete, CliDownload, ListServer, TypeOK, MainState
<1>4. /\ dir[d][g] = latest[g] /\ latest[g] \in Version /\ New \in Content
      /\ commands + 1 \notin Version /\ commands + 1 # Absent
  BY <1>1, <1>2, IdleHas, OfFile DEF Version, Absent, Content
<1>5. /\ Runs(d) /\ Sightings(d, g) = {} /\ Orders(d, g) = {}
      /\ \A t \in Items(tasks[d]) : t.type # "fetch"
  BY <1>1, <1>2, WatchesAll DEF Idle, Converges
<1>6. PICK type \in {"list", "upload", "download", "delete"}, from \in Content :
        /\ Push(d, type, g, from)
        /\ \/ type = "upload" /\ from = New /\ latest'[g] = New /\ main' = main
           \/ /\ type = "delete" /\ latest'[g] = Absent /\ latest[g] # Absent
              /\ Removes /\ main' = main
           \/ type \in {"list", "download"} /\ latest' = latest
  <2>1. CASE CliUpload(d, g)
    BY <1>3, <1>4, <2>1 DEF CliUpload, TypeOK
  <2>2. CASE CliDelete(d, g)
    BY <1>2, <1>3, <1>4, <2>2, Constants DEF CliDelete, TypeOK
  <2>3. CASE CliDownload(d, g) \/ ListServer(d, g)
    BY <2>3, Constants DEF CliDownload, ListServer
  <2>. QED
    BY <2>1, <2>2, <2>3
<1>. DEFINE t == [type |-> type, file |-> g, from |-> from]
<1>7. /\ Items(tasks[d])' = Items(tasks[d]) \cup {t}
      /\ Orders(d, g)' = IF type \in {"upload", "delete"} THEN {t} ELSE {}
      /\ \A f \in File \ {g} : Orders(d, f)' = Orders(d, f)
      /\ \A e \in Device \ {d} : tasks'[e] = tasks[e]
  BY <1>5, <1>6, TaskPushed
<1>8. \A u \in Items(tasks[d])' : u.type # "fetch"
  BY <1>5, <1>7
<1>9. \A f \in File : Sightings(d, f)' = Sightings(d, f)
  BY <1>1, SameQueues
<1>10. FileRight(g)'
  <2>1. CASE type \in {"upload", "delete"}
    <3>1. /\ main' = main /\ latest'[g] # latest[g]
          /\ latest'[g] = commands + 1 \/ (latest'[g] = Absent /\ Removes)
      BY <1>1, <1>4, <1>6, <2>1
    <3>2. \E u \in Orders(d, g)' :
            /\ Orders(d, g)' = {u}
            /\ u.type = "delete" <=> latest'[g] = Absent
            /\ u.type = "upload" => u.from # Absent /\ u.from = latest'[g]
      <4>1. /\ t.type = type /\ t.from = from /\ Orders(d, g)' = {t}
        BY <1>7, <2>1
      <4>2. /\ t.type = "delete" <=> latest'[g] = Absent
            /\ t.type = "upload" => t.from # Absent /\ t.from = latest'[g]
        BY <1>1, <1>4, <1>6, <2>1, <4>1
      <4>. HIDE DEF t
      <4>. QED
        BY <4>1, <4>2
    <3>. HIDE DEF t
    <3>. QED
      BY <1>1, <1>2, <1>5, <1>7, <1>8, <1>9, <3>1, <3>2, NewVersion
  <2>2. CASE type \notin {"upload", "delete"}
    <3>1. latest' = latest /\ Orders(d, g)' = Orders(d, g)
      BY <1>5, <1>6, <1>7, <2>2
    <3>. HIDE DEF t
    <3>2. \A e \in Device : Kept(e, g)
      BY <1>1, <1>3, <1>7, <1>8, <1>9, <3>1, CommandKept
    <3>. QED
      BY <1>1, <1>2, <3>1, <3>2, KeptFile DEF Converges
  <2>. QED
    BY <2>1, <2>2
<1>. HIDE DEF t
<1>. QED
  BY <1>1, <1>2, <1>3, <1>7, <1>8, <1>9, <1>10, CommandDone

\* A user closes a device that has nothing left to do, or the only command.
LEMMA ExitConverges ==
  ASSUME TypeOK, Converges, Orderly, NEW d \in Device, CliExit(d)
  PROVE  Converges'
<1>1. /\ UNCHANGED <<store, sessions, events, dir, known, notices, tasks, net, latest>>
      /\ main[d].pc = "run" /\ Calm(d) /\ Watches(d)
  BY DEF CliExit, server, Converges, Watches
<1>2. /\ main'[d].pc = "ended" /\ main'[d].todo = main[d].todo
      /\ \A e \in Device \ {d} : main'[e] = main[e]
  <2>1. main' = [main EXCEPT ![d].pc = "ended"]
    BY DEF CliExit, End
  <2>. QED
    BY <2>1, OfDevice DEF TypeOK, MainState
<1>3. /\ commands' = commands + 1 /\ scene' = scene
      /\ \A f \in File : Idle(f)
  BY CommandIdle DEF CliExit
<1>4. Apart(d)
  BY <1>1, <1>2, <1>3 DEF Apart, SameUser
<1>5. /\ ~Runs(d)' /\ ~Starting(d)'
      /\ \A f \in File : Doing(d, f) = "nothing" /\ Doing(d, f)' = "nothing"
  BY <1>1, <1>2, <1>3 DEF Runs, Starting, Doing, Calm, Idle
<1>6. Calm(d)'
  <2>1. Items(tasks[d])' = Items(tasks[d])
    BY <1>1 DEF Items
  <2>. QED
    BY <1>1, <1>2, <1>5, <2>1 DEF Calm
<1>7. ASSUME NEW f \in File
      PROVE  /\ Carries(d, f)' /\ Handles(d, f)' /\ Knows(d, f)' /\ Stored(f)'
             /\ Virgin(f)' /\ store'[f] = store[f] /\ dir'[d][f] \in Version
             /\ \A k \in Key : known'[d][f][k] \in Version \cup {Unknown}
             /\ TellsAll(f) => TellsAll(f)'
  <2>1. /\ Stored(f) /\ Virgin(f) /\ dir[d][f] \in Version
        /\ \A k \in Key : known[d][f][k] \in Version \cup {Unknown}
    BY OfFile
  <2>2. ~Wants(d, f)
    BY <1>1, <1>3, WatchesAll DEF Wants, Idle
  <2>3. Stored(f)' /\ (TellsAll(f) => TellsAll(f)')
    BY <1>1, <1>4, <1>5, <2>1, <2>2, StillStored
  <2>4. Virgin(f)'
    BY <1>1, <1>4, <1>5, <2>1, StillVirgin
  <2>5. Carries(d, f)' /\ Handles(d, f)' /\ Knows(d, f)'
    BY <1>5 DEF Carries, Handles, Knows
  <2>. QED
    BY <1>1, <2>1, <2>3, <2>4, <2>5
<1>. QED
  BY <1>4, <1>6, <1>7, AllDone
-----------------------------------------------------------------------------
(* Users who wait: the theorem *)

LEMMA ConvergesInitially == Init /\ Orderly => Converges
<1>. SUFFICES ASSUME Init, Orderly PROVE Converges
  OBVIOUS
<1>1. ASSUME NEW f \in File PROVE FileRight(f)
  <2>1. /\ store[f] = scene.initial[f] /\ latest[f] = scene.initial[f]
        /\ commands = 0 /\ scene.initial[f] \in First
        /\ First \subseteq Version /\ Empty \notin First /\ Absent \in First
    BY FileSyncAssumption DEF Init, Orderly, First, Version, Absent, Empty
  <2>2. ASSUME NEW d \in Device
        PROVE  /\ Doing(d, f) = "nothing" /\ ~Listed(d, f)
               /\ News(d, f) = {} /\ Sightings(d, f) = {} /\ Orders(d, f) = {}
               /\ Runs(d) => dir[d][f] = scene.initial[f]
               /\ dir[d][f] \in First /\ ~Starting(d)
               /\ \A k \in Key : known[d][f][k] = Unknown
    <3>1. /\ net[d].pc \in {"task", "off"} /\ net[d].for = "event"
          /\ main[d].pc \in {"run", "off"} /\ main[d].todo = {}
          /\ main[d].pc = "run" <=> d \in scene.running
          /\ events[d] = << >> /\ notices[d] = << >> /\ tasks[d] = << >>
      BY DEF Init
    <3>2. dir[d][f] = IF d \in scene.running THEN scene.initial[f] ELSE Absent
      BY DEF Init
    <3>3. \A k \in Key : known[d][f][k] = Unknown
      BY DEF Init
    <3>4. Doing(d, f) = "nothing"
      BY <3>1 DEF Doing
    <3>. QED
      BY <2>1, <3>1, <3>2, <3>3, <3>4, ItemsEmpty
         DEF News, Sightings, Orders, Listed, Runs, Starting
  <2>3. /\ ~Someone(f, {"write"}) /\ ~Someone(f, {"read", "fetch"})
        /\ \A d \in Device : Runs(d) => ~Told(d, f)
    BY <2>2 DEF Someone, Told
  <2>4. Stored(f) /\ Recent(f)
    BY <2>1, <2>2, <2>3 DEF Stored, Recent
  <2>5. Virgin(f)
    BY <2>1, <2>2 DEF Virgin, Idle
  <2>6. ASSUME NEW d \in Device PROVE Carries(d, f) /\ Handles(d, f) /\ Knows(d, f)
    <3>1. Runs(d) => Has(d, f, "network") /\ Has(d, f, "inotify")
      <4>1. Removes => scene.initial[f] = Absent
        BY DEF Orderly
      <4>. QED
        BY <2>1, <2>2, <4>1 DEF Has, Mark, Key
    <3>. QED
      BY <2>1, <2>2, <3>1 DEF Carries, Handles, Knows
  <2>. QED
    BY <2>4, <2>5, <2>6 DEF FileRight
<1>2. ASSUME NEW d \in Device PROVE Calm(d)
  <2>1. /\ net[d].pc = (IF d \in scene.running THEN "task" ELSE "off")
        /\ main[d].pc = (IF d \in scene.running THEN "run" ELSE "off")
        /\ sessions[d] = (IF d \in scene.running THEN 1 ELSE 0)
        /\ net[d].for = "event" /\ ~net[d].leaving /\ main[d].todo = {}
        /\ events[d] = << >> /\ notices[d] = << >> /\ tasks[d] = << >>
        /\ d \notin scene.running => \A f \in File :
             dir[d][f] = Absent /\ \A k \in Key : known[d][f][k] = Unknown
    BY DEF Init
  <2>2. \A f \in File : Doing(d, f) = "nothing"
    BY <2>1 DEF Doing
  <2>. QED
    BY <2>1, <2>2, ItemsEmpty DEF Calm, Runs, Starting, Off
<1>. QED
  BY <1>1, <1>2 DEF Converges

LEMMA SameConverges ==
  ASSUME TypeOK, Converges, UNCHANGED vars
  PROVE  Converges'
<1>1. /\ UNCHANGED <<store, sessions, events, dir, known, notices, tasks, main, net>>
      /\ UNCHANGED <<scene, latest, commands>>
  BY DEF vars, server, device, user
<1>2. \A d \in Device, f \in File : Kept(d, f)
  BY <1>1, KeptDevice
<1>3. \A d \in Device : Calm(d)'
  BY <1>1, CalmKept DEF Converges
<1>. QED
  BY <1>1, <1>2, <1>3, KeptFile DEF Converges

LEMMA NextConverges ==
  ASSUME TypeOK, Converges, Orderly, [Next]_vars
  PROVE  Converges'
<1>1. CASE UNCHANGED vars
  BY <1>1, SameConverges
<1>2. ASSUME NEW d \in Device, MainThread(d)
      PROVE  Converges'
  BY <1>2, CleanConverges, FetchConverges, WatchConverges DEF MainThread
<1>3. ASSUME NEW d \in Device, NetworkThread(d)
      PROVE  Converges'
  <2>1. CASE Connect(d) \/ ListTask(d) \/ DownloadTask(d) \/ NoEvent(d)
    BY <2>1, ConnectConverges, ListedConverges, FetchTaskConverges, IdleTask, IdleStep
  <2>2. CASE UploadTask(d) \/ DeleteTask(d) \/ NextEvent(d) \/ Apply(d) \/ Drop(d)
    BY <2>2, UploadConverges, DeleteConverges, NextEventConverges, AppliedConverges
  <2>. QED
    BY <1>3, <2>1, <2>2 DEF NetworkThread
<1>4. ASSUME NEW d \in Device, SessionThread(d)
      PROVE  Converges'
  <2>1. CASE Open(d) \/ Write(d) \/ Broadcast(d) \/ SessionEnds(d)
    BY <2>1, OpenConverges, WriteConverges, BroadcastConverges, IdleStep DEF Orderly
  <2>2. CASE NoFile(d) \/ Measure(d) \/ Read(d) \/ ReadForever(d)
    <3>1. net[d].for \in {"event", "fetch", "download"}
      BY OfDevice DEF NetState
    <3>. QED
      BY <2>2, <3>1, NeverMissing, MeasureConverges, ReadConverges, FetchedConverges,
         IdleStep DEF Orderly
  <2>. QED
    BY <1>4, <2>1, <2>2 DEF SessionThread
<1>5. ASSUME NEW d \in Device, UserActs(d)
      PROVE  Converges'
  <2>1. scene.files \subseteq File
    BY FileSyncAssumption DEF TypeOK, Scene
  <2>. QED
    BY <1>5, <2>1, StartConverges, SaveConverges, PromptConverges, ExitConverges
       DEF UserActs
<1>. QED
  BY <1>1, <1>2, <1>3, <1>4, <1>5, NotifyConverges DEF Next

\* The situation never changes.
LEMMA SceneKept ==
  ASSUME [Next]_vars
  PROVE  scene' = scene
<1>1. CASE UNCHANGED vars
  BY <1>1 DEF vars, user
<1>2. ASSUME NEW d \in Device, MainThread(d) \/ NotifyThread(d) \/ SessionThread(d)
      PROVE  scene' = scene
  BY <1>2 DEF user, MainThread, Clean, Fetch, Watch, NotifyThread, NotifyModified, NotifyDeleted,
     SessionThread, Open, Write, Broadcast, NoFile, Measure, Read, ReadForever, SessionEnds
<1>3. ASSUME NEW d \in Device, NetworkThread(d)
      PROVE  scene' = scene
  BY <1>3 DEF user, NetworkThread, Connect, ListTask, UploadTask, DeleteTask, DownloadTask,
     NextEvent, NoEvent, Apply, Drop
<1>4. ASSUME NEW d \in Device, UserActs(d)
      PROVE  scene' = scene
  BY <1>4 DEF user, UserActs, Start, CliExit, Save, RemoveFile, CliUpload, CliDownload,
     CliDelete, ListServer, Command
<1>. QED
  BY <1>1, <1>2, <1>3, <1>4 DEF Next

\* Where users wait until everything has settled, or give one command at all
\* that removes nothing, all echoes of a change end with the version of the
\* user: when nothing is left to be done the server and every device that runs
\* have it, however many devices and files there are, and whatever else users
\* do.  Devices may start meanwhile and download what the server lists, unless
\* users remove files (app.cpp:46-119, main.cpp:48-69, network.cpp:95-263,
\* server.cpp:120-190, client.cpp:129-166 of the server).
THEOREM LatestKept == Spec => [](Orderly => KeepsLatest)
<1>. DEFINE Inv == TypeOK /\ (Orderly => Converges)
<1>1. Init => Inv
  BY TypedInitially, ConvergesInitially
<1>2. Inv /\ [Next]_vars => Inv'
  <2>. SUFFICES ASSUME Inv, [Next]_vars PROVE Inv'
    OBVIOUS
  <2>1. TypeOK'
    BY NextTyped
  <2>2. scene' = scene
    BY SceneKept
  <2>3. Orderly' => Orderly
    BY <2>2 DEF Orderly, Removes, First
  <2>. QED
    BY <2>1, <2>3, NextConverges
<1>3. Inv => (Orderly => KeepsLatest)
  <2>. SUFFICES ASSUME TypeOK, Converges, Quiet
                PROVE  \A f \in File : /\ store[f] = latest[f]
                                       /\ \A d \in Device : Runs(d) => dir[d][f] = latest[f]
    BY DEF KeepsLatest
  <2>1. ASSUME NEW f \in File
        PROVE  /\ store[f] = latest[f]
               /\ \A d \in Device : Runs(d) => dir[d][f] = latest[f]
    <3>1. Idle(f)
      BY QuietIdle
    <3>2. ASSUME NEW d \in Device, Runs(d)
          PROVE  dir[d][f] = latest[f]
      <4>1. Watches(d)
        BY <3>2 DEF Quiet, Watches
      <4>. QED
        BY <3>1, <4>1, IdleHas
    <3>. QED
      BY <3>1, <3>2 DEF Idle
  <2>. QED
    BY <2>1
<1>. QED
  BY <1>1, <1>2, <1>3, PTL DEF Spec
=============================================================================
