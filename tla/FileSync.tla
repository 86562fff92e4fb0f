------------------------------ MODULE FileSync ------------------------------
(***************************************************************************)
(* The synchronised directory of one user: the devices that run the client *)
(* (client/src), the directory the primary keeps for the user and the      *)
(* sessions through which it tells every device of a change (server.cpp,   *)
(* client.cpp and file_manager.cpp of server/src).                         *)
(*                                                                         *)
(* On a device the main thread is the prompt, the notify thread reads      *)
(* inotify, and the network thread executes tasks and asks for events.  It *)
(* waits for every answer, so a step of the session's thread on the server *)
(* is a step of net[d] too.  The primary has no backups here.              *)
(*                                                                         *)
(* A content is a number: two saves never have the same one, all that are  *)
(* not empty have the same length, and equal hashes mean equal contents.   *)
(***************************************************************************)
EXTENDS Integers, Sequences, FiniteSets

CONSTANTS
  Device, File,
  Scenes,           \* the situations to start from
  MaxCommands,      \* bound on how often users do something
  MaxChanges,       \* bound on how often sessions write or remove a file
  AtomicFiles,      \* do sessions never use a file while another writes it?
  MaxConnections    \* MAX_ACTIVE_CONNECTIONS

Absent == 0      \* no file; also hash_file's result then
Empty == -1      \* a file of length zero
Garbage == -2    \* what an uninitialised buffer holds
Unknown == -3    \* no entry in dir_hash

Content == {Garbage, Empty} \cup 0 .. MaxCommands + 1

\* A name from inotify keeps its padding and is another key of dir_hash than
\* the name from the server.
Key == {"inotify", "network"}

CommandName ==
  {"save", "remove", "upload", "download", "delete", "list", "exit"}

\* The devices that run and those that may start, the server's files and the
\* files users touch, what they do and how often, and whether they wait until
\* everything has settled.
Scene ==
  [running : SUBSET Device, starting : SUBSET Device,
   initial : [File -> Content], files : SUBSET File,
   commands : SUBSET CommandName, times : 0 .. MaxCommands, patient : BOOLEAN]

ASSUME FileSyncAssumption ==
  /\ IsFiniteSet(Device) /\ File # {}
  /\ Scenes \subseteq Scene
  /\ MaxCommands \in Nat /\ MaxChanges \in Nat /\ MaxConnections \in Nat \ {0}
  /\ AtomicFiles \in BOOLEAN

VARIABLES
  scene,      \* the situation this behaviour starts from
  store,      \* sync_dir_<user> on the server
  sessions,   \* how many entries of clients belong to each device
  events,     \* pending_events of the session each device uses
  dir,        \* sync_dir_<user> on each device
  known,      \* App::dir_hash
  notices,    \* the inotify queue
  tasks,      \* task_queue
  main,       \* the main thread
  net,        \* the network thread and the session's thread on the server
  commands,   \* how many commands users gave
  latest,     \* what the user last did to each file
  changes     \* how often sessions wrote or removed a file

server == <<store, sessions, events>>
device == <<dir, known, notices, tasks, main>>
user == <<scene, commands, latest>>
vars == <<server, device, net, user, changes>>

Event == [type : {"modified", "deleted"}, file : File]

Task == [type : {"list", "fetch", "upload", "download", "delete"},
         file : File, from : Content]

MainState ==
  [pc : {"off", "clean", "list", "fetch", "fetching", "run", "listing",
         "ended"},
   todo : SUBSET File]

NetState ==
  [pc : {"off", "connect", "task", "update", "open", "write", "broadcast",
         "measure", "read", "hung", "apply", "drop"},
   for : {"event", "fetch", "download"}, event : Event,
   sent : Content, seen : Content, linked : BOOLEAN, buf : Content,
   leaving : BOOLEAN]

Runs(d) == main[d].pc \notin {"off", "ended"}
Watches(d) == main[d].pc \in {"run", "listing"}

\* list_server holds App::mutex until its task is done.
MutexFree(d) == main[d].pc # "listing"

Push(d, type, f, from) ==
  tasks' = [tasks EXCEPT
              ![d] = Append(@, [type |-> type, file |-> f, from |-> from])]

\* The content c reaches the directory of d; inotify tells the watcher.
Put(d, f, c) ==
  /\ dir' = [dir EXCEPT ![d][f] = c]
  /\ notices' =
       IF ~Watches(d) \/ (c = Absent /\ dir[d][f] = Absent) THEN notices
       ELSE [notices EXCEPT ![d] = Append(@,
              [type |-> IF c = Absent THEN "deleted" ELSE "modified",
               file |-> f])]

-----------------------------------------------------------------------------
(* Connecting *)

End(d) == main' = [main EXCEPT ![d].pc = "ended"]

Start(d) ==
  /\ main[d].pc = "off" /\ d \in scene.starting
  /\ main' = [main EXCEPT ![d].pc = "clean"]
  /\ net' = [net EXCEPT ![d].pc = "connect"]
  /\ UNCHANGED <<server, dir, known, notices, tasks, user, changes>>

\* The entries of the server's list that belong to this user.
Clients == UNION {{d} \X (1 .. sessions[d]) : d \in Device}

\* client_new under global_mutex; a refused client exits.  A connection that
\* is being replaced is not closed, and its session stays.
Connect(d) ==
  /\ Runs(d) /\ net[d].pc = "connect"
  /\ IF Cardinality(Clients) < MaxConnections
     THEN /\ sessions' = [sessions EXCEPT ![d] = @ + 1]
          /\ events' = [events EXCEPT ![d] = << >>]
          /\ net' = [net EXCEPT ![d].pc = "task", ![d].buf = Garbage,
                                ![d].leaving = FALSE]
          /\ UNCHANGED main
     ELSE End(d) /\ UNCHANGED <<sessions, events, net>>
  /\ UNCHANGED <<store, dir, known, notices, tasks, user, changes>>

\* Mutant: an entry is removed twice.
SessionEndsTwice(d) ==
  /\ main[d].pc = "ended"
  /\ net[d].pc \notin {"open", "write", "broadcast", "hung"}
  /\ sessions' = [sessions EXCEPT ![d] = @ - 1]
  /\ UNCHANGED <<store, events, device, net, user, changes>>

\* Mutant: only a session that waits for a request ever ends.
SessionEndsIdle(d) ==
  /\ main[d].pc = "ended" /\ sessions[d] > 0 /\ net[d].pc = "task"
  /\ sessions' = [sessions EXCEPT ![d] = @ - 1]
  /\ UNCHANGED <<store, events, device, net, user, changes>>

\* The thread of a session whose client is gone leaves its loop.
SessionEnds(d) ==
  /\ main[d].pc = "ended" /\ sessions[d] > 0
  /\ net[d].pc \notin {"open", "write", "broadcast", "hung"}
  /\ sessions' = [sessions EXCEPT ![d] = @ - 1]
  /\ UNCHANGED <<store, events, device, net, user, changes>>

-----------------------------------------------------------------------------
(* client/src/main.cpp, before the prompt *)

Clean(d) ==
  /\ main[d].pc = "clean"
  /\ main' = [main EXCEPT ![d].pc = "list"]
  /\ dir' = [dir EXCEPT ![d] = [f \in File |-> Absent]]
  /\ \E f \in File : Push(d, "list", f, Absent)
  /\ UNCHANGED <<server, known, notices, net, user, changes>>

\* When a file is there, or was not found, main goes on with the others.
Fetched(m) == [m EXCEPT !.pc = "fetch"]

\* Mutant: a fetched file stays on the list.
FetchAgain(d) ==
  /\ main[d].pc = "fetch"
  /\ \E f \in main[d].todo :
       /\ main' = [main EXCEPT ![d].pc = "fetching"]
       /\ Push(d, "fetch", f, Absent)
  /\ UNCHANGED <<server, dir, known, notices, net, user, changes>>

Fetch(d) ==
  /\ main[d].pc = "fetch"
  /\ \E f \in main[d].todo :
       /\ main' = [main EXCEPT ![d].pc = "fetching", ![d].todo = @ \ {f}]
       /\ Push(d, "fetch", f, Absent)
  /\ UNCHANGED <<server, dir, known, notices, net, user, changes>>

\* After the last file: the notify thread adds its watch, and the prompt
\* appears.  What the network thread writes before then is not noticed.
Watch(d) ==
  /\ main[d].pc = "fetch" /\ main[d].todo = {}
  /\ main' = [main EXCEPT ![d].pc = "run"]
  /\ UNCHANGED <<server, dir, known, notices, tasks, net, user, changes>>

-----------------------------------------------------------------------------
(* The network thread: one task, then one event *)

Goto(d, pc) == net' = [net EXCEPT ![d].pc = pc]

Change == changes < MaxChanges /\ changes' = changes + 1

Takes(d, type) ==
  /\ Runs(d) /\ net[d].pc = "task"
  /\ tasks[d] # << >> /\ Head(tasks[d]).type = type
  /\ tasks' = [tasks EXCEPT ![d] = Tail(@)]

ListTask(d) ==
  /\ Takes(d, "list")
  /\ main' = [main EXCEPT
       ![d] = IF @.pc = "list"
              THEN Fetched([@ EXCEPT
                     !.todo = {f \in File : store[f] # Absent}])
              ELSE [@ EXCEPT !.pc = "run"]]
  /\ Goto(d, "update")
  /\ UNCHANGED <<server, dir, known, notices, user, changes>>

\* The file is read now, not when it was noticed.  When it is gone, the
\* thread leaves its loop after the next event and connects again.
UploadTask(d) ==
  LET t == Head(tasks[d])
      c == IF t.from = Absent THEN dir[d][t.file] ELSE t.from
  IN
  /\ Takes(d, "upload")
  /\ net' = IF c = Absent
            THEN [net EXCEPT ![d].pc = "update", ![d].leaving = TRUE]
            ELSE [net EXCEPT ![d].pc = "open", ![d].sent = c,
                   ![d].event = [type |-> "modified", file |-> t.file]]
  /\ UNCHANGED <<server, dir, known, notices, main, user, changes>>

\* Those who have the file open keep what is no longer in the directory.
DeleteTask(d) ==
  LET f == Head(tasks[d]).file IN
  /\ Takes(d, "delete") /\ Change
  /\ store' = [store EXCEPT ![f] = Absent]
  /\ net' = IF store[f] = Absent THEN [net EXCEPT ![d].pc = "update"]
            ELSE [e \in Device |->
                    IF e = d
                    THEN [net[d] EXCEPT !.pc = "broadcast",
                            !.event = [type |-> "deleted", file |-> f]]
                    ELSE IF net[e].event.file = f
                    THEN [net[e] EXCEPT !.linked = FALSE]
                    ELSE net[e]]
  /\ UNCHANGED <<sessions, events, dir, known, notices, main, user>>

\* download puts the file outside the synchronised directory.
DownloadTask(d) ==
  \E for \in {"fetch", "download"} :
    /\ Takes(d, for)
    /\ net' = [net EXCEPT ![d].pc = "measure", ![d].for = for,
                ![d].event = [type |-> "modified",
                              file |-> Head(tasks[d]).file]]
    /\ UNCHANGED <<server, dir, known, notices, main, user, changes>>

Loop(n) == [n EXCEPT !.pc = IF n.leaving THEN "connect" ELSE "task"]

\* client_get_event; without a task the thread comes here at once.
Asks(d) ==
  Runs(d) /\ (net[d].pc = "update" \/ (net[d].pc = "task" /\ tasks[d] = << >>))

NextEvent(d) ==
  /\ Asks(d) /\ events[d] # << >>
  /\ events' = [events EXCEPT ![d] = Tail(@)]
  /\ LET v == Head(events[d]) IN
       net' = [net EXCEPT ![d].event = v, ![d].for = "event",
                 ![d].pc = IF v.type = "modified" THEN "measure" ELSE "drop"]
  /\ UNCHANGED <<store, sessions, device, user, changes>>

NoEvent(d) ==
  /\ Runs(d) /\ net[d].pc = "update" /\ events[d] = << >>
  /\ net' = [net EXCEPT ![d] = Loop(@)]
  /\ UNCHANGED <<server, device, user, changes>>

\* network_modified
Apply(d) ==
  LET f == net[d].event.file
      c == net[d].buf
  IN
  /\ Runs(d) /\ net[d].pc = "apply" /\ MutexFree(d)
  /\ net' = [net EXCEPT ![d] = Loop(@)]
  /\ \/ IF known[d][f]["network"] # c
        THEN /\ known' = [known EXCEPT ![d][f]["network"] = c]
             /\ Put(d, f, c)
             /\ UNCHANGED main
        ELSE UNCHANGED <<known, dir, notices, main>>
     \/ c = Garbage /\ End(d) /\ UNCHANGED <<known, dir, notices>>
  /\ UNCHANGED <<server, tasks, user, changes>>

\* network_deleted
Drop(d) ==
  LET f == net[d].event.file IN
  /\ Runs(d) /\ net[d].pc = "drop" /\ MutexFree(d)
  /\ net' = [net EXCEPT ![d] = Loop(@)]
  /\ IF known[d][f]["network"] # Unknown
     THEN /\ known' = [known EXCEPT ![d][f]["network"] = Unknown]
          /\ Put(d, f, Absent)
     ELSE UNCHANGED <<known, dir, notices>>
  /\ UNCHANGED <<server, tasks, main, user, changes>>

-----------------------------------------------------------------------------
(* The session's thread: write_file, the broadcast, read_file *)

\* The code has no lock for this.
CanUse(d, f, pcs) ==
  AtomicFiles =>
    ~\E e \in Device \ {d} : net[e].pc \in pcs /\ net[e].event.file = f

Open(d) ==
  LET f == net[d].event.file IN
  /\ net[d].pc = "open"
  /\ CanUse(d, f, {"write", "read"}) /\ Change
  /\ store' = [store EXCEPT ![f] = Empty]
  /\ net' = [net EXCEPT ![d].pc = "write", ![d].linked = TRUE]
  /\ UNCHANGED <<sessions, events, device, user>>

\* Nothing is written of an empty file: it stays as Open, or a session that has
\* opened it since, has left it.
Write(d) ==
  /\ net[d].pc = "write"
  /\ store' = IF net[d].linked /\ net[d].sent # Empty
              THEN [store EXCEPT ![net[d].event.file] = net[d].sent]
              ELSE store
  /\ Goto(d, "broadcast")
  /\ UNCHANGED <<sessions, events, device, user, changes>>

\* Mutants: not every session hears of a change.
BroadcastTo(d, Hears(_)) ==
  /\ net[d].pc = "broadcast"
  /\ events' = [e \in Device |->
                  IF sessions[e] > 0 /\ Hears(e)
                  THEN Append(events[e], net[d].event) ELSE events[e]]
  /\ Goto(d, "update")
  /\ UNCHANGED <<store, sessions, device, user, changes>>

BroadcastToSender(d) == BroadcastTo(d, LAMBDA e : e = d)
BroadcastToOthers(d) == BroadcastTo(d, LAMBDA e : e # d)

\* To every session of the user, the sender's too.
Broadcast(d) ==
  /\ net[d].pc = "broadcast"
  /\ events' = [e \in Device |->
                  IF sessions[e] > 0 THEN Append(events[e], net[d].event)
                  ELSE events[e]]
  /\ Goto(d, "update")
  /\ UNCHANGED <<store, sessions, device, user, changes>>

\* The file cannot be opened, or is gone when its times are asked for.  A
\* download that was refused changes nothing; after an event the buffer is
\* used all the same.
NoFile(d) ==
  /\ Runs(d) /\ net[d].pc \in {"measure", "read"}
  /\ store[net[d].event.file] = Absent
  /\ Goto(d, IF net[d].for = "event" THEN "apply" ELSE "update")
  /\ main' = IF net[d].for = "fetch" THEN [main EXCEPT ![d] = Fetched(@)]
             ELSE main
  /\ UNCHANGED <<server, dir, known, notices, tasks, user, changes>>

Measure(d) ==
  LET f == net[d].event.file IN
  /\ Runs(d) /\ net[d].pc = "measure" /\ store[f] # Absent
  /\ CanUse(d, f, {"write"})
  /\ net' = [net EXCEPT ![d].pc = "read", ![d].seen = store[f],
                        ![d].linked = TRUE]
  /\ UNCHANGED <<server, device, user, changes>>

\* What fread gets of the length that was measured; at the end of a file that
\* was cut in between it gets nothing for ever.
Contents(d) == IF net[d].linked THEN store[net[d].event.file] ELSE net[d].seen

ReadForever(d) ==
  /\ net[d].pc = "read" /\ net[d].seen # Empty /\ Contents(d) = Empty
  /\ Goto(d, "hung")
  /\ UNCHANGED <<server, device, user, changes>>

Read(d) ==
  LET f == net[d].event.file
      c == IF net[d].seen = Empty THEN Empty ELSE Contents(d)
  IN
  /\ Runs(d) /\ net[d].pc = "read" /\ store[f] # Absent
  /\ c = Empty => net[d].seen = Empty
  /\ net' = [net EXCEPT ![d].buf = c,
               ![d].pc = IF net[d].for = "event" THEN "apply" ELSE "update"]
  /\ IF net[d].for = "fetch"
     THEN Put(d, f, c) /\ main' = [main EXCEPT ![d] = Fetched(@)]
     ELSE UNCHANGED <<dir, notices, main>>
  /\ UNCHANGED <<server, known, tasks, user, changes>>

-----------------------------------------------------------------------------
(* The notify thread *)

Noticed(d, type) ==
  /\ Watches(d) /\ MutexFree(d)
  /\ notices[d] # << >> /\ Head(notices[d]).type = type
  /\ notices' = [notices EXCEPT ![d] = Tail(@)]

\* notify_new_file and notify_modified
NotifyModified(d) ==
  LET f == Head(notices[d]).file IN
  /\ Noticed(d, "modified")
  /\ IF known[d][f]["inotify"] # dir[d][f]
     THEN /\ known' = [known EXCEPT ![d][f]["inotify"] = dir[d][f]]
          /\ Push(d, "upload", f, Absent)
     ELSE UNCHANGED <<known, tasks>>
  /\ UNCHANGED <<server, dir, main, net, user, changes>>

NotifyDeleted(d) ==
  LET f == Head(notices[d]).file IN
  /\ Noticed(d, "deleted")
  /\ IF known[d][f]["inotify"] # Unknown
     THEN /\ known' = [known EXCEPT ![d][f]["inotify"] = Unknown]
          /\ Push(d, "delete", f, Absent)
     ELSE UNCHANGED <<known, tasks>>
  /\ UNCHANGED <<server, dir, main, net, user, changes>>

-----------------------------------------------------------------------------
(* What users do: to the directory, and at the prompt *)

\* Nothing is left to be done on any device or in any session.
Quiet ==
  \A d \in Device :
    /\ net[d].pc \notin {"open", "write", "broadcast"}
    /\ Runs(d) =>
         /\ main[d].pc = "run" /\ net[d].pc = "task"
         /\ tasks[d] = << >> /\ notices[d] = << >> /\ events[d] = << >>

Command(d, name) ==
  /\ name \in scene.commands /\ commands < scene.times
  /\ scene.patient => Quiet
  /\ commands' = commands + 1
  /\ UNCHANGED scene

New == commands + 1

Save(d, f) ==
  /\ Watches(d) /\ Command(d, "save")
  /\ Put(d, f, New)
  /\ latest' = [latest EXCEPT ![f] = New]
  /\ UNCHANGED <<server, known, tasks, main, net, changes>>

RemoveFile(d, f) ==
  /\ Watches(d) /\ dir[d][f] # Absent /\ Command(d, "remove")
  /\ Put(d, f, Absent)
  /\ latest' = [latest EXCEPT ![f] = Absent]
  /\ UNCHANGED <<server, known, tasks, main, net, changes>>

\* upload, of a file that is somewhere else on the device
CliUpload(d, f) ==
  /\ main[d].pc = "run" /\ Command(d, "upload")
  /\ Push(d, "upload", f, New)
  /\ latest' = [latest EXCEPT ![f] = New]
  /\ UNCHANGED <<server, dir, known, notices, main, net, changes>>

CliDownload(d, f) ==
  /\ main[d].pc = "run" /\ Command(d, "download")
  /\ Push(d, "download", f, Absent)
  /\ UNCHANGED <<server, dir, known, notices, main, net, latest, changes>>

CliDelete(d, f) ==
  /\ main[d].pc = "run" /\ dir[d][f] # Absent /\ Command(d, "delete")
  /\ Push(d, "delete", f, Absent)
  /\ latest' = [latest EXCEPT ![f] = Absent]
  /\ UNCHANGED <<server, dir, known, notices, main, net, changes>>

ListServer(d, f) ==
  /\ main[d].pc = "run" /\ Command(d, "list")
  /\ Push(d, "list", f, Absent)
  /\ main' = [main EXCEPT ![d].pc = "listing"]
  /\ UNCHANGED <<server, dir, known, notices, net, latest, changes>>

\* exit does not wait for the task it leaves to the network thread.
CliExit(d) ==
  /\ main[d].pc = "run" /\ Command(d, "exit")
  /\ End(d)
  /\ UNCHANGED <<server, dir, known, notices, tasks, net, latest, changes>>

-----------------------------------------------------------------------------

MainThread(d) == Clean(d) \/ Fetch(d) \/ Watch(d)

NetworkThread(d) ==
  \/ Connect(d) \/ ListTask(d) \/ UploadTask(d) \/ DeleteTask(d)
  \/ DownloadTask(d) \/ NextEvent(d) \/ NoEvent(d) \/ Apply(d) \/ Drop(d)

SessionThread(d) ==
  \/ Open(d) \/ Write(d) \/ Broadcast(d)
  \/ NoFile(d) \/ Measure(d) \/ Read(d) \/ ReadForever(d) \/ SessionEnds(d)

NotifyThread(d) == NotifyModified(d) \/ NotifyDeleted(d)

UserActs(d) ==
  \/ Start(d) \/ CliExit(d)
  \/ \E f \in scene.files :
       \/ Save(d, f) \/ RemoveFile(d, f) \/ CliUpload(d, f)
       \/ CliDownload(d, f) \/ CliDelete(d, f) \/ ListServer(d, f)

Init ==
  /\ scene \in Scenes
  /\ store = scene.initial
  /\ sessions = [d \in Device |-> IF d \in scene.running THEN 1 ELSE 0]
  /\ events = [d \in Device |-> << >>]
  /\ dir = [d \in Device |->
              IF d \in scene.running THEN scene.initial ELSE [f \in File |-> Absent]]
  /\ known = [d \in Device |-> [f \in File |-> [k \in Key |-> Unknown]]]
  /\ notices = [d \in Device |-> << >>]
  /\ tasks = [d \in Device |-> << >>]
  /\ main = [d \in Device |->
       [pc |-> IF d \in scene.running THEN "run" ELSE "off", todo |-> {}]]
  /\ net = [d \in Device |->
       [pc |-> IF d \in scene.running THEN "task" ELSE "off", for |-> "event",
        event |-> [type |-> "modified", file |-> CHOOSE f \in File : TRUE],
        sent |-> Empty, seen |-> Empty, linked |-> FALSE, buf |-> Garbage,
        leaving |-> FALSE]]
  /\ commands = 0
  /\ latest = scene.initial
  /\ changes = 0

Next ==
  \E d \in Device :
    \/ MainThread(d) \/ NetworkThread(d) \/ SessionThread(d)
    \/ NotifyThread(d) \/ UserActs(d)

Spec == Init /\ [][Next]_vars

\* Every thread runs on; users need not do anything.
Fairness ==
  \A d \in Device :
    /\ WF_vars(MainThread(d)) /\ WF_vars(NetworkThread(d))
    /\ WF_vars(SessionThread(d)) /\ WF_vars(NotifyThread(d))

FairSpec == Spec /\ Fairness

-----------------------------------------------------------------------------
(* Properties *)

\* The type invariant of the state kept by clients, sessions and server.
TypeOK ==
  /\ scene \in Scenes
  /\ store \in [File -> Content]
  /\ sessions \in [Device -> 0 .. MaxConnections]
  /\ events \in [Device -> Seq(Event)]
  /\ dir \in [Device -> [File -> Content]]
  /\ known \in [Device -> [File -> [Key -> Content \cup {Unknown}]]]
  /\ notices \in [Device -> Seq(Event)]
  /\ tasks \in [Device -> Seq(Task)]
  /\ main \in [Device -> MainState]
  /\ net \in [Device -> NetState]
  /\ commands \in 0 .. MaxCommands
  /\ latest \in [File -> Content]
  /\ changes \in 0 .. MaxChanges

\* When nothing is left to be done, the server and every device in use hold
\* what the user did last: neither the echo a device sends of every change it
\* receives (dir_hash knows a file by two names) nor an event that finds
\* another version than the one it announced ever brings an old one back.
\* Users of several devices must wait for each other; one save at a time may
\* run into the start of other devices (app.cpp:46-119, main.cpp:48-69).
KeepsLatest ==
  Quiet => \A f \in File :
    /\ store[f] = latest[f]
    /\ \A d \in Device : Runs(d) => dir[d][f] = latest[f]

\* The echoes die out and every command ends: dir_hash (app.cpp:49-113) stops
\* each exchange of uploads, broadcasts and downloads between the devices.
Settles == []<>Quiet

\* The session of a device will tell it that f is not what it last heard.
Learning(d, f) ==
  \/ \E i \in 1 .. Len(events[d]) : events[d][i].file = f
  \/ /\ net[d].event.file = f /\ net[d].for = "event"
     /\ \/ net[d].pc \in {"measure", "read", "drop"}
        \/ net[d].pc = "apply" /\ net[d].buf = store[f]

Changing(f) ==
  \E e \in Device :
    net[e].pc \in {"open", "write", "broadcast"} /\ net[e].event.file = f

\* No change is lost between write_file and the queues of the sessions
\* (server.cpp:147-152, client.cpp:129-166): whatever users and sessions do at
\* the same time, what a device last heard of a file is what the server has,
\* unless an event, or a session about to broadcast one, says otherwise.  Not
\* promised to a device that has connected again, whose old queue is lost, nor
\* of a file deleted, since the two broadcasts may be in the wrong order.
NetworkViewFresh ==
  \A d \in Device, f \in File :
    main[d].pc = "run" /\ sessions[d] = 1 /\ store[f] # Absent
      => \/ known[d][f]["network"] \in {store[f], Unknown}
         \/ Learning(d, f) \/ Changing(f)

\* A device that has left, or was refused after it lost its connection, gives
\* back its places among MAX_ACTIVE_CONNECTIONS (server.cpp:90-94, 245).  One that
\* lives on after it connected again keeps the place of its old session.
PlaceReturned == \A d \in Device : main[d].pc = "ended" ~> sessions[d] = 0

=============================================================================
