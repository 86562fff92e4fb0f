# Verification of the replicated file synchroniser

The repository is a Dropbox-like service: devices of a user keep a directory
`sync_dir_<user>` in step through a primary server; backup servers stand by,
elect a new primary when it dies, and register it in a small DNS process. This
directory holds TLA+ models of its concurrent parts, the TLC runs that check
them and TLAPS proofs about them. Paths below are relative to the repository
(`server/src/...`), which `PROJECT.json` prefixes with `src/`.

    tlc -config ElectionRaces.cfg MCRingElection.tla
    tlapm RingElection_proofs.tla

## The system

| part | state | operations | talks to | hard behaviour |
|---|---|---|---|---|
| ring election (`server/src/election.cpp`) | the list of servers and who is marked primary (`state.metadata`), `server_type`, the connection queue of the election port | `initiateElection`, `<election>`, `<elected>`, `setElected`, `updateElected` | next server on the ring (one connection per message), coms of the winner, DNS | concurrent elections, a dead successor, torn messages, stale lists |
| heartbeat (`heartbeat.cpp`) | a connection to the primary of the list | beat once a second, detect the end | primary, `initiateElection` | detection at any time, late or twice |
| coms (`coms.cpp`) | `state.metadata`, `state.deferred_requests` | register, fetch, get primary, update, deferred updates | other servers' coms, joining main threads | one thread that both serves and waits for others |
| join (`main.cpp`, `state.cpp`) | progress of `backup_init` | find the primary, register, fetch | coms of two servers | crossing joins, an unreachable or still empty contact |
| DNS (`dns/src`) | the primary's address | answer, register | servers, clients | cut registrations, a restarted or elected primary |
| client (`client/src/app.cpp`, `network.cpp`, `fs_notify.cpp`, `main.cpp`, `cli.cpp`) | directory, `dir_hash`, task queues, inotify queue, its sockets | notices, network events, commands, connecting again | its session, the DNS, inotify | echoes of its own writes, files that change between notice and use, sockets it never closes |
| sessions (`server/src/server.cpp`, `client.cpp`, `file_manager.cpp`) | stored files, client list, a queue of events per session | upload, download, delete, list, update, connect, leave | clients, backups | write and broadcast are two steps, unlocked files, the connection limit, broken clients in the list |
| replication (`server.cpp:114-145, 164-195`) | `connbackup`, `status` of a session | forward an upload or delete | backups that do not listen | uninitialised variables, a second answer |
| queues (`client/include/async_queue.h`) | a vector and two semaphores | push, pop, try, by id, size | main, notify, network threads | posts and waits of two semaphores, a mutex posted twice |
| protocol, readers and writers (`protocol.cpp`, `reader.cpp`, `writer.cpp`) | two buffers to read, one to write, the fields of the last packet | encode, decode, buffer | | packets across buffers, packets cut by the end of a process, ignored errors |

What makes each part correct, in one line: the election leaves one primary that
outranks the rest and that everybody, DNS included, knows; registration gives
all servers one order (the ring relies on it); a synchronised directory ends
with what its user did last on every device, echoes die out, no event is lost
on the way; a request is executed as it was asked and its client is told what
became of it; a queue loses nothing and gives nothing twice; nobody waits for
ever; and a place among the two allowed connections comes back.

## Modules

| module | models | abstract counterpart |
|---|---|---|
| `RingElection` | election, heartbeat, the coms thread's fetches, DNS register | `PrimarySuccession` |
| `Membership` | coms thread and `backup_init` | `RegistrationLog` |
| `FileSync` | clients and sessions of one user, file by file | |
| `AsyncQueue` | the client's task queues, semaphore by semaphore | |
| `BufferedIO` | one direction of a connection: a `tcp_writer` and a `tcp_reader` | `ByteStream` |
| `Requests` | a client's network thread and its session, from byte to answer | (extends `BufferedIO`) |
| `Service` | DNS, start and end of servers, connections, the list of clients | |
| `*_proofs` | theorems about the module they name; `OneDetector_proofs` is more about `RingElection` | |
| `MC*` | values for the constants of the module they name | |

How they fit together. `RingElection` starts where `Membership` ends: a list is
a set there because `RefinesLog` shows that all lists are prefixes of one order,
and a server at position `s` starts with `N - s` deferred updates because
`EverybodyNotified` shows that it holds one for each later registration, or has
answered the last one and is about to push it.
`Requests` extends `BufferedIO`: its steps move bytes with the very actions of
the buffers. `FileSync` takes a request as one message, which `ExecutedAsAsked`
and `ToldTheTruth` justify as long as no process ends in the middle of one and no
list is refused, and its task queue is a sequence, which the properties of `AsyncQueue` justify.
`Service` takes what `RingElection` elects as a server that registers and does
not listen, and a session as its place in the list.

Definitions that carry `Mutant` in their comment are wrong on purpose: they
stand beside the definition they vary, and each property is known to fail with
one of them.

### RingElection

A server is its position in the join order; server 1 is the first primary.
`metadata[s]` is the list and the entries marked primary; `inbox[s]` the
connections waiting at the election port, in accept order; `el`, `hb`, `coms`
are the three threads of each process (an action is what a thread does between
two points where another thread or process can interfere: a lock, a connect, a
read, a write); `status[s]` says why a process ended. Identity is (ip, port),
and `Rank` stands for the order `comp` gives them.

 * `HbWakes`, `HbLookup`, `HbNoPrimary`, `HbConnect`, `HbFirstBeat`, `HbDetect`,
   `HbCheckType`, `HbFilter`, `HbNext`, `HbSend` are `heartbeat_writer_thread`
   up to the message `initiateElection` sends; `HeartbeatReadFails` is the
   listener of a primary that loses a backup before the first flush.
 * `HandleElection`, `ElNext`, `SendElection`, `SetElected`, `RegisterWithDns`,
   `DnsUnreachable`, `SendElected`, `HandleElected`, `FetchFromElected`,
   `StoreElected`, `ElNextElected` are the election listener. Sending to a dead
   successor loses the message, as in the code; nobody retries.
 * `Crash` may cut what the process is sending: the receiver then gets a `torn`
   connection and ends in `ReadTorn`, because a failed read breaks its loop and
   exits.
 * `NextDeferred`, `ComsFetch`, `ComsStore`, `ComsSelfConnect`, `ComsNoPrimary`
   are the deferred updates the coms thread repeats after every connection.

Two environment constants restrict schedules. `Initiators` are the servers whose
heartbeat can be the *first* to notice a death; `SleepCoversElection` says that
`sleep(5)` (`heartbeat.cpp:171`) is longer than a running election. The passing
runs leave the second `FALSE`, and one of them restricts the first; without
that, two live primaries are possible, as `ElectionSplit` shows, and in the same
instance a winner that a second `<election>` makes remove itself from its own
list ends at `election.cpp:98` (`NoInconsistentList` is violated there too). The
shared, unlocked `state.primary_server` (`state.cpp:81-83`) is read in one step.

### Membership

Server 1 is the primary for good. Lists are sequences. `backlog` holds the
clients a coms thread has not accepted; it serves one connection until the
client closes it. A reply is read in the step that writes it; storing it is a
step of its own (`MainStore`, `DeferredStore`), so everything can happen in
between. `ServeRegister` appends and starts the notifications; the thread waits
in `await` for each backup but the new one (`NotifySkip`, `NotifyConnect`,
`NotifyDone`, and `NotifyFails`, which gives up on the rest). A backup answers
the notification in `ServeUpdate` and defers the update in a later step, `Defer`
(`coms.cpp:246-250`): the primary may go on in between. `MainClose` and
`MainConnectPrimary` are the end of the first connection of `backup_init` and the
start of the second. `Contact` is the server on each command line.
`MainUnreachable` and `NullPrimary` are the ways a process ends by itself.
`TakenInTurn` describes an operator who starts servers one after another; it is
the premise of the two liveness properties, not a part of the model.

### FileSync

One user's devices and the primary's sessions, no backup registered. The
network thread waits for every answer, so `net[d].pc` is the place of the
device's network thread and of its session's thread at once: `task`, `update`,
`apply`, `drop`, `connect` on the client; `open`, `write`, `broadcast`,
`measure`, `read`, `hung` on the server. `main[d]` is the main thread (startup,
prompt, and `listing`, where it holds `App::mutex`), `notices[d]` the inotify
queue, `tasks[d]` the task queue, `known[d]` `dir_hash`. A name from inotify
still has its padding (`fs_notify.cpp:86`) and is another key than the same name
from the server: `known[d][f]` has an entry for each.

Main downloads what the server lists (`Fetch`); then the notify thread adds its
watch (`Watch`), and what the network thread writes in between is not noticed.

Abstractions: users touch the directory, and give commands, only once it is
watched; what they save is never empty (a file is empty while a session writes
it, or where it was read at such a moment); a content is a number, so equal
hashes are equal contents; all contents that are not empty have the same length;
the several inotify events of one write are one notice; a client writes its own
files in one step; a file that is removed while a session has it open is read as
it was measured; a device that ended does not start again. The unused `buf` of a refused download
keeps its former value, or `Garbage`; using it may end the process.

A `scene` is what a behaviour starts from and what users may do in it: the
devices that run or may start, the files, the commands and how many, and
whether users wait until nothing is left to be done. `AtomicFiles` says that
sessions never use a file while another writes it. `MaxChanges` bounds how often
sessions change files: with unrestricted races echoes of writes and removals can
chase each other for ever, so the state space has no end without it.

### AsyncQueue

`queue`, `mutex` and `awaiting` are the vector and the two semaphores;
`thread[t]` says which operation a thread is in and between which two semaphore
operations. What a thread does between `sem_wait` and `sem_post` of the mutex is
one step, which is right only while no other thread is inside: `Break` is the
step in which one is, or in which the front of an empty vector is taken. Both
are undefined, and nothing is said afterwards. `pop` posts the mutex twice
(`async_queue.h:35-36`), so this can happen once a `pop` has returned; nothing
calls the function of `network.cpp` that uses it (`get_task`). Waiting for a
task with `pop_by_id` is a busy search: a thread that does not find its task
posts the token it took and waits for it again.

### BufferedIO and Requests

In `BufferedIO` the nth byte written is `n`. `WriteU8` and `Flush` are the
writer, `FillBuffer` and `ReadU8` the reader with its two buffers; `socket` is
what lies between. A `FillBuffer` takes any number of bytes, up to a buffer;
`Cut` is the end of the writing process, which loses what it has not flushed and
any end of what it had. The retry on `EAGAIN` (`server/src/reader.cpp:43`) is left
out: the sockets of the server and the DNS block, and no call of theirs sets
that error.

In `Requests` a byte also knows the field it belongs to. `Packet` is what the
`request_*` functions write; the session takes it apart in `Store`, one field
after another, with the variables that `client_handler_thread` keeps from packet
to packet. `receive_packet` ignores failing `read_string` and `read_byte_array`
(`server/src/protocol.cpp:61-70`), so a packet that ends too early is executed
with what an earlier one left: `ReadFails`. An answer is one message, and what a
task is told of it is `Reported`: a list is a success whatever the server
answered (`network.cpp:204`), and a download may fail after it was served, when
its file cannot be written. A session answers a download in `ServeDownload`, or
loops in `read_file` because another session has cut the file since it was
measured (`ReadForever`): then it is `hung` and takes no further step. `ServeWrite`
has the replication as this code runs it: a backup does not listen on the port
the primary connects to, `connbackup` is not initialised, and if its use does
not end the process (`ServerEnds`) a `status` that was never set may refuse the
request and go on, so that a second answer follows (`server.cpp:139-149`).

### Service

`line` is the queue of connections at the DNS, served one at a time in
`DnsRead`, `DnsSet`, `DnsAnswer`; the end of a process may `Tear` what it had
sent, and `DnsDrops` is then the failing read. A server that was started by hand
registers and then listens (`Register`, `Listen`: clients may come in between);
an elected one registers and never listens. A client's network thread
goes from `AskDns` to `Connect` to `Greeted`; it closes none of its sockets, and
its process exits when it can make no more. On the other side, `Accept`, `Admit`
and `SessionEnds` are `accept`, `client_new` and `client_remove`. A refused
connection is never closed by the server either, so a server may run out of
files, close its listening socket and stay up (`deaf`). `Admit` on a server
whose list has a broken client ends the process: the index of
`can_connect`'s loop is unsigned (`client.cpp:54`).

## Runs

| run | instance | shows |
|---|---|---|
| `ElectionRaces` | 4 servers, 2 crashes of any, all detect | old primary forgotten, one marked entry, announced after registered |
| `ElectionOneDetector` | 4 servers, 2 crashes, refusing DNS, first detection by one | never two live primaries, no inconsistent list, no lookup without a primary unless an election runs; and, in a ranking where the last to join wins and so no coms thread is wedged, agreement for good when only the old primary ends |
| `ElectionStartupRace` | 3 servers, 2 crashes, a coms thread still fetching | types, elected outranks backups, no backup forgotten, refinement of `PrimarySuccession` |
| `ElectionSplit` (fails) | two detectors | two live primaries after one crash |
| `ElectionWedged` (fails) | deferred updates left over | a fetch from the winner never ends |
| `JoinRaces` | 5 servers, any order, two crashes | refinement of `RegistrationLog`, everybody notified (and about to defer it, if not deferred) until a process ends, a primary for whoever needs one; all join when started in turn through the newest server |
| `JoinDeadlock` (fails) | 4 servers started in turn, one through an older backup | the primary and a backup wait for each other |
| `SyncInOrder` | 2 devices, 1 file, any 3 commands one at a time; and 3 devices, 2 files, 1 started, limit 2, one command during startup | ends with the user's last version everywhere, echoes die out, places come back |
| `SyncRaces` | 2 devices, 1 file, any 2 commands at once, 4 changes, overlapping file use | what a device last heard is fresh or news is under way |
| `QueueRaces` | 2 threads push, 1 takes in every way, 4 tasks | only `pop` breaks the queue, tokens count items, a search ends |
| `RequestRaces` | 4 requests of one connection, buffers of 3 and 2 bytes, a client that may end at any byte, a backup or none | executed as asked; told what became of it, but for lists and downloads as `Reported` says; a byte stream; no wait without end but for a second answer or a session that loops in `read_file` |
| `ServiceRaces` | 2 clients of one user, 2 servers, limit 1, 2 sockets each, 2 events | no address from two servers, the limit, served or ended, places come back |

Why these bounds: an election needs a primary, a winner and a third server whose
message can be late; the fourth gives a ring on which two messages overtake each
other's effect, and leaves a winner and a follower when the second primary ends too. A
join races with the joins before and after it, and the fifth server leaves two
alive behind two crashes. One file shows every race of contents (files do not interact except
through the buffer of a refused download and the startup loop, hence two in the
second scene of `SyncInOrder`); two devices suffice for echo and revert, a third
is refused by the limit. Four tasks let a search pass over items in front and
behind while both producers are in the middle of a push. Buffers of three and
two bytes cut every field and every packet somewhere, and with four requests a
packet can follow one that left a name, a length or a freed buffer; a number is
one byte long there (`WordSize`), as a longer one only adds more of the same
cuts. In `Service`, two sockets for each client, two connections for each server
and a limit of one are the smallest at which a client connects again while its
first session is still in the list, and at which each resource runs out.

`CHECK_DEADLOCK FALSE` everywhere: a system whose servers wait in `accept` and
whose users do nothing has really stopped, and so has one whose crashes, tasks
or requests are used up.

Fairness: each thread runs on (weak fairness of its steps), as the scheduler of
the operating system gives; connections and answers on a live connection arrive.
A session in the loop of `read_file` (`file_manager.cpp:68-80`) runs on too, but
never leaves it: it is `hung`, with no step to be fair to, and `Answered` and
`SessionEnds` name it as their exception. `Service` has no requests, so its
`PlacesReturned` says nothing of the place such a session keeps.
Nothing is assumed of crashes, of the refusing DNS, or of users; a server of
`Membership` need not be started. The client's `main`, `net` and notify threads
and each session of `FileSync` are fair one by one; so are the two ends of a
connection in `Requests` and each thread of `AsyncQueue` once it is in an
operation. `FindsItsTask` speaks of the only consumer of its queue, which shares
the semaphore with nobody, and of finitely many pushes, which cannot keep the
mutex from it for ever. `Service` assumes least: while any thread can take a
step, one of them does. This is enough because none of them can go on for ever:
each turn of a client costs it a socket.

### What the failing runs found

 * `ElectionSplit`: an `<election>` under way strips the winner of the previous
   round from lists that mark it (`election.cpp:395`), goes on without it and
   elects a second primary. No code demotes the first.
   The same strip at the winner itself ends it: it does not find itself in its
   list, and exits (`election.cpp:98-101`).
 * `ElectionWedged`: deferred updates are never removed (`coms.cpp:597`), so a
   winner fetches from itself in the only thread that could answer.
 * `JoinDeadlock`: the primary's coms thread waits for a backup
   (`coms.cpp:224`) whose coms thread waits for the primary (`coms.cpp:608`).

The passing runs hold under conditions that their properties and constants name,
and those conditions are what the code leaves to luck. The servers agree on a
new primary (`FailoverCompletes`) only where the one that joined last wins: every
other winner has an update left over from startup, and is wedged after the first
fetch it serves. An election lost with its receiver, or won by a server that
cannot reach the DNS, leaves no primary at all, which the safety properties allow.
Users who do not wait can
lose a save to the echo of the one before; a device that loses its connection
loses the events of the old session, which keeps its place while the device runs; two broadcasts in the wrong order leave a
removed file on a device; with overlapping file use (`AtomicFiles = FALSE` in
`SyncInOrder`) a file read while another session writes it can leave a starting
device with an empty file for good; a file that a device downloaded when it
started is unknown to `dir_hash`, and when the user removes it
(`app.cpp:73`) nobody else is told. A client that ends in the middle of an
upload may have it executed with an older name or without its data
(`damaged`). The network thread takes any answer to a list for a success
(`network.cpp:202-205`), so a client whose first list is refused starts with no
files, and without the message its main has for that (`main.cpp:55`). `ServedOrEnded` says no more than it does: after a failover the
DNS names a server that does not serve clients, and each client's way out is to
run out of sockets and exit.

## Proofs

`RingElection_proofs` proves, for every number of servers, every ranking and
every environment constant (the three named assumptions of `RingElection` are
all that is used):

 * `TypeCorrect`: `Spec => []TypeOK`;
 * `ElectedOutranks`: whoever wins outranks every server still a backup;
 * `BackupsStayListed`: no list ever loses a backup;
 * `FlaggedTookRole`: an entry marked primary has taken the role;
 * `ImplementsSuccession`: `Spec => RefinesSuccession`, initial states to initial
   states and each step to a takeover, a write to the DNS, or a stutter.

None of the three safety properties is inductive. The invariant is `IInv`:
`TypeOK` and

 * `ListsGood`, `ElRepliesGood`, `ComsRepliesGood`: every list, in a server or
   in a reply not yet stored, has all backups and marks none of them, so storing
   a stale list is harmless;
 * `WatchedPrimary`: the server a heartbeat watches is no backup, so removing it
   removes no backup;
 * `HbCovered`, `ElCovered`, `MailCovered`: a candidate carries a promise, in a
   thread's variables and in a message: it outranks every backup that the ring
   has passed between the candidate and the place of the message. `RingForward`
   extends the promise by one server, `RingComplete` turns it into
   `ElectedOutranksBackups` when the message is back at its candidate. This is
   where lists that forget a backup would break the election.

The proof that a step preserves it has one case per action; lemmas on update of
a thread's record, delivery and the end of a process are shared.

`AsyncQueue_proofs`, for any finite sets of threads, any mix of operations and
any number of tasks (`ThreadAssumption`, `OperationAssumption`): `TypeCorrect`,
`OnlyPopBreaksAlways` and `TokensKept`. The invariant counts: `MutexCount` says
that the mutex and the threads inside add up to one, and one more for each `pop`
that has returned; `TokenCount` that the semaphore and the threads that answer
for an item add up to the items. That two threads are never inside, and that a
front is there when one is taken, follow from the two.

`BufferedIO_proofs`, for buffers of any sizes (`SizeAssumption`): `BytesInOrder`
says where each byte is, in the reader's current buffer, the socket or the
writer's buffer, by its number; it is inductive, and `ConnectionIsStream`
follows: a connection implements `ByteStream`. `Requests_proofs` shows that each
step of a client and its session is a step of the buffers or none of theirs, so
`RequestsAreStream` holds for any requests, names and sizes; and
`DamageOnlyAtEnd`, that no packet of a living client is executed with what an
earlier one left.

`Service_proofs`, for any clients, servers, users and limits
(`ConfiguredAssumption`, `ClientsAssumption`, `LimitsAssumption`): `TypeCorrect`
(with `Ready`: a client that is about to connect has an address and a socket
left), `LimitAlwaysKept` (the count of a user's sessions before and after each
step of the list) and `WholeAddressAlways`.

Also in `RingElection_proofs`, for any election that starts with no deferred
update left (`BusyComs = {}`, the hypothesis of the theorem; with left-over
updates a coms thread may store an older list): `OldPrimaryGone`. A message has
only passed servers that no longer list server 1 (`CleanUpTo`), and a round
starts by removing whoever is marked, which is server 1 as long as it is listed
(`ListOld`). So when a message is back at its candidate, every backup's list is
clean, and from then on nothing brings server 1 back: replies are copies of
clean lists, and a heartbeat that still watches server 1 finds it gone from the
list and starts nothing (`HbOld`).

`OneDetector_proofs`, for any number of servers, ranking, crashes (of the new
primaries too) and refusals of the DNS, when no deferred update is left and one
server alone can be the first to notice a death (`BusyComs = {}` and at most one
`Initiators`, the hypotheses of its theorems; with two detectors the first two
are false in the instance of `ElectionSplit`): `OneLivePrimary`,
`ListsConsistent`, `OneFlagged`, `RegisteredFirst` and `LookupSafe`. The
invariant `OneDetectorInv` says that some `c`, server 1 or the last elected,
reigns (`Reign`):

 * every other primary has ended and is in no list that counts (`OthersGone`);
   as long as `c` runs, every backup lists it (`StillListed`);
 * the backups that have heard of `c` are the first ones after it on the ring,
   and only they watch it (`InOrder`); a list that is about to be stored is the
   list of `c` (`Storing`);
 * while `c` runs there is one `<elected, c>` at most, in a thread or in an inbox,
   and it is at the place where the backups that have heard of `c` end
   (`Announced`, `Reaches`);
 * there is one `<election>` at most (`Single`); while there is one, `c` has
   ended and the initiator has dropped it (`Electing`), so that it does not
   start another; the backups it has passed mark nobody, and if it went past
   `c` then all of them had heard of `c` (`TokenAt`, `Passed`).

So when an `<election>` is back at its candidate, nobody lists `c` any more
(`RoundOver`), and the new primary reigns with its news at its own successor
(`NewReign`). All other steps keep who reigns (`QuietReign`): `Learning` says
that the only step that spreads the news of `c` is storing its list, and
`NewsPassed` and `ElectionPassed` that a message skips nobody who is to get it.
`Single` is a notion of its own, with a lemma for each way a message can go: kept
or lost, read, sent, started. `LookupSafe` needs one more invariant, `Lossless`:
while nobody but server 1 has ended, an election or an announcement that is not
over is still somewhere.

`Membership_proofs`, for any number of servers, contacts and ends of processes:
`TypeCorrect`, `PrimaryFound`, `Refinement` (a list is a value of
`RegistrationLog` from the moment its server has joined) and
`NotifiesEverybody`. The invariant `IInv` relates every list in the system to
the primary's:

 * `Registered`, `Prefixes`: the primary's list has exactly those that
   registered, each once, and every other list, also one on its way in a reply,
   is a prefix of it that is not shorter than the one it will replace;
 * `Places`, `Once`: where the connection of a main or coms thread may be, and
   that it is at one place only, so that an answer is for the one that asked;
 * `Round`, `Fetching`: the notifications of a registration go down the list,
   the one that registered has not fetched before they are over, and who is
   behind a server that has ended (`Stuck`) is not notified any more.

`PrimaryFound` is `Repeating` with `Prefixes`: only those that have joined repeat
an update, and a prefix with oneself in it begins with the primary.
`NotifiesEverybody` counts: while nobody has ended, server `s` has one deferred
update for each later registration, less one while the round has not come to it
(`OwedChange`), and less one from its answer to its push (`Deferral`). The theorem
counts the answered one as well, because the round may be over before the push.

`Requests_proofs` goes on from the stream of bytes (`RequestAssumption`,
`SizeAssumption`): `RequestsTyped`, `ExecutesAsAsked` and `TellsTheTruth`. The
layout of a packet is stated once (`Fields`, `Before`, `Size`, `Value`), and the
invariant says that

 * there are positions `start` at which the packets of the requests begin, and
   the bytes written, with those still to be written, are these packets
   (`Starts`, `Streaming`);
 * a session that has executed `n` requests stands in the packet of request
   `n + 1`, at the field and byte it expects, and its variables hold the fields
   before that one (`Reading`, `Knows`), all of them when it serves (`Serving`);
 * a packet that was cut is the last the session reads (`Damage`);
 * client and session take turns until an answer is sent twice: the client has
   been told of all that was executed, or of all but one whose answer is on its
   way, or it has sent an exit (`Turns`).

What a task is told is not what the session answered (`Reported`), so the theorem
has the two exceptions that `ToldTheTruth` names: a list, which is told a success
when it was refused, and a download, which may be told a failure when it was
served.

The theorems hold for any number of requests, so also where a client gets ahead
of a session that answered twice and then ends in the middle of a packet, a case
that takes five requests and lies beyond the four of `RequestRaces`.

`FileSync_proofs`, for any devices, files, scenes and bounds
(`FileSyncAssumption`), with atomic file use or without: `FilesTyped`, in which
the count of a user's entries keeps the sessions below the limit, and
`NoChangeLost`. `NetworkViewFresh` is strengthened to `ViewOf`: it holds from
the start of a device, not only at its prompt (`HeardOf`); a session that reads
a file after an event reads what the server has, or the file is being changed,
or there is an event about it in the queue (`SendsLatest`); so it is for what
the client is about to apply (`AppliesLatest`); and a device without a session
has heard of nothing (`Connected`). The argument is in two halves. What a step
does to the others (`Announced`, `Untouched`): a file changes only under the eyes
of a session that will broadcast it, and a broadcast reaches every queue. What a
step does to its own device: an event leaves the queue only for a thread that
then learns of the file, and what that thread loses (a read that hangs, a
version that was overtaken) it loses only when another event waits.

`LatestKept`, in the same module, is `KeepsLatest` where it can hold (`Orderly`,
both situations of `SyncInOrder` among others): sessions do not overlap on a file
(`AtomicFiles`); users wait until nothing is left to be done before each command,
or give one command at all, which removes nothing; devices may start at any time
if users remove nothing, and if they do, no device starts and the directory was
empty; and no save has the contents a file had at the start. TLC violates
`KeepsLatest` when users do not wait, when they remove a file that was there at
the start or anything while a device starts, and when sessions overlap. For any
number of devices, files and commands, `Converges` says of each file:

 * what is queued or under way about it speaks of the latest version
   (`Carries`, `Handles`); queues are taken as sets, for their order does not
   matter while they say the same;
 * a device has the latest version under both of its names in `dir_hash`, or
   got it when it started and `dir_hash` knows of nothing (`Has`), or an event is
   in its queue or in its hands (`Told`), or a session will tell everybody
   (`TellsAll`), or it has yet to download what the server has (`Fetches`);
 * the server has it, or a device wants to send it (`Pending`), or a session is
   writing it, and then no session reads it (`Stored`); a device downloads only
   files that the server has, and nothing takes them away (`Listed`);
 * where users remove nothing, nobody is busy with a file nobody saved, first
   downloads apart (`Virgin`, `Idle`); so a file that was not on the list, or is
   downloaded in an old version, has been saved since, and an upload that is
   still to be announced will reach the device that starts;

and of each device, `Calm`, where its threads may be: main asks for one thing at a
time while it starts, and the notify thread has seen nothing before it watches.

An echo, a file sent back because inotify's name for it is another key, thus
carries what everybody has or is about to have, and when the queues are empty
everybody has it (`QuietIdle`, `IdleHas`). A command starts from there, or is the
only one and finds every file `Virgin` (`CommandIdle`): either way one device that
knows of the new version is enough for all of this (`NewVersion`).

Only model-checked:

 * liveness, which the prover does not do under fairness: `FailoverCompletes`,
   `AllJoinByNewest`, `Settles`, `PlaceReturned` and the others;
 * `AtMostOneFlagged` and `AnnouncedAfterRegistered` with more than one
   detector (`ElectionRaces`): both then rest on nobody being elected twice,
   hence on the order of several elections and announcements under way at once.

## Not modelled

 * A backup that receives an upload from its primary: no backup listens for one
   in this code (`main.cpp:253`), so the session with another server as its
   client does not exist, and neither do copies of files on backups. What the
   primary does when it tries is in `Requests`.
 * What the files of a device become when it goes on with another primary:
   `Service` has the change, `FileSync` the files, and they are not composed.
 * The fields of a `server_t` read while they are written (`state.cpp:81`), the
   counter of connection ids (`connection.cpp:18`), a write that fails while the
   process goes on and keeps the metadata mutex (`coms.cpp:178`), the padding
   and lifetime of names in the notify thread (`fs_notify.cpp:106`).
 * `ready()` of the reader, which nothing calls; `req_hello`, which changes
   nothing; errors of the disk; addresses and ports beyond their identity.
 * Output, the prompt's parsing, logging, the names of `errno` values
   (`coms.cpp:280-549`) and the build have no behaviour to model; the table
   library `client/include/tabulate.hpp` is vendored and prints. These are most
   of the lines that no definition stands for: the library alone is 9255 of the
   repository's 16671 lines, and the readers and writers, which are in three
   copies, are mapped once or twice.

`PROJECT.json` lists each part with its status, and lists the hazards no
property covers yet.

## Plan

1. `AnnouncedAfterRegistered` and `AtMostOneFlagged` with any detectors. A primary
   that handles an `<election>` drops itself and ends at the consistency check,
   unless it has stored the list of another that lists it unmarked; so what
   `Reign` says of one server is needed of every primary that runs, and of each
   pair of them who was elected first.
2. A composition of `Service` and `FileSync` for a device that changes its
   primary; the fields of a `server_t` one by one.
