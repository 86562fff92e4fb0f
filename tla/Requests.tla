------------------------------ MODULE Requests ------------------------------
(***************************************************************************)
(* One connection from a client's network thread (network.cpp, protocol.cpp *)
(* of the client) to the session a server runs for it (server.cpp,         *)
(* protocol.cpp, reader.cpp of the server), from the handshake to the end. *)
(*                                                                         *)
(* Requests go byte by byte through BufferedIO, and the server takes them  *)
(* apart field by field; an answer is one message, as the code that writes *)
(* and reads it is the same again.  The client's process may end at any    *)
(* byte.  What the session stores is in FileSync; here it succeeds or not. *)
(***************************************************************************)
EXTENDS BufferedIO

CONSTANTS
  Names,        \* file names, of one character
  Tasks,        \* the requests a user's commands and saves lead to
  WordSize,     \* bytes of a 64-bit number: 8 in the code
  MaxRequests   \* bound on the requests of a connection

NoName == "no name"
Unset == -1

Type == {"handshake", "download", "upload", "delete", "list", "exit", "update"}
Named == {"download", "upload", "delete"}
Request == [type : Type, name : Names \cup {NoName}, length : Nat]

Ask(type) == [type |-> type, name |-> NoName, length |-> 0]
AskFor(type, name) == [Ask(type) EXCEPT !.name = name]
Upload(name, size) == [AskFor("upload", name) EXCEPT !.length = size]

ASSUME RequestAssumption ==
  /\ WordSize \in Nat \ {0} /\ MaxRequests \in Nat
  /\ \A r \in Tasks :
       \/ r.length \in Nat /\ \E n \in Names : r = Upload(n, r.length)
       \/ \E n \in Names : r \in {AskFor("download", n), AskFor("delete", n)}
       \/ r \in {Ask("list"), Ask("exit")}

VARIABLES
  (* the client *)
  client,    \* "idle", "writing", "waiting", "ended", "gone" or "garbled"
  next,      \* what its loop does when it is idle
  asked,     \* the requests it has begun
  told,      \* what its tasks have been told of them, one for each
  todo,      \* the bytes still to be written of the last request
  stream,    \* every byte it has written
  (* the session *)
  session,   \* "reading", "serving", "hung" in read_file, or "over"
  greeted,   \* has the client been accepted?
  expect,    \* the field it reads, and how much of it is missing
  header,    \* the type of the packet
  filename, length, bytes,  \* the variables of client_handler_thread
  answers,   \* answers on their way
  executed,  \* the packets it has served
  (* how things go *)
  damaged,   \* has a packet been served that ended too early?
  backup,    \* is there a backup in the server's list?
  status,    \* the session's status, which only the backups' answers set
  refused,   \* has the session answered twice?
  misread    \* has a field been read that was not written there?

clientVars == <<client, next, asked, told, todo, stream>>
parseVars == <<expect, header, filename, length, bytes, damaged, misread>>
sessionVars == <<session, greeted, answers, executed, refused>>
given == <<backup, status>>
rqVars == <<ioVars, clientVars, parseVars, sessionVars, given>>

-----------------------------------------------------------------------------
(* Packets *)

\* The bytes of a field know what they are part of.
Field(f, value, size) == [k \in 1 .. size |-> [f |-> f, v |-> value, k |-> k]]
String(s) == Field("strlen", 1, WordSize) \o Field("chars", s, 1)
ByteArray(l) == Field("length", l, WordSize) \o Field("data", l, l)

\* Mutant: the length of an upload is written as a 32-bit number.
Packet_ShortLength(r) ==
  Field("version", 0, 2) \o Field("type", r.type, 1) \o
  CASE r.type = "handshake"            -> String(r.name) \o Field("from", 0, 1)
    [] r.type \in {"download", "delete"} -> String(r.name)
    [] r.type = "upload"               ->
         String(r.name) \o Field("length", r.length, WordSize - 1)
           \o Field("data", r.length, r.length)
    [] OTHER                           -> << >>

Packet(r) ==
  Field("version", 0, 2) \o Field("type", r.type, 1) \o
  CASE r.type = "handshake"            -> String(r.name) \o Field("from", 0, 1)
    [] r.type \in {"download", "delete"} -> String(r.name)
    [] r.type = "upload"               -> String(r.name) \o ByteArray(r.length)
    [] OTHER                           -> << >>

-----------------------------------------------------------------------------
(* The client *)

Begin(r) ==
  /\ client = "idle" /\ Len(asked) < MaxRequests
  /\ client' = "writing"
  /\ asked' = Append(asked, r)
  /\ todo' = Packet(r)
  /\ UNCHANGED <<ioVars, next, told, stream, parseVars, sessionVars, given>>

Handshake == next = "handshake" /\ Begin(Ask("handshake"))

\* A task of the queue, if there is one; every turn ends with an update.
Task == next = "task" /\ \E r \in Tasks : Begin(r)
Update == next \in {"task", "update"} /\ Begin(Ask("update"))
EventDownload == next = "event" /\ \E n \in Names : Begin(AskFor("download", n))

WriteByte ==
  /\ client = "writing" /\ todo # << >>
  /\ WriteU8
  /\ stream' = Append(stream, Head(todo))
  /\ todo' = Tail(todo)
  /\ UNCHANGED <<client, next, asked, told, parseVars, sessionVars, given>>

\* The flush at the end of a request.  Nothing answers an exit.
Send ==
  /\ client = "writing" /\ todo = << >>
  /\ Flush
  /\ IF asked[Len(asked)].type = "exit"
       THEN client' = "idle" /\ next' = "update" /\ told' = Append(told, "sent")
       ELSE client' = "waiting" /\ UNCHANGED <<next, told>>
  /\ UNCHANGED <<asked, todo, stream, parseVars, sessionVars, given>>

\* What a successful answer to a request of this type carries.
BodyOf(type) ==
  CASE type = "download" -> {"bytes"}
    [] type = "list"     -> {"list"}
    [] type = "update"   -> {"modified", "deleted"}
    [] OTHER             -> {"none"}

\* After a second answer to a refused upload the client may read an answer
\* that has other fields than those it looks for.
Readable(type, a) == a.status = "success" => a.body \in BodyOf(type)

\* What the task is told of an answer.  A list is a success whatever the
\* server answered; a file that has come may still not be written; and what
\* came of an event's download is applied whatever it is.
Reported(type, st) ==
  CASE type = "list"                         -> {"success"}
    [] type = "download" /\ next = "event"   -> {"applied"}
    [] type = "download" /\ st = "success"   -> {"success", "fail"}
    [] OTHER                                 -> {st}

Receive ==
  LET type == asked[Len(asked)].type
      a    == Head(answers)
  IN  /\ client = "waiting" /\ answers # << >>
      /\ answers' = Tail(answers)
      /\ \E st \in Reported(type, a.status) : told' = Append(told, st)
      /\ \/ /\ ~Readable(type, a)
            /\ client' = "garbled"
            /\ UNCHANGED next
         \/ /\ Readable(type, a)
            /\ client' = IF type = "handshake" /\ a.status # "success"
                           THEN "ended" ELSE "idle"
            /\ next' = CASE type = "update" /\ a.body = "modified" -> "event"
                         [] type \in {"handshake", "update"}       -> "task"
                         [] next = "event"                         -> "task"
                         [] OTHER                                  -> "update"
      /\ UNCHANGED <<ioVars, asked, todo, stream, parseVars, session, greeted,
                     executed, refused, given>>

\* The session is over and there is no answer: a send or a read fails, and the
\* client makes another connection.
LoseConnection ==
  /\ session = "over" /\ answers = << >>
  /\ \/ client = "waiting"
     \/ client = "writing" /\ (todo = << >> \/ windex >= WSize)
  /\ client' = "ended"
  /\ told' = Append(told, "lost")
  /\ UNCHANGED <<ioVars, next, asked, todo, stream, parseVars, sessionVars, given>>

\* The client's process ends, perhaps in the middle of a request.
ClientEnds ==
  /\ Cut
  /\ client' = "gone"
  /\ UNCHANGED <<next, asked, told, todo, stream, parseVars, sessionVars, given>>

-----------------------------------------------------------------------------
(* The session reads a packet *)

Await(f, size) == expect' = [f |-> f, size |-> size, left |-> size]
NewPacket == Await("version", 2)

\* The session has the whole packet.
Complete == session' = "serving" /\ NewPacket

\* The value of a field that has been read, and the field that follows it.
Store(f, v) ==
  CASE f = "version" -> /\ Await("type", 1)
                        /\ UNCHANGED <<session, header, filename, length, bytes>>
    [] f = "type"    -> /\ header' = v
                        /\ IF v \in Named \cup {"handshake"}
                             THEN Await("strlen", WordSize) /\ UNCHANGED session
                             ELSE Complete
                        /\ UNCHANGED <<filename, length, bytes>>
    [] f = "strlen"  -> /\ Await("chars", v)
                        /\ UNCHANGED <<session, header, filename, length, bytes>>
    [] f = "chars"   -> /\ filename' = IF greeted THEN v ELSE filename
                        /\ CASE header = "handshake" ->
                                  Await("from", 1) /\ UNCHANGED session
                             [] header = "upload" ->
                                  Await("length", WordSize) /\ UNCHANGED session
                             [] OTHER -> Complete
                        /\ UNCHANGED <<header, length, bytes>>
    [] f = "from"    -> /\ Complete
                        /\ UNCHANGED <<header, filename, length, bytes>>
    [] f = "length"  -> /\ length' = v
                        /\ bytes' = "whole"
                        /\ IF v = 0 THEN Complete
                                    ELSE Await("data", v) /\ UNCHANGED session
                        /\ UNCHANGED <<header, filename>>
    [] f = "data"    -> /\ Complete
                        /\ UNCHANGED <<header, filename, length, bytes>>

\* The byte that was just read is the next one of the field.
Fits(b) == b.f = expect.f /\ b.k = expect.size - expect.left + 1

ReadByte ==
  /\ session = "reading" /\ ~misread
  /\ ReadU8
  /\ LET b == stream[last'] IN
       \/ /\ Fits(b) /\ expect.left > 1
          /\ expect' = [expect EXCEPT !.left = @ - 1]
          /\ UNCHANGED <<session, header, filename, length, bytes, misread>>
       \/ /\ Fits(b) /\ expect.left = 1
          /\ Store(b.f, b.v)
          /\ UNCHANGED misread
       \/ /\ ~Fits(b)
          /\ misread' = TRUE
          /\ UNCHANGED <<session, expect, header, filename, length, bytes>>
  /\ UNCHANGED <<clientVars, damaged, greeted, answers, executed, refused, given>>

Fill ==
  /\ session = "reading"
  /\ FillBuffer
  /\ UNCHANGED <<clientVars, parseVars, sessionVars, given>>

\* The stream ends before the packet does.  read_string and read_byte_array
\* fail, but receive_packet takes no notice: what was not read keeps the value
\* of an earlier packet, and the buffer has been freed unless it is empty.
Freed ==
  IF length = 0 /\ expect.f # "data" THEN {"whole"}
  ELSE IF length = Unset THEN {"whole", "freed"} ELSE {"freed"}


\* Mutant: the last packet is served again when no other comes.
ReadFails_ServeAgain ==
  /\ session = "reading"
  /\ FillFails
  /\ IF ~greeted THEN session' = "over" /\ UNCHANGED expect ELSE Complete
  /\ UNCHANGED <<clientVars, header, filename, length, bytes, damaged, misread,
                 greeted, answers, executed, refused, given>>

\* Mutant: a read that fails is tried again.
ReadFails_Retry ==
  /\ session = "reading"
  /\ FillFails
  /\ UNCHANGED <<clientVars, parseVars, sessionVars, given>>

ReadFails ==
  /\ session = "reading"
  /\ FillFails
  /\ IF ~greeted \/ expect.f \in {"version", "type"}
       THEN session' = "over" /\ UNCHANGED <<expect, bytes, damaged>>
       ELSE /\ Complete
            /\ damaged' = TRUE
            /\ IF header = "upload" THEN bytes' \in Freed ELSE UNCHANGED bytes
  /\ UNCHANGED <<clientVars, header, filename, length, misread, greeted,
                 answers, executed, refused, given>>

-----------------------------------------------------------------------------
(* The session serves it *)

Answer(st, body) ==
  answers' = Append(answers, [status |-> st, body |-> body])

\* A write to a client that is gone may fail, and ends the session.
Continue == session' = "reading" \/ (~open /\ session' = "over")

Done(ok) ==
  executed' = Append(executed,
    [type |-> header, name |-> IF header \in Named THEN filename ELSE NoName,
     length |-> IF header = "upload" THEN length ELSE 0,
     whole |-> header = "upload" => bytes = "whole", ok |-> ok])

\* A client is accepted, unless it has two connections already.
ServeHandshake ==
  /\ session = "serving" /\ ~greeted
  /\ \E ok \in BOOLEAN :
       /\ greeted' = ok
       /\ Answer(IF ok THEN "success" ELSE "fail", "none")
       /\ session' = IF ok THEN "reading" ELSE "over"
       /\ Done(ok)
  /\ UNCHANGED <<ioVars, clientVars, parseVars, refused, given>>

\* A listing or an update.
ServeRead ==
  /\ session = "serving" /\ greeted /\ header \in {"list", "update"}
  /\ \/ /\ \E body \in BodyOf(header) : Answer("success", body)
        /\ Done(TRUE)
     \/ /\ Answer(IF header = "update" THEN "empty" ELSE "fail", "none")
        /\ Done(FALSE)
  /\ Continue
  /\ UNCHANGED <<ioVars, clientVars, parseVars, greeted, refused, given>>

\* A download.  The session takes no notice of one that cannot be written.
ServeDownload ==
  /\ session = "serving" /\ greeted /\ header = "download"
  /\ \/ Answer("success", "bytes") /\ Done(TRUE) /\ session' = "reading"
     \/ Answer("fail", "none") /\ Done(FALSE) /\ Continue
  /\ UNCHANGED <<ioVars, clientVars, parseVars, greeted, refused, given>>

\* Another session has cut the file since it was measured: read_file reads on
\* for bytes that never come.
ReadForever ==
  /\ session = "serving" /\ greeted /\ header = "download"
  /\ session' = "hung"
  /\ UNCHANGED <<ioVars, clientVars, parseVars, greeted, answers, executed,
                 refused, given>>

\* Mutant: the client is told SUCCESS when the file could not be changed.
ServeWrite_SayDone ==
  /\ session = "serving" /\ greeted /\ header \in {"upload", "delete"}
  /\ Answer("success", "none") /\ Done(FALSE) /\ Continue
  /\ UNCHANGED <<ioVars, clientVars, parseVars, greeted, refused, given>>

\* An upload or a deletion.  First the backups: none of them listens on the
\* port, so connbackup is not initialised, and if its use is survived, status
\* is what it happened to be.  Then the file, and the answer.
ServeWrite ==
  /\ session = "serving" /\ greeted /\ header \in {"upload", "delete"}
  /\ LET twice == backup /\ status # "success"
         first == [status |-> "fail", body |-> "none"]
         all   == IF twice THEN Append(answers, first) ELSE answers
     IN  \E ok \in BOOLEAN :
           /\ answers' = Append(all, [status |-> IF ok THEN "success" ELSE "fail",
                                      body |-> "none"])
           /\ refused' = (refused \/ twice)
           /\ Done(ok)
  /\ Continue
  /\ bytes' = IF header = "upload" THEN "freed" ELSE bytes
  /\ UNCHANGED <<ioVars, clientVars, expect, header, filename, length, damaged,
                 misread, greeted, given>>

\* The use of an uninitialised connection, or of a freed buffer, ends the
\* server's process.
ServerEnds ==
  /\ session = "serving" /\ greeted /\ header \in {"upload", "delete"}
  /\ backup \/ (header = "upload" /\ bytes = "freed")
  /\ session' = "over"
  /\ UNCHANGED <<ioVars, clientVars, parseVars, greeted, answers, executed,
                 refused, given>>

ServeExit ==
  /\ session = "serving" /\ greeted /\ header = "exit"
  /\ session' = "over"
  /\ Done(TRUE)
  /\ UNCHANGED <<ioVars, clientVars, parseVars, greeted, answers, refused, given>>

-----------------------------------------------------------------------------

ClientStep ==
  \/ Handshake \/ Task \/ Update \/ EventDownload
  \/ WriteByte \/ Send \/ Receive \/ LoseConnection

SessionStep ==
  \/ ReadByte \/ Fill \/ ReadFails
  \/ ServeHandshake \/ ServeRead \/ ServeDownload \/ ReadForever
  \/ ServeWrite \/ ServeExit \/ ServerEnds

Init ==
  /\ IOInit
  /\ client = "idle" /\ next = "handshake"
  /\ asked = << >> /\ told = << >> /\ todo = << >> /\ stream = << >>
  /\ session = "reading" /\ greeted = FALSE
  /\ expect = [f |-> "version", size |-> 2, left |-> 2]
  /\ header = "handshake" /\ filename = NoName
  /\ length = Unset /\ bytes = "unset"
  /\ answers = << >> /\ executed = << >>
  /\ damaged = FALSE /\ refused = FALSE /\ misread = FALSE
  /\ backup \in BOOLEAN
  /\ status \in IF backup THEN {"success", "other"} ELSE {"other"}

Next == ClientStep \/ SessionStep \/ ClientEnds

Spec == Init /\ [][Next]_rqVars

\* Both threads go on when they can.
FairSpec == Spec /\ WF_rqVars(ClientStep) /\ WF_rqVars(SessionStep)

-----------------------------------------------------------------------------
(* Properties *)

TypeOK ==
  /\ IOTypeOK
  /\ client \in {"idle", "writing", "waiting", "ended", "gone", "garbled"}
  /\ next \in {"handshake", "task", "update", "event"}
  /\ asked \in Seq(Request) /\ Len(told) <= Len(asked)
  /\ Len(stream) = sent
  /\ session \in {"reading", "serving", "hung", "over"}
  /\ expect.left \in 1 .. expect.size
  /\ bytes \in {"unset", "whole", "freed"}

\* What a session executes is what its client asked for, in that order, with the
\* names and the data of that request.  Only the last packet of a client whose
\* process has ended can be executed with an older name or length, or without
\* its data (receive_packet takes no notice of the reads that fail,
\* protocol.cpp:61-70 of the server), and even that has the type that was sent.
\* It is also the last one asked for, unless the client got ahead of a session
\* that answered twice.
ExecutedAsAsked ==
  \A i \in 1 .. Len(executed) :
    /\ i <= Len(asked) /\ executed[i].type = asked[i].type
    /\ \/ /\ executed[i].name = asked[i].name
          /\ executed[i].length = asked[i].length
          /\ executed[i].whole
       \/ /\ damaged /\ ~open /\ i = Len(executed)
          /\ refused \/ i = Len(asked)

\* What a task of the client is told is what became of it, though tasks, updates
\* and the downloads of events share the connection: only a session that answers
\* a refused replication twice (server.cpp:139, 149) gets them out of step.
\* Two kinds of task are told less: a list is told a success even if the server
\* could not list (network.cpp:202-205), and a download that the server served
\* is told a failure if its file cannot be written (network.cpp:246-254).
ToldTheTruth ==
  ~refused =>
    /\ client # "garbled"
    /\ \A i \in 1 .. Len(told) :
         told[i] \in {"success", "fail", "empty"} =>
           /\ i <= Len(executed)
           /\ told[i] = "success" => executed[i].ok \/ executed[i].type = "list"
           /\ executed[i].ok => told[i] = "success" \/ executed[i].type = "download"

\* A client that waits for an answer does not wait for ever (network.cpp:199-308),
\* unless a second answer has come between, or its session is in read_file's
\* loop (file_manager.cpp:68-80 of the server).
Answered ==
  client = "waiting" ~>
    client \in {"idle", "ended", "gone"} \/ refused \/ session = "hung"

\* The session of a client whose process has ended ends too, and gives its place
\* back, wherever in a packet the client was (server.cpp:89-94, 245), unless it
\* is in read_file's loop (file_manager.cpp:68-80).
SessionEnds == ~open ~> session \in {"over", "hung"}
=============================================================================
