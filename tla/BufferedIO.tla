----------------------------- MODULE BufferedIO -----------------------------
(***************************************************************************)
(* One direction of a connection: the tcp_writer of one process (writer.cpp)*)
(* and the tcp_reader of the other (reader.cpp).  Client, server and DNS   *)
(* each have their copy of the two files.                                  *)
(*                                                                         *)
(* The nth byte written is n.  A send gives the whole buffer to the socket, *)
(* a read takes some bytes from it.  When the writer's process ends, what  *)
(* it has not sent is lost, and the socket may lose its end.               *)
(***************************************************************************)
EXTENDS Integers, Sequences

CONSTANTS WSize, RSize  \* WSIZE and RSIZE

ASSUME SizeAssumption == WSize \in Nat \ {0} /\ RSize \in Nat \ {0}

VARIABLES
  sent,     \* number of bytes written
  wbuf,     \* the writer's buffer
  windex,   \* its index
  open,     \* does the writer's process hold the connection?
  socket,   \* the bytes between the two
  bufs,     \* the reader's a_buffer (TRUE) and b_buffer (FALSE)
  switch,   \* its buffer_switch
  rindex,   \* its index
  rlength,  \* its length
  got,      \* number of bytes read
  last      \* the byte read last

writerVars == <<sent, wbuf, windex, open>>
readerVars == <<bufs, switch, rindex, rlength>>
readVars == <<got, last>>
ioVars == <<sent, wbuf, windex, open, socket, bufs, switch, rindex, rlength,
            got, last>>

WBuffer == [0 .. WSize - 1 -> Nat]
RBuffer == [0 .. RSize - 1 -> Nat]

-----------------------------------------------------------------------------
(* The writer *)

Written == [i \in 1 .. windex |-> wbuf[i - 1]]

Put(at) ==
  /\ wbuf' = [wbuf EXCEPT ![at] = sent + 1]
  /\ windex' = at + 1
  /\ sent' = sent + 1

\* Mutant: the byte is put before the index is compared with WSIZE.
WriteU8_NoCheck ==
  /\ open
  /\ Put(windex)
  /\ UNCHANGED <<open, socket, readerVars, readVars>>

\* A full buffer is flushed before the byte is put.
WriteU8 ==
  /\ open
  /\ \/ /\ windex < WSize
        /\ Put(windex)
        /\ UNCHANGED socket
     \/ /\ windex >= WSize
        /\ socket' = socket \o Written
        /\ Put(0)
  /\ UNCHANGED <<open, readerVars, readVars>>

Flush ==
  /\ open
  /\ socket' = socket \o Written
  /\ windex' = 0
  /\ UNCHANGED <<sent, wbuf, open, readerVars, readVars>>

\* The writer's process ends.
Cut ==
  /\ open
  /\ open' = FALSE
  /\ \E n \in 0 .. Len(socket) : socket' = SubSeq(socket, 1, n)
  /\ UNCHANGED <<sent, wbuf, windex, readerVars, readVars>>

-----------------------------------------------------------------------------
(* The reader *)

CurrBuf == bufs[switch]

\* One read of the socket, into the other buffer.  What is beyond the length
\* is never looked at, and is 0 here.
FillBuffer ==
  /\ rindex >= rlength
  /\ \E n \in 1 .. RSize :
       /\ n <= Len(socket)
       /\ switch' = ~switch
       /\ bufs' = [bufs EXCEPT ![~switch] =
            [i \in 0 .. RSize - 1 |-> IF i < n THEN socket[i + 1] ELSE 0]]
       /\ rindex' = 0 /\ rlength' = n
       /\ socket' = SubSeq(socket, n + 1, Len(socket))
  /\ UNCHANGED <<writerVars, readVars>>

\* The end of the stream; a later call finds it again.  The reader of the server
\* and the DNS would try again on an errno of EAGAIN, but their sockets block and
\* no call of theirs sets that; the client's does not look (reader.cpp:47-51).
Ended == rindex >= rlength /\ socket = << >> /\ ~open

FillFails ==
  /\ Ended
  /\ switch' = ~switch
  /\ UNCHANGED <<writerVars, socket, bufs, rindex, rlength, readVars>>

\* Mutant: peek without step.
ReadU8_NoStep ==
  /\ rindex < rlength
  /\ last' = CurrBuf[rindex]
  /\ got' = got + 1
  /\ UNCHANGED <<writerVars, socket, bufs, switch, rindex, rlength>>

\* peek and step.
ReadU8 ==
  /\ rindex < rlength
  /\ last' = CurrBuf[rindex]
  /\ got' = got + 1
  /\ rindex' = rindex + 1
  /\ UNCHANGED <<writerVars, socket, bufs, switch, rlength>>

-----------------------------------------------------------------------------

IOInit ==
  /\ sent = 0 /\ windex = 0 /\ open = TRUE
  /\ wbuf = [i \in 0 .. WSize - 1 |-> 0]
  /\ socket = << >>
  /\ bufs = [s \in BOOLEAN |-> [i \in 0 .. RSize - 1 |-> 0]]
  /\ switch = FALSE /\ rindex = 0 /\ rlength = 0
  /\ got = 0 /\ last = 0

IONext == WriteU8 \/ Flush \/ Cut \/ FillBuffer \/ FillFails \/ ReadU8

IOSpec == IOInit /\ [][IONext]_ioVars

-----------------------------------------------------------------------------
(* Properties *)

IOTypeOK ==
  /\ sent \in Nat /\ got \in Nat /\ last \in Nat
  /\ wbuf \in WBuffer /\ windex \in 0 .. WSize
  /\ open \in BOOLEAN
  /\ socket \in Seq(Nat)
  /\ bufs \in [BOOLEAN -> RBuffer] /\ switch \in BOOLEAN
  /\ rlength \in 0 .. RSize /\ rindex \in 0 .. rlength

Unread == rlength - rindex

\* Where each byte is: in the reader's current buffer, in the socket, or in the
\* writer's buffer, in the order of their numbers (writer.cpp:35-43,
\* reader.cpp:36-103).
InOrder ==
  /\ \A i \in 0 .. RSize - 1 :
       rindex <= i /\ i < rlength => CurrBuf[i] = got + (i - rindex) + 1
  /\ \A i \in 1 .. Len(socket) : socket[i] = got + Unread + i
  /\ \A i \in 0 .. WSize - 1 :
       i < windex => wbuf[i] = (sent - windex) + i + 1
  /\ open => sent = got + Unread + Len(socket) + windex
  /\ got + Unread + Len(socket) <= sent

\* Through two buffers of a few bytes, sends of any length and reads of any
\* length, the other side reads the bytes as they were written: a connection
\* is a byte stream until the writer's process ends.
S == INSTANCE ByteStream
RefinesStream == S!Spec
=============================================================================
