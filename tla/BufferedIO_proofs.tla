------------------------- MODULE BufferedIO_proofs -------------------------
(***************************************************************************)
(* Proofs about BufferedIO, for buffers of any size: both ends keep the    *)
(* bytes in order, and the connection implements ByteStream.               *)
(***************************************************************************)
EXTENDS BufferedIO, SequenceTheorems, TLAPS

IInv == IOTypeOK /\ InOrder

-----------------------------------------------------------------------------
(* Lemmas *)

\* What a send adds to the socket.
LEMMA WrittenBytes ==
  ASSUME IOTypeOK
  PROVE  /\ Written \in Seq(Nat) /\ Len(Written) = windex
         /\ \A i \in 1 .. windex : Written[i] = wbuf[i - 1]
<1>1. windex \in Nat /\ windex <= WSize /\ WSize \in Nat
  BY SizeAssumption DEF IOTypeOK
<1>2. \A i \in 1 .. windex : wbuf[i - 1] \in Nat
  BY <1>1 DEF IOTypeOK, WBuffer
<1>. QED
  BY <1>1, <1>2 DEF Written

\* What is in the socket after a send.
LEMMA Sent ==
  ASSUME IOTypeOK, socket' = socket \o Written
  PROVE  /\ socket' \in Seq(Nat) /\ Len(socket') = Len(socket) + windex
         /\ \A i \in 1 .. Len(socket') :
              socket'[i] = IF i <= Len(socket) THEN socket[i]
                           ELSE wbuf[i - Len(socket) - 1]
<1>1. socket \in Seq(Nat) /\ Written \in Seq(Nat) /\ Len(Written) = windex
  BY WrittenBytes DEF IOTypeOK
<1>2. /\ socket' \in Seq(Nat) /\ Len(socket') = Len(socket) + windex
      /\ \A i \in 1 .. Len(socket') :
           socket'[i] = IF i <= Len(socket) THEN socket[i]
                        ELSE Written[i - Len(socket)]
  BY ZenonT(60), <1>1, ConcatProperties
<1>3. \A i \in 1 .. Len(socket') :
        i > Len(socket) => Written[i - Len(socket)] = wbuf[i - Len(socket) - 1]
  <2>. SUFFICES ASSUME NEW i \in 1 .. Len(socket'), i > Len(socket)
                PROVE  Written[i - Len(socket)] = wbuf[i - Len(socket) - 1]
    OBVIOUS
  <2>1. i - Len(socket) \in 1 .. windex
    BY <1>1, <1>2
  <2>. QED
    BY <2>1, WrittenBytes
<1>. QED
  BY <1>1, <1>2, <1>3

LEMMA Initially == IOInit => IInv
<1>. SUFFICES ASSUME IOInit PROVE IInv
  OBVIOUS
<1>1. IOTypeOK
  <2>1. wbuf \in WBuffer
    BY DEF IOInit, WBuffer
  <2>2. bufs \in [BOOLEAN -> RBuffer]
    <3>1. [i \in 0 .. RSize - 1 |-> 0] \in RBuffer
      BY DEF RBuffer
    <3>. QED
      BY <3>1 DEF IOInit
  <2>3. socket \in Seq(Nat)
    BY DEF IOInit
  <2>4. windex \in 0 .. WSize /\ rlength \in 0 .. RSize /\ rindex \in 0 .. rlength
    BY SizeAssumption DEF IOInit
  <2>. QED
    BY <2>1, <2>2, <2>3, <2>4 DEF IOInit, IOTypeOK
<1>2. InOrder
  <2>1. rindex = 0 /\ rlength = 0 /\ windex = 0 /\ sent = 0 /\ got = 0
        /\ socket = << >> /\ Len(socket) = 0 /\ Unread = 0
    BY DEF IOInit, Unread
  <2>2. \A i \in 0 .. RSize - 1 : ~(rindex <= i /\ i < rlength)
    BY <2>1, SizeAssumption
  <2>3. \A i \in 0 .. WSize - 1 : ~(i < windex)
    BY <2>1, SizeAssumption
  <2>4. sent = got + Unread + Len(socket) + windex
        /\ got + Unread + Len(socket) <= sent
    BY <2>1
  <2>5. \A i \in 1 .. Len(socket) : socket[i] = got + Unread + i
    BY <2>1
  <2>. QED
    BY <2>2, <2>3, <2>4, <2>5 DEF InOrder
<1>. QED
  BY <1>1, <1>2 DEF IInv

LEMMA WriteU8Step ==
  ASSUME IInv, WriteU8
  PROVE  IInv'
<1>. USE SizeAssumption
<1>1. CASE windex < WSize /\ Put(windex) /\ UNCHANGED socket
  <2>1. IOTypeOK'
    BY <1>1 DEF IInv, IOTypeOK, WriteU8, Put, WBuffer, RBuffer, readerVars,
                readVars
  <2>2. InOrder'
    <3>1. /\ sent' = sent + 1 /\ windex' = windex + 1 /\ got' = got
          /\ wbuf' = [wbuf EXCEPT ![windex] = sent + 1] /\ wbuf \in WBuffer
          /\ sent \in Nat /\ windex \in Nat /\ windex \in 0 .. WSize - 1
          /\ got \in Nat /\ Len(socket) \in Nat /\ socket' = socket
          /\ open /\ open' = open
      BY <1>1 DEF IInv, IOTypeOK, WriteU8, Put, readVars
    <3>2. /\ Unread' = Unread /\ Unread \in Nat /\ CurrBuf' = CurrBuf
          /\ rindex' = rindex /\ rlength' = rlength
      BY DEF IInv, IOTypeOK, WriteU8, Unread, CurrBuf, readerVars
    <3>3. \A i \in 0 .. WSize - 1 :
            i < windex' => wbuf'[i] = (sent' - windex') + i + 1
      <4>. SUFFICES ASSUME NEW i \in 0 .. WSize - 1, i < windex'
                    PROVE  wbuf'[i] = (sent' - windex') + i + 1
        OBVIOUS
      <4>1. CASE i = windex
        BY <3>1, <4>1 DEF WBuffer
      <4>2. CASE i # windex
        <5>1. wbuf'[i] = wbuf[i] /\ i < windex
          BY <3>1, <4>2 DEF WBuffer
        <5>2. wbuf[i] = (sent - windex) + i + 1
          BY <5>1 DEF IInv, InOrder
        <5>. QED
          BY <3>1, <5>1, <5>2
      <4>. QED
        BY <4>1, <4>2
    <3>4. sent = got + Unread + Len(socket) + windex
      BY <3>1 DEF IInv, InOrder
    <3>5. sent' = got' + Unread' + Len(socket') + windex'
          /\ got' + Unread' + Len(socket') <= sent'
      BY <3>1, <3>2, <3>4
    <3>6. \A i \in 1 .. Len(socket') : socket'[i] = got' + Unread' + i
      BY <3>1, <3>2 DEF IInv, InOrder
    <3>7. \A i \in 0 .. RSize - 1 :
            rindex' <= i /\ i < rlength' => CurrBuf'[i] = got' + (i - rindex') + 1
      BY <3>1, <3>2 DEF IInv, InOrder
    <3>. QED
      BY <3>3, <3>5, <3>6, <3>7 DEF InOrder
  <2>. QED
    BY <2>1, <2>2 DEF IInv
<1>2. CASE windex >= WSize /\ socket' = socket \o Written /\ Put(0)
  <2>1. windex = WSize
    BY <1>2 DEF IInv, IOTypeOK
  <2>2. /\ socket' \in Seq(Nat) /\ Len(socket') = Len(socket) + windex
        /\ \A i \in 1 .. Len(socket') :
             socket'[i] = IF i <= Len(socket) THEN socket[i]
                          ELSE wbuf[i - Len(socket) - 1]
    BY <1>2, Sent DEF IInv
  <2>3. IOTypeOK'
    BY <1>2, <2>2, SMTT(30)
       DEF IInv, IOTypeOK, WriteU8, Put, WBuffer, RBuffer, readerVars,
                      readVars
  <2>4. Unread' = Unread /\ Unread \in Nat /\ CurrBuf' = CurrBuf
    BY DEF IInv, IOTypeOK, WriteU8, Unread, CurrBuf, readerVars
  <2>5. \A i \in 1 .. Len(socket') : socket'[i] = got' + Unread' + i
    <3>. SUFFICES ASSUME NEW i \in 1 .. Len(socket')
                  PROVE  socket'[i] = got' + Unread' + i
      OBVIOUS
    <3>1. got' = got /\ got \in Nat /\ sent \in Nat /\ Len(socket) \in Nat
      BY DEF WriteU8, readVars, IInv, IOTypeOK
    <3>2. CASE i <= Len(socket)
      BY <2>2, <2>4, <3>1, <3>2 DEF IInv, InOrder
    <3>3. CASE i > Len(socket)
      <4>1. i - Len(socket) - 1 \in 0 .. WSize - 1 /\ i - Len(socket) - 1 < windex
        BY <2>1, <2>2, <3>1, <3>3
      <4>2. wbuf[i - Len(socket) - 1]
              = (sent - windex) + (i - Len(socket) - 1) + 1
        BY <4>1 DEF IInv, InOrder
      <4>3. sent = got + Unread + Len(socket) + windex
        BY DEF IInv, InOrder, WriteU8
      <4>. QED
        BY <2>1, <2>2, <2>4, <3>1, <3>3, <4>2, <4>3
    <3>. QED
      BY <3>1, <3>2, <3>3
  <2>6. InOrder'
    <3>1. \A i \in 0 .. RSize - 1 :
            rindex' <= i /\ i < rlength' => CurrBuf'[i] = got' + (i - rindex') + 1
      BY <2>4 DEF IInv, InOrder, WriteU8, readerVars, readVars
    <3>2. \A i \in 0 .. WSize - 1 :
            i < windex' => wbuf'[i] = (sent' - windex') + i + 1
      BY <1>2 DEF IInv, IOTypeOK, Put, WBuffer
    <3>3. sent' = got' + Unread' + Len(socket') + windex'
      BY <1>2, <2>1, <2>2, <2>4
         DEF IInv, IOTypeOK, InOrder, WriteU8, Put, readVars
    <3>4. sent' \in Nat /\ got' + Unread' + Len(socket') \in Nat /\ windex' \in Nat
      BY <2>3 DEF IOTypeOK, Unread
    <3>5. got' + Unread' + Len(socket') <= sent'
      BY <3>3, <3>4
    <3>. QED
      BY <2>5, <3>1, <3>2, <3>3, <3>5 DEF InOrder
  <2>. QED
    BY <2>3, <2>6 DEF IInv
<1>. QED
  BY <1>1, <1>2 DEF WriteU8

LEMMA FlushStep ==
  ASSUME IInv, Flush
  PROVE  IInv'
<1>. USE SizeAssumption
<1>1. /\ socket' \in Seq(Nat) /\ Len(socket') = Len(socket) + windex
      /\ \A i \in 1 .. Len(socket') :
           socket'[i] = IF i <= Len(socket) THEN socket[i]
                        ELSE wbuf[i - Len(socket) - 1]
  BY Sent DEF IInv, Flush
<1>2. IOTypeOK'
  BY <1>1 DEF IInv, IOTypeOK, Flush, WBuffer, RBuffer, readerVars, readVars
<1>3. Unread' = Unread /\ Unread \in Nat /\ CurrBuf' = CurrBuf
  BY DEF IInv, IOTypeOK, Flush, Unread, CurrBuf, readerVars
<1>4. /\ got' = got /\ got \in Nat /\ sent' = sent /\ sent \in Nat
      /\ Len(socket) \in Nat /\ windex \in 0 .. WSize
      /\ sent = got + Unread + Len(socket) + windex
  BY DEF Flush, readVars, IInv, IOTypeOK, InOrder
<1>5. \A i \in 1 .. Len(socket') : socket'[i] = got' + Unread' + i
  <2>. SUFFICES ASSUME NEW i \in 1 .. Len(socket')
                PROVE  socket'[i] = got' + Unread' + i
    OBVIOUS
  <2>1. CASE i <= Len(socket)
    BY <1>1, <1>3, <1>4, <2>1 DEF IInv, InOrder
  <2>2. CASE i > Len(socket)
    <3>1. i - Len(socket) - 1 \in 0 .. WSize - 1 /\ i - Len(socket) - 1 < windex
      BY <1>1, <1>4, <2>2
    <3>2. wbuf[i - Len(socket) - 1]
            = (sent - windex) + (i - Len(socket) - 1) + 1
      BY <3>1 DEF IInv, InOrder
    <3>. QED
      BY <1>1, <1>3, <1>4, <2>2, <3>2
  <2>. QED
    BY <1>4, <2>1, <2>2
<1>6. InOrder'
  <2>1. \A i \in 0 .. RSize - 1 :
          rindex' <= i /\ i < rlength' => CurrBuf'[i] = got' + (i - rindex') + 1
    BY <1>3 DEF IInv, InOrder, Flush, readerVars, readVars
  <2>2. windex' = 0 /\ open' = open
    BY DEF Flush
  <2>3. sent' = got' + Unread' + Len(socket') + windex'
    BY <1>1, <1>3, <1>4, <2>2
  <2>4. got' + Unread' + Len(socket') <= sent'
    BY <1>1, <1>3, <1>4, <2>2, <2>3
  <2>5. \A i \in 0 .. WSize - 1 : ~(i < windex')
    BY <2>2
  <2>. QED
    BY <1>5, <2>1, <2>2, <2>3, <2>4, <2>5 DEF InOrder
<1>. QED
  BY <1>2, <1>6 DEF IInv

LEMMA CutStep ==
  ASSUME IInv, Cut
  PROVE  IInv'
<1>1. PICK n \in 0 .. Len(socket) : socket' = SubSeq(socket, 1, n)
  BY DEF Cut
<1>2. socket \in Seq(Nat) /\ Len(socket) \in Nat
  BY DEF IInv, IOTypeOK
<1>3. /\ socket' \in Seq(Nat) /\ Len(socket') = n
      /\ \A i \in 1 .. n : socket'[i] = socket[i]
  BY <1>1, <1>2, SubSeqProperties
<1>4. IOTypeOK'
  BY <1>3 DEF IInv, IOTypeOK, Cut, readerVars, readVars
<1>5. Unread' = Unread /\ Unread \in Nat /\ CurrBuf' = CurrBuf
  BY SizeAssumption DEF IInv, IOTypeOK, Cut, Unread, CurrBuf, readerVars
<1>6. got' = got /\ sent' = sent /\ got \in Nat /\ sent \in Nat /\ ~open'
  BY DEF IInv, IOTypeOK, Cut, readVars
<1>7. \A i \in 1 .. Len(socket') : socket'[i] = got' + Unread' + i
  <2>. SUFFICES ASSUME NEW i \in 1 .. n
                PROVE  socket[i] = got + Unread + i
    BY <1>3, <1>5, <1>6
  <2>1. i \in 1 .. Len(socket)
    BY <1>2
  <2>. QED
    BY <2>1 DEF IInv, InOrder
<1>8. got' + Unread' + Len(socket') <= sent'
  <2>1. got + Unread + Len(socket) <= sent
    BY DEF IInv, InOrder
  <2>2. n \in Nat /\ n <= Len(socket)
    BY <1>2
  <2>. HIDE DEF Unread
  <2>. QED
    BY <1>2, <1>3, <1>5, <1>6, <2>1, <2>2
<1>. QED
  BY <1>4, <1>5, <1>6, <1>7, <1>8 DEF IInv, InOrder, Cut, readerVars, readVars

LEMMA FillBufferStep ==
  ASSUME IInv, FillBuffer
  PROVE  IInv'
<1>. USE SizeAssumption
<1>1. PICK n \in 1 .. RSize :
        /\ n <= Len(socket)
        /\ switch' = ~switch
        /\ bufs' = [bufs EXCEPT ![~switch] =
             [i \in 0 .. RSize - 1 |-> IF i < n THEN socket[i + 1] ELSE 0]]
        /\ rindex' = 0 /\ rlength' = n
        /\ socket' = SubSeq(socket, n + 1, Len(socket))
  BY DEF FillBuffer
<1>2. /\ socket \in Seq(Nat) /\ Len(socket) \in Nat /\ rindex >= rlength
      /\ rlength \in Nat /\ rindex \in 0 .. rlength /\ got \in Nat /\ sent \in Nat
      /\ got' = got /\ sent' = sent /\ windex' = windex /\ wbuf' = wbuf
      /\ open' = open
  BY DEF IInv, IOTypeOK, FillBuffer, writerVars, readVars
<1>3. /\ socket' \in Seq(Nat) /\ Len(socket') = Len(socket) - n
      /\ \A i \in 1 .. Len(socket') : socket'[i] = socket[n + i]
  <2>1. \A i \in n + 1 .. Len(socket) : socket[i] \in Nat
    BY <1>2
  <2>. DEFINE s == SubSeq(socket, n + 1, Len(socket))
  <2>2. /\ s \in Seq(Nat)
        /\ Len(s) = IF n + 1 <= Len(socket) THEN Len(socket) - (n + 1) + 1 ELSE 0
        /\ \A i \in 1 .. Len(socket) - (n + 1) + 1 : s[i] = socket[(n + 1) + i - 1]
    BY <1>2, <2>1, SubSeqProperties
  <2>3. Len(s) = Len(socket) - n
    BY <1>1, <1>2, <2>2
  <2>. HIDE DEF s
  <2>4. \A i \in 1 .. Len(s) : s[i] = socket[n + i]
    BY SMTT(30), <1>1, <1>2, <2>2, <2>3
  <2>5. socket' = s
    BY <1>1 DEF s
  <2>. QED
    BY <2>2, <2>3, <2>4, <2>5
<1>. DEFINE b == [i \in 0 .. RSize - 1 |-> IF i < n THEN socket[i + 1] ELSE 0]
<1>4. b \in RBuffer
  <2>1. \A i \in 0 .. RSize - 1 : i < n => socket[i + 1] \in Nat
    BY <1>1, <1>2
  <2>. QED
    BY <2>1 DEF RBuffer
<1>5. \A i \in 0 .. RSize - 1 : i < n => b[i] = socket[i + 1]
  OBVIOUS
<1>. HIDE DEF b
<1>6. bufs' = [bufs EXCEPT ![~switch] = b]
  BY <1>1 DEF b
<1>7. CurrBuf' = b /\ bufs' \in [BOOLEAN -> RBuffer]
  <2>1. switch \in BOOLEAN /\ bufs \in [BOOLEAN -> RBuffer]
    BY DEF IInv, IOTypeOK
  <2>2. switch' = ~switch
    BY <1>1
  <2>3. CASE switch = TRUE
    BY <1>4, <1>6, <2>1, <2>2, <2>3 DEF CurrBuf
  <2>4. CASE switch = FALSE
    BY <1>4, <1>6, <2>1, <2>2, <2>4 DEF CurrBuf
  <2>. QED
    BY <2>1, <2>3, <2>4
<1>8. IOTypeOK'
  <2>1. switch' \in BOOLEAN
    BY <1>1
  <2>2. rlength' \in 0 .. RSize /\ rindex' \in 0 .. rlength'
    BY <1>1
  <2>. QED
    BY <1>2, <1>3, <1>7, <2>1, <2>2
       DEF IInv, IOTypeOK, FillBuffer, readVars
<1>9. Unread = 0 /\ Unread' = n
  BY <1>1, <1>2 DEF Unread
<1>10. \A i \in 0 .. RSize - 1 :
         rindex' <= i /\ i < rlength' => CurrBuf'[i] = got' + (i - rindex') + 1
  <2>. SUFFICES ASSUME NEW i \in 0 .. RSize - 1, i < n
                PROVE  b[i] = got + i + 1
    BY <1>1, <1>2, <1>7
  <2>1. b[i] = socket[i + 1] /\ i + 1 \in 1 .. Len(socket)
    BY <1>1, <1>2, <1>5
  <2>2. socket[i + 1] = got + Unread + (i + 1)
    BY <2>1 DEF IInv, InOrder
  <2>. QED
    BY <1>2, <1>9, <2>1, <2>2
<1>11. \A i \in 1 .. Len(socket') : socket'[i] = got' + Unread' + i
  <2>. SUFFICES ASSUME NEW i \in 1 .. Len(socket')
                PROVE  socket'[i] = got' + Unread' + i
    OBVIOUS
  <2>1. n + i \in 1 .. Len(socket) /\ socket'[i] = socket[n + i]
    BY <1>1, <1>2, <1>3
  <2>2. socket[n + i] = got + Unread + (n + i)
    BY <2>1 DEF IInv, InOrder
  <2>. QED
    BY <1>2, <1>9, <2>1, <2>2
<1>12. got' + Unread' + Len(socket') = got + Unread + Len(socket)
  <2>1. got' = got /\ got \in Nat /\ n \in Nat /\ Len(socket) \in Nat
    BY <1>2
  <2>2. Len(socket') = Len(socket) - n /\ Unread = 0 /\ Unread' = n
    BY <1>3, <1>9
  <2>3. got + n + (Len(socket) - n) = got + 0 + Len(socket)
    BY <2>1
  <2>. QED
    BY <2>1, <2>2, <2>3
<1>13. InOrder'
  BY <1>2, <1>10, <1>11, <1>12 DEF IInv, InOrder
<1>. QED
  BY <1>8, <1>13 DEF IInv

LEMMA ReadU8Step ==
  ASSUME IInv, ReadU8
  PROVE  IInv' /\ got < sent /\ last' = got + 1
<1>. USE SizeAssumption
<1>1. /\ rindex \in Nat /\ rlength \in 0 .. RSize /\ rindex < rlength
      /\ got \in Nat /\ sent \in Nat /\ Len(socket) \in Nat
      /\ rindex' = rindex + 1 /\ rlength' = rlength /\ got' = got + 1
      /\ sent' = sent /\ socket' = socket /\ CurrBuf' = CurrBuf
  BY DEF IInv, IOTypeOK, ReadU8, CurrBuf, writerVars
<1>2. rindex \in 0 .. RSize - 1
  BY <1>1
<1>3. last' = got + 1
  BY <1>1, <1>2 DEF IInv, InOrder, ReadU8
<1>4. Unread' = Unread - 1 /\ Unread \in Nat /\ Unread >= 1
  BY <1>1 DEF Unread
<1>5. got + Unread + Len(socket) <= sent
  BY DEF IInv, InOrder
<1>6. got < sent
  BY <1>1, <1>4, <1>5
<1>7. IOTypeOK'
  BY <1>1, <1>3 DEF IInv, IOTypeOK, ReadU8, writerVars
<1>8. got' + Unread' = got + Unread
  BY <1>1, <1>4
<1>9. \A i \in 0 .. RSize - 1 :
        rindex' <= i /\ i < rlength' => CurrBuf'[i] = got' + (i - rindex') + 1
  BY <1>1 DEF IInv, InOrder
<1>10. InOrder'
  BY <1>1, <1>8, <1>9 DEF IInv, InOrder, ReadU8, writerVars
<1>. QED
  BY <1>3, <1>6, <1>7, <1>10 DEF IInv

LEMMA Inductive == IInv /\ [IONext]_ioVars => IInv'
<1>. SUFFICES ASSUME IInv, [IONext]_ioVars PROVE IInv'
  OBVIOUS
<1>1. CASE FillFails
  <2>1. Unread' = 0 /\ Unread = 0 /\ Unread \in Nat
    BY <1>1, SizeAssumption DEF FillFails, Ended, Unread, IInv, IOTypeOK
  <2>2. rindex >= rlength /\ rindex' = rindex /\ rlength' = rlength
        /\ rindex \in Nat /\ rlength \in Nat
    BY <1>1, SizeAssumption DEF FillFails, Ended, IInv, IOTypeOK
  <2>3. \A i \in 0 .. RSize - 1 : ~(rindex' <= i /\ i < rlength')
    BY <2>2, SizeAssumption
  <2>4. IOTypeOK'
    BY <1>1 DEF FillFails, IInv, IOTypeOK, writerVars, readVars
  <2>5. InOrder'
    BY <1>1, <2>1, <2>3
       DEF FillFails, IInv, InOrder, writerVars, readVars
  <2>. QED
    BY <2>4, <2>5 DEF IInv
<1>2. CASE UNCHANGED ioVars
  BY <1>2 DEF ioVars, IInv, IOTypeOK, InOrder, Unread, CurrBuf
<1>. QED
  BY <1>1, <1>2, WriteU8Step, FlushStep, CutStep, FillBufferStep, ReadU8Step
     DEF IONext

\* A step of the buffers is a step of the stream, or none.
LEMMA StreamStep ==
  ASSUME IInv, [IONext]_ioVars
  PROVE  [S!Next]_S!streamVars
<1>1. CASE WriteU8
  BY <1>1 DEF WriteU8, Put, readVars, S!Next, S!Write
<1>2. CASE ReadU8
  BY <1>2, ReadU8Step DEF ReadU8, writerVars, S!Next, S!Read
<1>3. CASE Flush \/ Cut \/ FillBuffer \/ FillFails \/ UNCHANGED ioVars
  BY <1>3 DEF Flush, Cut, FillBuffer, FillFails, ioVars, writerVars, readVars,
              S!streamVars
<1>. QED
  BY <1>1, <1>2, <1>3 DEF IONext

-----------------------------------------------------------------------------
(* Theorems *)

\* Every byte is where the indexes say: in the reader's current buffer, in the
\* socket or in the writer's buffer, in the order of writing, for buffers of any
\* size (writer.cpp:17-43, reader.cpp:36-103).
THEOREM BytesInOrder == IOSpec => [](IOTypeOK /\ InOrder)
<1>. QED
  BY Initially, Inductive, PTL DEF IOSpec, IInv

\* A connection is a byte stream.
THEOREM ConnectionIsStream == IOSpec => RefinesStream
<1>1. IOInit => S!Init
  BY DEF IOInit, S!Init
<1>2. IOSpec => []IInv
  BY Initially, Inductive, PTL DEF IOSpec
<1>. QED
  BY <1>1, <1>2, StreamStep, PTL DEF IOSpec, RefinesStream, S!Spec
=============================================================================
