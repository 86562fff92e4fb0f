-------------------------- MODULE Requests_proofs --------------------------
(***************************************************************************)
(* The requests of a connection use the buffers as BufferedIO says, so     *)
(* what is proved of the buffers holds under them, for any requests.  On   *)
(* top of that: the session is at the field and the byte the client wrote  *)
(* for it, so it executes what was asked for; and the two take turns, so   *)
(* the client is told the truth.                                           *)
(***************************************************************************)
EXTENDS Requests, BufferedIO_proofs

\* Every step of client and session is a step of the buffers, or none of theirs.
LEMMA BufferStep ==
  ASSUME [Next]_rqVars
  PROVE  [IONext]_ioVars
<1>1. CASE ClientStep
  <2>1. CASE WriteByte \/ Send
    BY <2>1 DEF WriteByte, Send, IONext
  <2>2. CASE Handshake \/ Task \/ Update \/ EventDownload
    BY <2>2 DEF Handshake, Task, Update, EventDownload, Begin
  <2>3. CASE Receive \/ LoseConnection
    BY <2>3 DEF Receive, LoseConnection
  <2>. QED
    BY <1>1, <2>1, <2>2, <2>3 DEF ClientStep
<1>2. CASE SessionStep
  <2>1. CASE ReadByte \/ Fill \/ ReadFails
    BY <2>1 DEF ReadByte, Fill, ReadFails, IONext
  <2>2. CASE ServeHandshake \/ ServeRead \/ ServeDownload \/ ReadForever
    BY <2>2 DEF ServeHandshake, ServeRead, ServeDownload, ReadForever
  <2>3. CASE ServeWrite \/ ServeExit \/ ServerEnds
    BY <2>3 DEF ServeWrite, ServeExit, ServerEnds
  <2>. QED
    BY <1>2, <2>1, <2>2, <2>3 DEF SessionStep
<1>3. CASE ClientEnds
  BY <1>3 DEF ClientEnds, IONext
<1>4. CASE UNCHANGED rqVars
  BY <1>4 DEF rqVars
<1>. QED
  BY <1>1, <1>2, <1>3, <1>4 DEF Next

\* The session reads the bytes of its client's requests as they were written,
\* whatever the requests, the names and the sizes of the buffers.
THEOREM RequestsAreStream == Spec => RefinesStream
<1>1. Init => IOInit
  BY DEF Init
<1>2. Spec => IOSpec
  BY <1>1, BufferStep, PTL DEF Spec, IOSpec
<1>. QED
  BY <1>2, ConnectionIsStream, PTL

-----------------------------------------------------------------------------

\* A packet is cut only for a client whose process has ended.
CutOnlyAtEnd == damaged => ~open

\* No packet of a client that is alive is executed with the name, the length or
\* the buffer of an earlier one: receive_packet ignores the reads that fail, but
\* they fail only when the client's process has ended (protocol.cpp:61-70).
THEOREM DamageOnlyAtEnd == Spec => []CutOnlyAtEnd
<1>1. Init => CutOnlyAtEnd
  BY DEF Init, CutOnlyAtEnd
<1>2. CutOnlyAtEnd /\ [Next]_rqVars => CutOnlyAtEnd'
  <2>. SUFFICES ASSUME CutOnlyAtEnd, [Next]_rqVars
                PROVE  CutOnlyAtEnd'
    OBVIOUS
  <2>1. open' = open \/ ~open'
    BY BufferStep DEF IONext, WriteU8, Flush, Cut, FillBuffer, FillFails, ReadU8,
                      ioVars, writerVars
  <2>2. CASE ReadFails
    BY <2>2 DEF ReadFails, FillFails, Ended, writerVars, CutOnlyAtEnd
  <2>3. CASE ~ReadFails
    <3>1. damaged' = damaged
      BY <2>3 DEF Next, ClientStep, SessionStep, ClientEnds, rqVars, parseVars,
         Handshake, Task, Update, EventDownload, Begin, WriteByte, Send, Receive,
         LoseConnection, ReadByte, Fill, ServeHandshake, ServeRead,
         ServeDownload, ReadForever, ServeWrite, ServeExit, ServerEnds
    <3>. QED
      BY <2>1, <3>1 DEF CutOnlyAtEnd
  <2>. QED
    BY <2>2, <2>3
<1>. QED
  BY <1>1, <1>2, PTL DEF Spec

-----------------------------------------------------------------------------
(* The layout of a packet *)

FieldName == {"version", "type", "strlen", "chars", "from", "length", "data"}

\* The fields of the packet of r, where each begins, its size and its value.
Fields(r) ==
  {f \in FieldName :
     \/ f \in {"version", "type"}
     \/ f \in {"strlen", "chars"} /\ r.type \in Named \cup {"handshake"}
     \/ f = "from" /\ r.type = "handshake"
     \/ f = "length" /\ r.type = "upload"
     \/ f = "data" /\ r.type = "upload" /\ r.length > 0}

Before(f) ==
  CASE f = "version"            -> 0
    [] f = "type"               -> 2
    [] f = "strlen"             -> 3
    [] f = "chars"              -> 3 + WordSize
    [] f \in {"from", "length"} -> 4 + WordSize
    [] f = "data"               -> 4 + WordSize + WordSize

Size(f, r) ==
  CASE f = "version"                   -> 2
    [] f \in {"type", "chars", "from"} -> 1
    [] f \in {"strlen", "length"}      -> WordSize
    [] f = "data"                      -> r.length

Value(f, r) ==
  CASE f \in {"version", "from"} -> 0
    [] f = "type"                -> r.type
    [] f = "strlen"              -> 1
    [] f = "chars"               -> r.name
    [] f \in {"length", "data"}  -> r.length

Total(r) ==
  CASE r.type = "handshake"              -> 5 + WordSize
    [] r.type \in {"download", "delete"} -> 4 + WordSize
    [] r.type = "upload"                 -> 4 + WordSize + WordSize + r.length
    [] r.type \in {"list", "exit", "update"} -> 3

Byte(f, r, k) == [f |-> f, v |-> Value(f, r), k |-> k]
Bytes(r) == {Byte(f, r, k) : f \in FieldName, k \in Nat}

LEMMA Words == WordSize \in Nat /\ WordSize > 0
BY RequestAssumption

LEMMA Sizes ==
  ASSUME NEW r \in Request, NEW f \in Fields(r)
  PROVE  /\ Size(f, r) \in Nat /\ Size(f, r) > 0
         /\ Before(f) \in Nat /\ Before(f) + Size(f, r) <= Total(r)
         /\ Total(r) \in Nat /\ Total(r) > 2
<1>1. r.length \in Nat /\ r.type \in Type
  BY DEF Request
<1>. QED
  BY <1>1, Words DEF Fields, FieldName, Size, Before, Total, Type, Named

LEMMA FieldBytes ==
  ASSUME NEW r \in Request, NEW f \in FieldName, NEW size \in Nat
  PROVE  /\ Field(f, Value(f, r), size) \in Seq(Bytes(r))
         /\ Len(Field(f, Value(f, r), size)) = size
         /\ \A k \in 1 .. size : Field(f, Value(f, r), size)[k] = Byte(f, r, k)
<1>1. \A k \in 1 .. size : Byte(f, r, k) \in Bytes(r)
  BY DEF Bytes
<1>2. Field(f, Value(f, r), size) = [k \in 1 .. size |-> Byte(f, r, k)]
  BY DEF Field, Byte
<1>3. [k \in 1 .. size |-> Byte(f, r, k)] \in [1 .. size -> Bytes(r)]
  BY <1>1
<1>. QED
  BY <1>2, <1>3

LEMMA Layout ==
  ASSUME NEW r \in Request
  PROVE  /\ Packet(r) \in Seq(Bytes(r)) /\ Len(Packet(r)) = Total(r)
         /\ \A f \in Fields(r) : \A k \in 1 .. Size(f, r) :
              Packet(r)[Before(f) + k] = Byte(f, r, k)
<1>. DEFINE F(f, size) == Field(f, Value(f, r), size)
            v == F("version", 2)
            t == F("type", 1)
            n == F("strlen", WordSize)
            c == F("chars", 1)
            o == F("from", 1)
            l == F("length", WordSize)
            d == F("data", r.length)
<1>1. r.length \in Nat /\ r.type \in Type
  BY DEF Request
<1>0. ASSUME NEW f \in FieldName, NEW size \in Nat
      PROVE  /\ F(f, size) \in Seq(Bytes(r)) /\ Len(F(f, size)) = size
             /\ \A k \in 1 .. size : F(f, size)[k] = Byte(f, r, k)
  BY FieldBytes
<1>. HIDE DEF F
<1>2. /\ v \in Seq(Bytes(r)) /\ Len(v) = 2
      /\ \A k \in 1 .. 2 : v[k] = Byte("version", r, k)
  BY <1>0 DEF FieldName
<1>3. /\ t \in Seq(Bytes(r)) /\ Len(t) = 1
      /\ \A k \in 1 .. 1 : t[k] = Byte("type", r, k)
  BY <1>0 DEF FieldName
<1>4. /\ n \in Seq(Bytes(r)) /\ Len(n) = WordSize
      /\ \A k \in 1 .. WordSize : n[k] = Byte("strlen", r, k)
  BY <1>0, Words DEF FieldName
<1>5. /\ c \in Seq(Bytes(r)) /\ Len(c) = 1
      /\ \A k \in 1 .. 1 : c[k] = Byte("chars", r, k)
  BY <1>0 DEF FieldName
<1>6. /\ o \in Seq(Bytes(r)) /\ Len(o) = 1
      /\ \A k \in 1 .. 1 : o[k] = Byte("from", r, k)
  BY <1>0 DEF FieldName
<1>7. /\ l \in Seq(Bytes(r)) /\ Len(l) = WordSize
      /\ \A k \in 1 .. WordSize : l[k] = Byte("length", r, k)
  BY <1>0, Words DEF FieldName
<1>8. /\ d \in Seq(Bytes(r)) /\ Len(d) = r.length
      /\ \A k \in 1 .. r.length : d[k] = Byte("data", r, k)
  BY <1>0, <1>1 DEF FieldName
<1>. USE DEF F
<1>9. /\ Field("version", 0, 2) = v /\ Field("type", r.type, 1) = t
      /\ String(r.name) = n \o c /\ Field("from", 0, 1) = o
      /\ ByteArray(r.length) = l \o d
  BY DEF String, ByteArray, Value
<1>. DEFINE vt == v \o t
            nc == n \o c
            nco == nc \o o
            ld == l \o d
            ncld == nc \o ld
            rest ==
              CASE r.type = "handshake"              -> nco
                [] r.type \in {"download", "delete"} -> nc
                [] r.type = "upload"                 -> ncld
                [] OTHER                             -> << >>
<1>10. Packet(r) = vt \o rest
  BY <1>9 DEF Packet
<1>. HIDE DEF v, t, n, c, o, l, d
<1>11. /\ vt \in Seq(Bytes(r)) /\ Len(vt) = 3
       /\ \A k \in 1 .. 2 : vt[k] = Byte("version", r, k)
       /\ \A k \in 1 .. 1 : vt[2 + k] = Byte("type", r, k)
  <2>. HIDE DEF vt
  <2>1. v \in Seq(Bytes(r)) /\ t \in Seq(Bytes(r))
    BY <1>2, <1>3
  <2>2. /\ vt \in Seq(Bytes(r)) /\ Len(vt) = Len(v) + Len(t)
        /\ \A k \in 1 .. Len(v) : vt[k] = v[k]
        /\ \A k \in 1 .. Len(t) : vt[Len(v) + k] = t[k]
    BY <2>1 DEF vt
  <2>3. /\ vt \in Seq(Bytes(r)) /\ Len(vt) = 2 + 1
        /\ \A k \in 1 .. 2 : vt[k] = v[k]
        /\ \A k \in 1 .. 1 : vt[2 + k] = t[k]
    BY <2>2, <1>2, <1>3
  <2>. QED
    BY <1>2, <1>3, <2>3
<1>12. /\ nc \in Seq(Bytes(r)) /\ Len(nc) = WordSize + 1
       /\ \A k \in 1 .. WordSize : nc[k] = Byte("strlen", r, k)
       /\ \A k \in 1 .. 1 : nc[WordSize + k] = Byte("chars", r, k)
  <2>. HIDE DEF nc
  <2>1. n \in Seq(Bytes(r)) /\ c \in Seq(Bytes(r))
    BY <1>4, <1>5
  <2>2. /\ nc \in Seq(Bytes(r)) /\ Len(nc) = Len(n) + Len(c)
        /\ \A k \in 1 .. Len(n) : nc[k] = n[k]
        /\ \A k \in 1 .. Len(c) : nc[Len(n) + k] = c[k]
    BY <2>1 DEF nc
  <2>3. /\ nc \in Seq(Bytes(r)) /\ Len(nc) = WordSize + 1
        /\ \A k \in 1 .. WordSize : nc[k] = n[k]
        /\ \A k \in 1 .. 1 : nc[WordSize + k] = c[k]
    BY <2>2, <1>4, <1>5, Words
  <2>. QED
    BY <1>4, <1>5, <2>3
<1>13. /\ ld \in Seq(Bytes(r)) /\ Len(ld) = WordSize + r.length
       /\ \A k \in 1 .. WordSize : ld[k] = Byte("length", r, k)
       /\ \A k \in 1 .. r.length : ld[WordSize + k] = Byte("data", r, k)
  <2>. HIDE DEF ld
  <2>1. l \in Seq(Bytes(r)) /\ d \in Seq(Bytes(r))
    BY <1>7, <1>8
  <2>2. /\ ld \in Seq(Bytes(r)) /\ Len(ld) = Len(l) + Len(d)
        /\ \A k \in 1 .. Len(l) : ld[k] = l[k]
        /\ \A k \in 1 .. Len(d) : ld[Len(l) + k] = d[k]
    BY <2>1 DEF ld
  <2>3. /\ ld \in Seq(Bytes(r)) /\ Len(ld) = WordSize + r.length
        /\ \A k \in 1 .. WordSize : ld[k] = l[k]
        /\ \A k \in 1 .. r.length : ld[WordSize + k] = d[k]
    BY <2>2, <1>1, <1>7, <1>8, Words
  <2>. QED
    BY <1>7, <1>8, <2>3
<1>. HIDE DEF vt, nc, ld
<1>14. /\ nco \in Seq(Bytes(r)) /\ Len(nco) = WordSize + 2
       /\ \A k \in 1 .. WordSize : nco[k] = Byte("strlen", r, k)
       /\ \A k \in 1 .. 1 : nco[WordSize + k] = Byte("chars", r, k)
       /\ \A k \in 1 .. 1 : nco[WordSize + 1 + k] = Byte("from", r, k)
  <2>. HIDE DEF nco
  <2>1. nc \in Seq(Bytes(r)) /\ o \in Seq(Bytes(r))
    BY <1>6, <1>12
  <2>2. /\ nco \in Seq(Bytes(r)) /\ Len(nco) = Len(nc) + Len(o)
        /\ \A k \in 1 .. Len(nc) : nco[k] = nc[k]
        /\ \A k \in 1 .. Len(o) : nco[Len(nc) + k] = o[k]
    BY <2>1 DEF nco
  <2>3. /\ nco \in Seq(Bytes(r)) /\ Len(nco) = WordSize + 1 + 1
        /\ \A k \in 1 .. WordSize + 1 : nco[k] = nc[k]
        /\ \A k \in 1 .. 1 : nco[WordSize + 1 + k] = o[k]
    BY <2>2, <1>6, <1>12, Words
  <2>4. /\ \A k \in 1 .. WordSize : nco[k] = Byte("strlen", r, k)
        /\ \A k \in 1 .. 1 : nco[WordSize + k] = Byte("chars", r, k)
    BY <1>12, <2>3, Words
  <2>5. \A k \in 1 .. 1 : nco[WordSize + 1 + k] = Byte("from", r, k)
    BY <1>6, <2>3
  <2>6. WordSize + 1 + 1 = WordSize + 2
    BY Words
  <2>. QED
    BY <2>3, <2>4, <2>5, <2>6
<1>15. /\ ncld \in Seq(Bytes(r))
       /\ Len(ncld) = WordSize + 1 + (WordSize + r.length)
       /\ \A k \in 1 .. WordSize : ncld[k] = Byte("strlen", r, k)
       /\ \A k \in 1 .. 1 : ncld[WordSize + k] = Byte("chars", r, k)
       /\ \A k \in 1 .. WordSize :
            ncld[WordSize + 1 + k] = Byte("length", r, k)
       /\ \A k \in 1 .. r.length :
            ncld[WordSize + 1 + (WordSize + k)] = Byte("data", r, k)
  <2>. HIDE DEF ncld
  <2>1. nc \in Seq(Bytes(r)) /\ ld \in Seq(Bytes(r))
    BY <1>12, <1>13
  <2>2. /\ ncld \in Seq(Bytes(r)) /\ Len(ncld) = Len(nc) + Len(ld)
        /\ \A k \in 1 .. Len(nc) : ncld[k] = nc[k]
        /\ \A k \in 1 .. Len(ld) : ncld[Len(nc) + k] = ld[k]
    BY <2>1 DEF ncld
  <2>3. /\ ncld \in Seq(Bytes(r))
        /\ Len(ncld) = WordSize + 1 + (WordSize + r.length)
        /\ \A k \in 1 .. WordSize + 1 : ncld[k] = nc[k]
        /\ \A k \in 1 .. WordSize + r.length : ncld[WordSize + 1 + k] = ld[k]
    BY <2>2, <1>1, <1>12, <1>13, Words
  <2>4. \A k \in 1 .. r.length : WordSize + k \in 1 .. WordSize + r.length
    BY <1>1, Words
  <2>5. \A k \in 1 .. r.length :
          ncld[WordSize + 1 + (WordSize + k)] = Byte("data", r, k)
    BY <1>13, <2>3, <2>4
  <2>6. \A k \in 1 .. WordSize : ncld[WordSize + 1 + k] = Byte("length", r, k)
    <3>1. \A k \in 1 .. WordSize : k \in 1 .. WordSize + r.length
      BY <1>1, Words
    <3>. QED
      BY <1>13, <2>3, <3>1
  <2>7. /\ \A k \in 1 .. WordSize : ncld[k] = Byte("strlen", r, k)
        /\ \A k \in 1 .. 1 : ncld[WordSize + k] = Byte("chars", r, k)
    BY <1>12, <2>3, Words
  <2>. QED
    BY <2>3, <2>5, <2>6, <2>7, Zenon
<1>. HIDE DEF nco, ncld
<1>16. /\ rest \in Seq(Bytes(r)) /\ Len(rest) = Total(r) - 3
       /\ \A f \in Fields(r) \ {"version", "type"} : \A k \in 1 .. Size(f, r) :
            rest[Before(f) - 3 + k] = Byte(f, r, k)
  <2>1. CASE r.type = "handshake"
    <3>1. rest = nco
      BY <2>1
    <3>. QED
      BY <1>14, <2>1, <3>1, Words
         DEF Fields, FieldName, Size, Before, Total, Named
  <2>2. CASE r.type \in {"download", "delete"}
    <3>1. rest = nc
      BY <2>2
    <3>. QED
      BY <1>12, <2>2, <3>1, Words
         DEF Fields, FieldName, Size, Before, Total, Named
  <2>3. CASE r.type = "upload"
    <3>1. rest = ncld
      BY <2>3
    <3>. HIDE DEF rest
    <3>2. Len(rest) = Total(r) - 3
      BY <1>1, <1>15, <2>3, <3>1, Words DEF Total
    <3>3. ASSUME NEW f \in Fields(r) \ {"version", "type"},
                 NEW k \in 1 .. Size(f, r)
          PROVE  rest[Before(f) - 3 + k] = Byte(f, r, k)
      <4>1. CASE f = "strlen"
        <5>1. Before(f) - 3 + k = k
          BY <4>1, Words DEF Before, Size
        <5>. QED
          BY <1>15, <3>1, <4>1, <5>1 DEF Size
      <4>2. CASE f = "chars"
        <5>1. Before(f) - 3 + k = WordSize + k /\ k \in 1 .. 1
          BY <4>2, Words DEF Before, Size
        <5>. QED
          BY <1>15, <3>1, <4>2, <5>1
      <4>3. CASE f = "length"
        <5>1. Before(f) - 3 + k = WordSize + 1 + k /\ k \in 1 .. WordSize
          BY <4>3, Words DEF Before, Size
        <5>. QED
          BY <1>15, <3>1, <4>3, <5>1
      <4>4. CASE f = "data"
        <5>1. /\ Before(f) - 3 + k = WordSize + 1 + (WordSize + k)
              /\ k \in 1 .. r.length
          BY <1>1, <4>4, Words DEF Before, Size
        <5>. QED
          BY <1>15, <3>1, <4>4, <5>1
      <4>. QED
        BY <2>3, <4>1, <4>2, <4>3, <4>4 DEF Fields, FieldName
    <3>. QED
      BY <1>15, <3>1, <3>2, <3>3
  <2>4. CASE r.type \in {"list", "exit", "update"}
    <3>1. rest = << >>
      BY <2>4
    <3>. HIDE DEF rest
    <3>2. Fields(r) \ {"version", "type"} = {}
      BY <2>4 DEF Fields, FieldName, Named
    <3>. QED
      BY <2>4, <3>1, <3>2 DEF Total
  <2>. QED
    BY <1>1, <2>1, <2>2, <2>3, <2>4 DEF Type
<1>. HIDE DEF rest
<1>17. Total(r) \in Nat
  <2>1. "type" \in Fields(r)
    BY DEF Fields, FieldName
  <2>. QED
    BY <2>1, Sizes
<1>18. /\ Packet(r) \in Seq(Bytes(r)) /\ Len(Packet(r)) = 3 + (Total(r) - 3)
       /\ \A k \in 1 .. 3 : Packet(r)[k] = vt[k]
       /\ \A k \in 1 .. Total(r) - 3 : Packet(r)[3 + k] = rest[k]
  <2>1. Total(r) - 3 \in Nat
    BY <1>16, <1>17
  <2>2. vt \in Seq(Bytes(r)) /\ rest \in Seq(Bytes(r))
    BY <1>11, <1>16
  <2>3. /\ Packet(r) \in Seq(Bytes(r)) /\ Len(Packet(r)) = Len(vt) + Len(rest)
        /\ \A k \in 1 .. Len(vt) : Packet(r)[k] = vt[k]
        /\ \A k \in 1 .. Len(rest) : Packet(r)[Len(vt) + k] = rest[k]
    BY <1>10, <2>2
  <2>. QED
    BY <1>11, <1>16, <2>1, <2>3
<1>19. ASSUME NEW f \in Fields(r), NEW k \in 1 .. Size(f, r)
       PROVE  Packet(r)[Before(f) + k] = Byte(f, r, k)
  <2>1. CASE f \in {"version", "type"}
    BY <1>11, <1>18, <2>1 DEF Before, Size
  <2>2. CASE f \notin {"version", "type"}
    <3>1. /\ Size(f, r) \in Nat /\ Before(f) \in Nat
          /\ Before(f) + Size(f, r) <= Total(r) /\ Total(r) \in Nat
      BY Sizes
    <3>2. Before(f) >= 3
      BY <2>2, Words DEF Before, Fields, FieldName
    <3>3. Before(f) - 3 + k \in 1 .. Total(r) - 3
      BY <3>1, <3>2
    <3>4. Packet(r)[3 + (Before(f) - 3 + k)] = rest[Before(f) - 3 + k]
      BY <1>18, <3>3
    <3>. QED
      BY <1>16, <2>2, <3>1, <3>4
  <2>. QED
    BY <2>1, <2>2
<1>. QED
  BY <1>17, <1>18, <1>19

-----------------------------------------------------------------------------
(* The inductive invariant.  start[i] is the number of bytes before the    *)
(* packet of the ith request; it relates the bytes of the stream, which the *)
(* client writes, to the fields that the session reads.                    *)

WellFormed(r) ==
  /\ r \in Request
  /\ r.type \notin Named => r.name = NoName
  /\ r.type # "upload" => r.length = 0

Result == {"success", "fail", "empty"}
Told == Result \cup {"sent", "lost", "applied"}
AnswerMessage ==
  [status : Result, body : {"bytes", "list", "modified", "deleted", "none"}]
Entry == [type : Type, name : Names \cup {NoName}, length : Int,
          whole : BOOLEAN, ok : BOOLEAN]

\* The requests, and how far the client is with them.
Asking ==
  /\ asked \in Seq(Request) /\ told \in Seq(Told)
  /\ answers \in Seq(AnswerMessage)
  /\ \A i \in 1 .. Len(asked) : WellFormed(asked[i])
  /\ asked = << >> => next = "handshake" /\ client \notin {"writing", "waiting"}
  /\ asked # << >> => asked[1].type = "handshake"
  /\ client \in {"idle", "writing", "waiting", "ended", "gone", "garbled"}
  /\ next \in {"handshake", "task", "update", "event"}
  /\ client \in {"writing", "waiting"} => Len(told) < Len(asked)
  /\ Len(told) <= Len(asked)
  /\ client \in {"idle", "waiting"} => todo = << >>
  /\ client = "gone" <=> ~open

Starts(start, rs) ==
  /\ start \in [1 .. Len(rs) + 1 -> Nat] /\ start[1] = 0
  /\ \A i \in 1 .. Len(rs) : start[i + 1] = start[i] + Total(rs[i])
  /\ \A i, j \in 1 .. Len(rs) + 1 : i <= j => start[i] <= start[j]

Any == UNION {Bytes(r) : r \in Request}

\* The bytes w written and the bytes t to be written are the packets of the
\* requests rs, one by one.
Streaming(start, rs, w, t) ==
  /\ w \in Seq(Any) /\ t \in Seq(Any)
  /\ Len(w) + Len(t) = start[Len(rs) + 1]
  /\ \A i \in 1 .. Len(rs) : \A k \in 1 .. Total(rs[i]) :
       start[i] + k <= Len(w) => w[start[i] + k] = Packet(rs[i])[k]
  /\ t # << >> =>
       /\ rs # << >> /\ Len(t) <= Total(rs[Len(rs)])
       /\ \A k \in 1 .. Len(t) :
            t[k] = Packet(rs[Len(rs)])[Total(rs[Len(rs)]) - Len(t) + k]

\* What the session knows of r when it is at field f, and when it has it all.
Knows(r, f) ==
  /\ f \notin {"version", "type"} => header = r.type
  /\ greeted /\ f \in {"from", "length", "data"} => filename = r.name
  /\ f = "data" => length = r.length /\ bytes = "whole"

KnowsAll(r) ==
  /\ header = r.type
  /\ greeted /\ r.type \in Named => filename = r.name
  /\ r.type = "upload" => length = r.length /\ bytes = "whole"

Current == Len(executed) + 1
AtStart == expect = [f |-> "version", size |-> 2, left |-> 2]

\* Where the session is in the stream, as long as no packet was cut.
Reading(start) ==
  session = "reading" =>
    /\ got = start[Current] + Before(expect.f) + (expect.size - expect.left)
    /\ \/ AtStart
       \/ /\ Current <= Len(asked)
          /\ expect.f \in Fields(asked[Current])
          /\ expect.size = Size(expect.f, asked[Current])
          /\ Knows(asked[Current], expect.f)

Serving(start) ==
  session = "serving" =>
    /\ Current <= Len(asked)
    /\ got = start[Current + 1]
    /\ KnowsAll(asked[Current])

Places ==
  /\ Len(stream) = sent
  /\ \E start : /\ Starts(start, asked) /\ Streaming(start, asked, stream, todo)
                /\ ~damaged => Reading(start) /\ Serving(start)

\* A packet was cut: there is nothing more to read.
Damage ==
  damaged =>
    /\ Ended
    /\ session = "reading" => expect.f = "version"
    /\ session = "serving" =>
         /\ Current <= Len(asked) /\ header = asked[Current].type
         /\ refused \/ Current = Len(asked)

Session ==
  /\ session \in {"reading", "serving", "hung", "over"}
  /\ expect \in [f : FieldName, size : Nat, left : Nat]
  /\ expect.left \in 1 .. expect.size
  /\ session = "serving" => AtStart
  /\ header \in Type /\ filename \in Names \cup {NoName} /\ length \in Int
  /\ bytes \in {"unset", "whole", "freed"}
  /\ damaged \in BOOLEAN /\ refused \in BOOLEAN /\ greeted \in BOOLEAN
  /\ ~greeted /\ session # "over" => executed = << >>

\* Executed as asked, except for a packet that was cut.
AsAsked(i) ==
  /\ executed[i].name = asked[i].name
  /\ executed[i].length = asked[i].length
  /\ executed[i].whole

Executing ==
  /\ executed \in Seq(Entry) /\ Len(executed) <= Len(asked)
  /\ \A i \in 1 .. Len(executed) :
       /\ executed[i].type = asked[i].type
       /\ \/ AsAsked(i)
          \/ /\ damaged /\ i = Len(executed) /\ session # "serving"
             /\ refused \/ i = Len(asked)

\* The client and the session take turns, as long as no upload was refused: the
\* client has been told all, or one request is open, or an exit was sent.
Right(t, e) ==
  /\ t = "success" => e.ok \/ e.type = "list"
  /\ e.ok => t = "success" \/ e.type = "download"

Truth ==
  \A i \in 1 .. Len(told) :
    told[i] \in Result => i <= Len(executed) /\ Right(told[i], executed[i])

Ahead ==
  session # "over" /\ Current < Len(asked) => asked[Current].type = "exit"

ExitSent ==
  /\ answers = << >>
  /\ \E x \in 1 .. Len(told) :
       /\ asked[x].type = "exit"
       /\ \/ Len(executed) = x - 1
          \/ Len(executed) = x /\ session = "over"

OneOpen ==
  /\ Len(executed) = Len(told) + 1
  /\ IF asked[Len(executed)].type = "exit"
       THEN session = "over" /\ answers = << >>
       ELSE /\ Len(answers) = 1
            /\ answers[1].status = "success" <=> executed[Len(executed)].ok
            /\ Readable(asked[Len(executed)].type, answers[1])

Turns ==
  client \in {"idle", "writing", "waiting"} =>
    /\ Len(asked) = IF client = "idle" THEN Len(told) ELSE Len(told) + 1
    /\ \/ ExitSent
       \/ Len(executed) = Len(told) /\ answers = << >>
       \/ OneOpen

InStep == ~refused => client # "garbled" /\ Truth /\ Ahead /\ Turns

RInv ==
  /\ IInv /\ Asking /\ Places /\ Damage /\ Session /\ Executing /\ InStep

-----------------------------------------------------------------------------
(* Lemmas *)

LEMMA TotalNat == ASSUME NEW r \in Request PROVE Total(r) \in Nat
BY Sizes DEF Fields, FieldName

LEMMA PacketBytes == ASSUME NEW r \in Request PROVE Packet(r) \in Seq(Any)
<1>1. Bytes(r) \subseteq Any
  BY DEF Any
<1>2. Packet(r) \in Seq(Bytes(r))
  BY Layout
<1>. QED
  BY <1>1, <1>2

\* Only a connection that its client has left is damaged.
LEMMA OpenUndamaged == ASSUME RInv, open PROVE ~damaged
BY DEF RInv, Damage, Ended

\* The stream goes on with one more packet.
LEMMA OneMore ==
  ASSUME NEW rs \in Seq(Request), NEW r \in Request, NEW w,
         NEW start, Starts(start, rs), Streaming(start, rs, w, << >>)
  PROVE  \E more : /\ Starts(more, Append(rs, r))
                   /\ Streaming(more, Append(rs, r), w, Packet(r))
                   /\ \A i \in 1 .. Len(rs) + 1 : more[i] = start[i]
<1>. DEFINE n == Len(rs)
            more == [i \in 1 .. n + 2 |->
                       IF i <= n + 1 THEN start[i] ELSE start[n + 1] + Total(r)]
            bs == Append(rs, r)
<1>1. n \in Nat /\ start \in [1 .. n + 1 -> Nat] /\ Total(r) \in Nat
  BY TotalNat DEF Starts
<1>2. /\ Len(bs) = n + 1 /\ \A i \in 1 .. n : bs[i] = rs[i]
      /\ bs[n + 1] = r /\ bs # << >>
  OBVIOUS
<1>. HIDE DEF bs
<1>3. more \in [1 .. Len(bs) + 1 -> Nat]
  BY <1>1, <1>2
<1>4. /\ \A i \in 1 .. n + 1 : more[i] = start[i]
      /\ more[n + 2] = start[n + 1] + Total(r)
  BY <1>1
<1>. HIDE DEF n, more
<1>5. Starts(more, bs)
  <2>1. more[1] = 0
    BY <1>1, <1>4 DEF Starts
  <2>2. ASSUME NEW i \in 1 .. Len(bs)
        PROVE  more[i + 1] = more[i] + Total(bs[i])
    <3>1. CASE i <= n
      BY <1>1, <1>2, <1>4, <3>1 DEF Starts, n
    <3>2. CASE i = n + 1
      BY <1>1, <1>2, <1>4, <3>2
    <3>. QED
      BY <1>1, <1>2, <3>1, <3>2
  <2>3. ASSUME NEW i \in 1 .. Len(bs) + 1, NEW j \in 1 .. Len(bs) + 1, i <= j
        PROVE  more[i] <= more[j]
    <3>1. CASE j <= n + 1
      BY <1>1, <1>4, <2>3, <3>1 DEF Starts, n
    <3>2. CASE j = n + 2 /\ i <= n + 1
      <4>1. start[i] <= start[n + 1] /\ start[i] \in Nat /\ start[n + 1] \in Nat
        BY <1>1, <3>2 DEF Starts, n
      <4>. QED
        BY <1>1, <1>4, <3>2, <4>1
    <3>3. CASE i = n + 2 /\ j = n + 2
      BY <1>1, <1>3, <1>2, <3>3
    <3>. QED
      BY <1>1, <1>2, <2>3, <3>1, <3>2, <3>3
  <2>. QED
    BY <1>3, <2>1, <2>2, <2>3 DEF Starts
<1>6. Streaming(more, bs, w, Packet(r))
  <2>1. /\ Packet(r) \in Seq(Any) /\ w \in Seq(Any) /\ Len(Packet(r)) = Total(r)
        /\ Len(w) = start[n + 1] /\ Len(w) \in Nat
    BY <1>1, PacketBytes, Layout DEF Streaming, n
  <2>2. Len(w) + Len(Packet(r)) = more[Len(bs) + 1]
    BY <1>1, <1>2, <1>4, <2>1
  <2>3. ASSUME NEW i \in 1 .. Len(bs), NEW k \in 1 .. Total(bs[i]),
               more[i] + k <= Len(w)
        PROVE  w[more[i] + k] = Packet(bs[i])[k]
    <3>1. CASE i <= n
      BY <1>1, <1>2, <1>4, <2>3, <3>1 DEF Streaming, n
    <3>2. CASE i = n + 1
      BY <1>1, <1>2, <1>4, <2>1, <2>3, <3>2
    <3>. QED
      BY <1>1, <1>2, <3>1, <3>2
  <2>4. /\ Len(Packet(r)) <= Total(bs[Len(bs)])
        /\ \A k \in 1 .. Len(Packet(r)) :
             Packet(r)[k] =
               Packet(bs[Len(bs)])[Total(bs[Len(bs)]) - Len(Packet(r)) + k]
    BY <1>1, <1>2, <2>1
  <2>. QED
    BY <1>2, <2>1, <2>2, <2>3, <2>4 DEF Streaming
<1>. QED
  BY <1>4, <1>5, <1>6 DEF bs, n

\* One more byte of the last packet is written.
LEMMA OneWritten ==
  ASSUME NEW rs \in Seq(Request), NEW w, NEW t, t # << >>,
         NEW start, Starts(start, rs), Streaming(start, rs, w, t)
  PROVE  Streaming(start, rs, Append(w, Head(t)), Tail(t))
<1>. DEFINE v == Append(w, Head(t))
            u == Tail(t)
            n == Len(rs)
            r == rs[Len(rs)]
<1>1. /\ w \in Seq(Any) /\ t \in Seq(Any) /\ rs # << >>
      /\ Len(w) + Len(t) = start[n + 1] /\ Len(t) <= Total(r)
      /\ \A k \in 1 .. Len(t) : t[k] = Packet(r)[Total(r) - Len(t) + k]
  BY DEF Streaming
<1>2. /\ v \in Seq(Any) /\ Len(v) = Len(w) + 1 /\ v[Len(w) + 1] = t[1]
      /\ \A k \in 1 .. Len(w) : v[k] = w[k]
      /\ u \in Seq(Any) /\ Len(u) = Len(t) - 1
      /\ \A k \in 1 .. Len(u) : u[k] = t[k + 1]
  BY <1>1
<1>3. /\ n \in Nat /\ n >= 1 /\ r \in Request /\ Total(r) \in Nat
      /\ Len(w) \in Nat /\ Len(t) \in Nat /\ Len(t) >= 1
      /\ start \in [1 .. n + 1 -> Nat] /\ start[n + 1] = start[n] + Total(r)
  BY <1>1, TotalNat DEF Starts
<1>4. ASSUME NEW i \in 1 .. n, NEW k \in 1 .. Total(rs[i]),
             start[i] + k <= Len(v)
      PROVE  v[start[i] + k] = Packet(rs[i])[k]
  <2>. HIDE DEF v, u
  <2>0. /\ start[i] \in Nat /\ rs[i] \in Request /\ Total(rs[i]) \in Nat
        /\ i + 1 \in 1 .. n + 1 /\ start[i + 1] = start[i] + Total(rs[i])
    <3>1. i \in 1 .. n + 1 /\ i + 1 \in 1 .. n + 1
      BY <1>3
    <3>2. start[i] \in Nat /\ rs[i] \in Request
      BY <1>3, <3>1
    <3>3. Total(rs[i]) \in Nat
      BY <3>2, TotalNat
    <3>. QED
      BY <3>1, <3>2, <3>3 DEF Starts
  <2>1. CASE start[i] + k <= Len(w)
    <3>1. w[start[i] + k] = Packet(rs[i])[k]
      BY <2>1 DEF Streaming
    <3>2. start[i] + k \in 1 .. Len(w)
      BY <1>3, <2>0, <2>1
    <3>. QED
      BY <1>2, <3>1, <3>2
  <2>2. CASE start[i] + k = Len(w) + 1
    <3>1. CASE i < n
      <4>1. /\ i + 1 \in 1 .. Len(rs) + 1 /\ n \in 1 .. Len(rs) + 1
            /\ i + 1 <= n
        BY <1>3, <2>0, <3>1
      <4>2. start[i + 1] <= start[n]
        BY <4>1 DEF Starts
      <4>3. start[i] \in Nat /\ start[n] \in Nat /\ k \in 1 .. Total(rs[i])
        BY <1>3, <2>0, <4>1
      <4>4. Len(w) + Len(t) = start[n] + Total(r) /\ Len(t) <= Total(r)
        BY <1>1, <1>3
      <4>5. start[i] + k <= start[n]
        BY <2>0, <4>2, <4>3
      <4>. HIDE DEF n, r
      <4>6. start[n] <= Len(w)
        BY <1>3, <4>3, <4>4
      <4>. QED
        BY <1>3, <2>2, <4>3, <4>5, <4>6
    <3>2. CASE i = n
      <4>1. k = Total(r) - Len(t) + 1
        BY <1>1, <1>3, <2>0, <2>2, <3>2
      <4>2. t[1] = Packet(r)[Total(r) - Len(t) + 1]
        BY <1>1, <1>3
      <4>. QED
        BY <1>2, <2>2, <3>2, <4>1, <4>2
    <3>. QED
      BY <1>3, <3>1, <3>2
  <2>3. start[i] + k <= Len(w) + 1
    BY <1>2, <1>4
  <2>4. start[i] + k \in Nat /\ Len(w) \in Nat
    BY <1>3, <2>0
  <2>. QED
    BY <2>1, <2>2, <2>3, <2>4
<1>5. ASSUME NEW k \in 1 .. Len(u)
      PROVE  u[k] = Packet(r)[Total(r) - Len(u) + k]
  <2>1. k + 1 \in 1 .. Len(t)
    BY <1>2, <1>3
  <2>2. u[k] = Packet(r)[Total(r) - Len(t) + (k + 1)]
    BY <1>1, <1>2, <2>1
  <2>3. Total(r) - Len(t) + (k + 1) = Total(r) - Len(u) + k
    BY <1>2, <1>3
  <2>. QED
    BY <2>2, <2>3
<1>6. Len(v) + Len(u) = start[n + 1] /\ Len(u) <= Total(r)
  BY <1>1, <1>2, <1>3
<1>. HIDE DEF v, u
<1>7. Streaming(start, rs, v, u)
  BY <1>1, <1>2, <1>4, <1>5, <1>6 DEF Streaming
<1>. QED
  BY <1>7 DEF v, u

-----------------------------------------------------------------------------
(* What every step may leave as it is *)

\* The end of a stream stays its end.
LEMMA EndStays ==
  ASSUME IInv, Ended, [IONext]_ioVars
  PROVE  Ended' /\ got' = got /\ sent' = sent
<1>1. ~WriteU8 /\ ~Flush /\ ~Cut /\ ~ReadU8
  BY DEF Ended, WriteU8, Flush, Cut, ReadU8, IInv, IOTypeOK
<1>2. ~FillBuffer
  <2>1. Len(socket) = 0
    BY DEF Ended
  <2>2. FillBuffer => \E n \in 1 .. RSize : n <= Len(socket)
    BY Zenon DEF FillBuffer
  <2>. QED
    BY <2>1, <2>2, SizeAssumption
<1>3. FillFails \/ UNCHANGED ioVars
  BY <1>1, <1>2 DEF IONext
<1>. QED
  BY <1>3 DEF FillFails, ioVars, Ended, writerVars, readVars

LEMMA SamePlaces ==
  ASSUME Places,
         UNCHANGED <<asked, stream, sent, todo, damaged, session, got, executed,
                     expect, header, greeted, filename, length, bytes>>
  PROVE  Places'
<1>1. PICK start : /\ Starts(start, asked) /\ Streaming(start, asked, stream, todo)
                   /\ ~damaged => Reading(start) /\ Serving(start)
  BY DEF Places
<1>2. Starts(start, asked') /\ Streaming(start, asked', stream', todo')
  BY <1>1
<1>3. Reading(start) => Reading(start)'
  BY DEF Reading, AtStart, Current, Knows
<1>4. Serving(start) => Serving(start)'
  BY DEF Serving, Current, KnowsAll
<1>. QED
  BY <1>1, <1>2, <1>3, <1>4 DEF Places

LEMMA SameDamage ==
  ASSUME IInv, Damage, [IONext]_ioVars,
         UNCHANGED <<damaged, session, expect, executed, asked, header, refused>>
  PROVE  Damage'
<1>1. damaged => Ended'
  BY EndStays DEF Damage
<1>. QED
  BY <1>1 DEF Damage, Current

LEMMA SameSession ==
  ASSUME Session,
         UNCHANGED <<parseVars, session, greeted, executed, refused>>
  PROVE  Session'
BY DEF Session, parseVars, AtStart

LEMMA SameExecuting ==
  ASSUME Executing, UNCHANGED <<executed, asked, damaged, session, refused>>
  PROVE  Executing'
BY DEF Executing, AsAsked

\* As long as nothing was cut, every packet was executed as it was asked for.
LEMMA AllAsAsked ==
  ASSUME Executing, ~damaged \/ session = "serving"
  PROVE  \A i \in 1 .. Len(executed) :
           executed[i].type = asked[i].type /\ AsAsked(i)
BY DEF Executing

LEMMA Lengths ==
  ASSUME RInv
  PROVE  /\ Len(asked) \in Nat /\ Len(told) \in Nat /\ Len(executed) \in Nat
         /\ Len(answers) \in Nat /\ Current \in 1 .. Len(asked) + 1
BY DEF RInv, Asking, Executing, Current

-----------------------------------------------------------------------------
(* The steps of the client *)

\* A client that goes on is there, and nothing was cut.
LEMMA AliveUndamaged ==
  ASSUME RInv, client \in {"idle", "writing", "waiting"}
  PROVE  open /\ ~damaged
<1>1. open
  BY DEF RInv, Asking
<1>. QED
  BY <1>1, OpenUndamaged

LEMMA BeginStep ==
  ASSUME RInv, NEW r, WellFormed(r), Begin(r),
         asked = << >> => r.type = "handshake"
  PROVE  RInv'
<1>. USE DEF Begin
<1>1. /\ open /\ ~damaged /\ r \in Request /\ asked \in Seq(Request)
      /\ executed \in Seq(Entry) /\ Len(executed) <= Len(asked)
  BY AliveUndamaged DEF WellFormed, RInv, Asking, Executing
<1>2. /\ asked' \in Seq(Request) /\ Len(asked') = Len(asked) + 1
      /\ \A i \in 1 .. Len(asked) : asked'[i] = asked[i]
      /\ asked'[Len(asked) + 1] = r /\ Len(asked) \in Nat
  BY <1>1
<1>3. IInv'
  BY Inductive DEF RInv
<1>4. Asking'
  <2>1. /\ asked' # << >> /\ asked'[1].type = "handshake"
    <3>1. CASE asked = << >>
      BY <1>1, <3>1
    <3>2. CASE asked # << >>
      <4>1. Len(asked) >= 1 /\ asked[1].type = "handshake"
        BY <1>1, <3>2 DEF RInv, Asking
      <4>. QED
        BY <1>2, <4>1
    <3>. QED
      BY <3>1, <3>2
  <2>2. \A i \in 1 .. Len(asked') : WellFormed(asked'[i])
    <3>1. \A i \in 1 .. Len(asked) : WellFormed(asked[i])
      BY DEF RInv, Asking
    <3>. QED
      BY <1>2, <3>1
  <2>3. /\ told' = told /\ told \in Seq(Told)
        /\ answers' = answers /\ answers \in Seq(AnswerMessage)
        /\ Len(told) \in Nat /\ Len(told) <= Len(asked)
    BY DEF RInv, Asking, sessionVars
  <2>4. client' = "writing" /\ next' = next /\ open' = open
        /\ next \in {"handshake", "task", "update", "event"}
    BY DEF RInv, Asking, ioVars
  <2>. HIDE DEF Begin
  <2>5. \A i \in 1 .. Len(asked)' : WellFormed(asked[i])'
    BY <2>2 DEF WellFormed
  <2>. QED
    BY <1>1, <1>2, <2>1, <2>3, <2>4, <2>5 DEF Asking
<1>5. Places'
  <2>1. PICK start :
          /\ Starts(start, asked) /\ Streaming(start, asked, stream, todo)
          /\ Reading(start) /\ Serving(start)
    BY <1>1 DEF RInv, Places
  <2>2. todo = << >> /\ todo' = Packet(r) /\ asked' = Append(asked, r)
    BY DEF RInv, Asking
  <2>3. PICK more : /\ Starts(more, asked') /\ Streaming(more, asked', stream, todo')
                    /\ \A i \in 1 .. Len(asked) + 1 : more[i] = start[i]
    <3>1. Streaming(start, asked, stream, << >>)
      BY <2>1, <2>2
    <3>. HIDE DEF Begin
    <3>2. \E more : /\ Starts(more, Append(asked, r))
                    /\ Streaming(more, Append(asked, r), stream, Packet(r))
                    /\ \A i \in 1 .. Len(asked) + 1 : more[i] = start[i]
      BY <1>1, <2>1, <3>1, OneMore
    <3>. QED
      BY <2>2, <3>2
  <2>4. UNCHANGED <<stream, sent, damaged, session, got, executed, expect, header,
                    greeted, filename, length, bytes>>
    BY DEF ioVars, parseVars, sessionVars
  <2>. HIDE DEF Begin
  <2>5. Current \in 1 .. Len(asked) + 1 /\ Current' = Current
    BY Lengths, <2>4 DEF Current
  <2>6. Reading(more)'
    <3>1. Current <= Len(asked) => asked'[Current] = asked[Current]
      BY <1>2, <2>5
    <3>. QED
      BY <1>2, <2>1, <2>3, <2>4, <2>5, <3>1 DEF Reading, AtStart, Knows
  <2>7. Serving(more)'
    <3>1. SUFFICES ASSUME session = "serving" PROVE Serving(more)'
      BY <2>4 DEF Serving
    <3>2. Current <= Len(asked) /\ got = start[Current + 1] /\ KnowsAll(asked[Current])
      BY <2>1, <3>1 DEF Serving
    <3>3. asked'[Current] = asked[Current] /\ more[Current + 1] = start[Current + 1]
      BY <1>2, <2>3, <2>5, <3>2
    <3>. QED
      BY <1>2, <2>4, <2>5, <3>2, <3>3 DEF Serving, KnowsAll
  <2>. QED
    BY <2>3, <2>4, <2>6, <2>7 DEF Places, RInv
<1>6. Damage' /\ Session'
  BY <1>1, SameSession DEF Damage, RInv, parseVars, sessionVars
<1>7. Executing'
  <2>1. UNCHANGED <<executed, damaged>>
    BY DEF parseVars, sessionVars
  <2>2. \A i \in 1 .. Len(executed) :
          executed[i].type = asked[i].type /\ AsAsked(i) /\ asked'[i] = asked[i]
    BY <1>1, <1>2, AllAsAsked DEF RInv
  <2>. HIDE DEF Begin
  <2>. QED
    BY <1>1, <1>2, <2>1, <2>2 DEF Executing, AsAsked
<1>8. InStep'
  <2>1. SUFFICES ASSUME ~refused PROVE (client # "garbled" /\ Truth /\ Ahead /\ Turns)'
    BY DEF InStep, sessionVars
  <2>2. /\ UNCHANGED <<told, executed, answers, session>>
        /\ client = "idle" /\ client' = "writing"
        /\ Truth /\ Ahead /\ Turns
    BY <2>1 DEF RInv, InStep, sessionVars
  <2>3. /\ Len(told) \in Nat /\ Len(executed) \in Nat
        /\ Len(asked) = Len(told)
    BY <2>2, Lengths DEF Turns
  <2>. HIDE DEF Begin
  <2>4. Truth'
    BY <2>2 DEF Truth
  <2>5. ExitSent => ExitSent'
    <3>1. \A x \in 1 .. Len(told) : asked'[x] = asked[x]
      BY <1>2, <2>3
    <3>. QED
      BY <2>2, <3>1 DEF ExitSent
  <2>6. ExitSent \/ (Len(executed) = Len(told) /\ answers = << >>)
    BY <1>1, <2>2, <2>3 DEF Turns, OneOpen
  <2>7. Turns'
    BY <1>2, <2>2, <2>3, <2>5, <2>6 DEF Turns
  <2>8. Ahead'
    <3>1. SUFFICES ASSUME session # "over", Current < Len(asked')
                   PROVE  asked'[Current].type = "exit"
      BY <2>2 DEF Ahead, Current
    <3>2. Current \in 1 .. Len(asked) /\ asked'[Current] = asked[Current]
      BY <1>2, <2>3, <3>1 DEF Current
    <3>3. Len(executed) # Len(told)
      BY <2>3, <3>2 DEF Current
    <3>. QED
      BY <2>3, <2>6, <3>1, <3>2, <3>3 DEF ExitSent, Current
  <2>. QED
    BY <2>2, <2>4, <2>7, <2>8
<1>. QED
  BY <1>3, <1>4, <1>5, <1>6, <1>7, <1>8 DEF RInv

LEMMA WriteByteStep ==
  ASSUME RInv, WriteByte
  PROVE  RInv'
<1>. USE DEF WriteByte
<1>1. open /\ ~damaged
  BY AliveUndamaged
<1>2. /\ sent' = sent + 1 /\ open' = open /\ UNCHANGED readVars
      /\ UNCHANGED <<client, next, asked, told, parseVars, sessionVars>>
  BY DEF WriteU8, Put
<1>3. IInv'
  BY Inductive DEF RInv, IONext
<1>4. UNCHANGED <<client, next, asked, told, answers, damaged, session, executed,
                  refused, expect, header, greeted, filename, length, bytes, got>>
  BY <1>2 DEF parseVars, sessionVars, readVars
<1>5. todo # << >> /\ client = "writing"
      /\ stream' = Append(stream, Head(todo)) /\ todo' = Tail(todo)
  OBVIOUS
<1>. HIDE DEF WriteByte
<1>6. Asking'
  BY <1>2, <1>4, <1>5 DEF RInv, Asking, WellFormed
<1>7. Places'
  <2>1. PICK start :
          /\ Starts(start, asked) /\ Streaming(start, asked, stream, todo)
          /\ Reading(start) /\ Serving(start)
    BY <1>1 DEF RInv, Places
  <2>2. asked \in Seq(Request)
    BY DEF RInv, Asking
  <2>3. Streaming(start, asked, stream', todo')
    BY <1>5, <2>1, <2>2, OneWritten
  <2>4. Reading(start)'
    BY <1>4, <2>1 DEF Reading, AtStart, Current, Knows
  <2>5. Serving(start)'
    BY <1>4, <2>1 DEF Serving, Current, KnowsAll
  <2>6. Len(stream') = sent'
    <3>1. stream \in Seq(Any) /\ Len(stream) = sent
      BY <2>1 DEF RInv, Places, Streaming
    <3>2. Len(stream') = Len(stream) + 1
      BY <1>5, <3>1
    <3>. QED
      BY <1>2, <3>1, <3>2
  <2>7. Starts(start, asked') /\ Streaming(start, asked', stream', todo')
    BY <1>4, <2>1, <2>3
  <2>. QED
    BY <2>4, <2>5, <2>6, <2>7 DEF Places
<1>8. Damage' /\ Session' /\ Executing'
  BY <1>1, <1>2, <1>4, SameSession, SameExecuting DEF Damage, RInv, parseVars
<1>9. InStep'
  BY <1>4 DEF RInv, InStep, Truth, Ahead, Current, Turns, ExitSent, OneOpen
<1>. QED
  BY <1>3, <1>6, <1>7, <1>8, <1>9 DEF RInv

LEMMA SendStep ==
  ASSUME RInv, Send
  PROVE  RInv'
<1>. USE DEF Send
<1>1. open /\ ~damaged
  BY AliveUndamaged
<1>2. /\ open' = open /\ sent' = sent /\ got' = got
      /\ UNCHANGED <<asked, todo, stream, parseVars, sessionVars>>
  BY DEF Flush, readVars
<1>3. IInv'
  BY Inductive DEF RInv, IONext
<1>4. UNCHANGED <<asked, todo, stream, sent, got, answers, damaged, session,
                  executed, refused, expect, header, greeted, filename, length,
                  bytes>>
  BY <1>2 DEF parseVars, sessionVars
<1>5. /\ client = "writing" /\ todo = << >>
      /\ \/ /\ asked[Len(asked)].type = "exit" /\ client' = "idle"
            /\ next' = "update" /\ told' = Append(told, "sent")
         \/ client' = "waiting" /\ next' = next /\ told' = told
  OBVIOUS
<1>. HIDE DEF Send
<1>6. /\ told' \in Seq(Told)
      /\ Len(told') \in {Len(told), Len(told) + 1}
      /\ Len(told') = Len(told) + 1 <=> client' = "idle"
      /\ \A i \in 1 .. Len(told') : told'[i] = told[i] \/ told'[i] = "sent"
      /\ \A i \in 1 .. Len(told') : told'[i] \in Result => i \in 1 .. Len(told)
      /\ Len(told) \in Nat
  <2>1. told \in Seq(Told) /\ "sent" \notin Result /\ "sent" \in Told
    BY DEF RInv, Asking, Result, Told
  <2>2. CASE told' = Append(told, "sent") /\ client' = "idle"
    BY <2>1, <2>2
  <2>3. CASE told' = told /\ client' = "waiting"
    BY <2>1, <2>3
  <2>. QED
    BY <1>5, <2>2, <2>3
<1>7. /\ Len(asked) \in Nat /\ Len(told) < Len(asked)
  BY <1>5, Lengths DEF RInv, Asking
<1>8. Asking'
  <2>1. Len(told') <= Len(asked)
    BY <1>6, <1>7
  <2>2. client' = "waiting" => Len(told') < Len(asked)
    BY <1>5, <1>7
  <2>3. client' \in {"idle", "waiting"}
        /\ next' \in {"handshake", "task", "update", "event"}
    BY <1>5 DEF RInv, Asking
  <2>4. asked # << >>
    BY <1>6, <1>7
  <2>. QED
    BY <1>1, <1>2, <1>4, <1>5, <1>6, <2>1, <2>2, <2>3, <2>4
       DEF RInv, Asking, WellFormed
<1>9. Places' /\ Damage' /\ Session' /\ Executing'
  BY <1>1, <1>2, <1>4, SamePlaces, SameSession, SameExecuting DEF Damage, RInv
<1>10. InStep'
  <2>1. SUFFICES ASSUME ~refused PROVE (client # "garbled" /\ Truth /\ Ahead /\ Turns)'
    BY <1>4 DEF InStep
  <2>2. Truth /\ Ahead /\ Turns
    BY <2>1 DEF RInv, InStep
  <2>3. Truth'
    <3>1. ASSUME NEW i \in 1 .. Len(told'), told'[i] \in Result
          PROVE  i <= Len(executed) /\ Right(told'[i], executed[i])
      <4>1. i \in 1 .. Len(told)
        BY <1>6, <3>1
      <4>2. told'[i] = told[i]
        BY <1>6, <3>1 DEF Result
      <4>. QED
        BY <2>2, <3>1, <4>1, <4>2 DEF Truth
    <3>. QED
      BY <1>4, <3>1 DEF Truth
  <2>4. Ahead'
    BY <1>4, <2>2 DEF Ahead, Current
  <2>5. /\ Len(asked) = Len(told) + 1
        /\ ExitSent \/ (Len(executed) = Len(told) /\ answers = << >>) \/ OneOpen
    BY <1>5, <2>2 DEF Turns
  <2>6. ASSUME client' = "waiting", told' = told
        PROVE  Turns'
    BY <1>4, <2>5, <2>6 DEF Turns, ExitSent, OneOpen
  <2>7. ASSUME client' = "idle", asked[Len(asked)].type = "exit",
               Len(told') = Len(told) + 1
        PROVE  Turns'
    <3>1. ExitSent'
      <4>1. CASE ExitSent
        <5>1. 1 .. Len(told) \subseteq 1 .. Len(told')
          BY <1>6, <2>7
        <5>. QED
          BY <1>4, <4>1, <5>1 DEF ExitSent
      <4>2. CASE Len(executed) = Len(told) /\ answers = << >>
        <5>1. /\ Len(told') \in 1 .. Len(told') /\ Len(told') = Len(asked)
              /\ Len(executed) = Len(told') - 1
          BY <1>6, <1>7, <2>5, <2>7, <4>2
        <5>. QED
          BY <1>4, <2>7, <4>2, <5>1 DEF ExitSent
      <4>3. CASE OneOpen
        <5>1. /\ Len(told') \in 1 .. Len(told') /\ Len(told') = Len(asked)
              /\ Len(executed) = Len(told')
          BY <1>6, <1>7, <2>5, <2>7, <4>3 DEF OneOpen
        <5>2. session = "over" /\ answers = << >>
          BY <2>7, <4>3, <5>1 DEF OneOpen
        <5>. QED
          BY <1>4, <2>7, <5>1, <5>2 DEF ExitSent
      <4>. QED
        BY <2>5, <4>1, <4>2, <4>3
    <3>. QED
      BY <1>4, <2>5, <2>7, <3>1 DEF Turns
  <2>. QED
    BY <1>5, <1>6, <2>3, <2>4, <2>6, <2>7
<1>. QED
  BY <1>3, <1>8, <1>9, <1>10 DEF RInv

\* What the answer to the last request tells of it.
LEMMA ReceiveStep ==
  ASSUME RInv, Receive
  PROVE  RInv'
<1>. DEFINE type == asked[Len(asked)].type
            a == Head(answers)
<1>. USE DEF Receive
<1>0. PICK st \in Reported(type, a.status) : told' = Append(told, st)
  OBVIOUS
<1>1. open /\ ~damaged
  BY AliveUndamaged
<1>2. /\ client = "waiting" /\ answers # << >>
      /\ answers' = Tail(answers)
      /\ client' \in {"garbled", "ended", "idle"}
      /\ Readable(type, a) => client' # "garbled"
      /\ next' \in {"handshake", "task", "update", "event"}
  <2>1. client = "waiting" /\ answers # << >>
        /\ answers' = Tail(answers)
    OBVIOUS
  <2>2. next \in {"handshake", "task", "update", "event"}
    BY DEF RInv, Asking
  <2>3. CASE ~Readable(type, a) /\ client' = "garbled" /\ next' = next
    BY <2>1, <2>2, <2>3
  <2>4. CASE /\ Readable(type, a)
             /\ client' \in {"ended", "idle"}
             /\ next' \in {"event", "task", "update"}
    BY <2>1, <2>4
  <2>5. CASE
          /\ Readable(type, a)
          /\ client' = IF type = "handshake" /\ a.status # "success"
                         THEN "ended" ELSE "idle"
          /\ next' = CASE type = "update" /\ a.body = "modified" -> "event"
                       [] type \in {"handshake", "update"}       -> "task"
                       [] next = "event"                         -> "task"
                       [] OTHER                                  -> "update"
    <3>. HIDE DEF Receive
    <3>1. client' \in {"ended", "idle"} /\ next' \in {"event", "task", "update"}
      BY <2>5
    <3>. QED
      BY <2>4, <2>5, <3>1
  <2>. QED
    BY <2>3, <2>5
<1>3. UNCHANGED <<asked, todo, stream, sent, open, got, damaged, session,
                  executed, refused, expect, header, greeted, filename, length,
                  bytes, misread, ioVars>>
  BY DEF ioVars, parseVars
<1>. HIDE DEF Receive
<1>4. /\ asked \in Seq(Request) /\ told \in Seq(Told)
      /\ answers \in Seq(AnswerMessage) /\ Len(told) < Len(asked)
  BY <1>2 DEF RInv, Asking
<1>5. a \in AnswerMessage /\ a.status \in Result /\ a = answers[1]
  <2>1. answers \in Seq(AnswerMessage) /\ answers # << >>
    BY <1>2, <1>4
  <2>2. a \in AnswerMessage /\ a = answers[1]
    BY <2>1
  <2>. QED
    BY <2>2 DEF AnswerMessage
<1>6. /\ told' \in Seq(Told)
      /\ Len(told') = Len(told) + 1 /\ told'[Len(told) + 1] = st
      /\ \A i \in 1 .. Len(told) : told'[i] = told[i]
      /\ Len(told) \in Nat /\ Len(asked) \in Nat
  <2>1. st \in Told
    BY <1>0, <1>5 DEF Reported, Told, Result
  <2>. QED
    BY <1>0, <1>4, <2>1
<1>7. answers' \in Seq(AnswerMessage) /\ Len(answers') = Len(answers) - 1
  BY <1>2, <1>4
<1>8. IInv'
  BY <1>3, Inductive DEF RInv
<1>9. Asking'
  <2>1. asked # << >> /\ Len(told') <= Len(asked)
    BY <1>4, <1>6
  <2>2. todo = << >>
    BY <1>2 DEF RInv, Asking
  <2>. QED
    BY <1>1, <1>2, <1>3, <1>6, <1>7, <2>1, <2>2 DEF RInv, Asking, WellFormed
<1>10. Places' /\ Damage' /\ Session' /\ Executing'
  BY <1>1, <1>3, SamePlaces, SameSession, SameExecuting
     DEF Damage, RInv, parseVars
<1>11. InStep'
  <2>1. SUFFICES ASSUME ~refused PROVE (client # "garbled" /\ Truth /\ Ahead /\ Turns)'
    BY <1>3 DEF InStep
  <2>2. Truth /\ Ahead /\ Turns
    BY <2>1 DEF RInv, InStep
  <2>3. Len(asked) = Len(told) + 1 /\ OneOpen
    BY <1>2, <2>2 DEF Turns, ExitSent
  <2>4. /\ Len(executed) = Len(asked) /\ Len(answers) = 1
        /\ a.status = "success" <=> executed[Len(executed)].ok
        /\ Readable(type, a)
    BY <1>2, <1>4, <1>5, <2>3 DEF OneOpen
  <2>9. executed[Len(executed)].type = type
    BY <1>6, <2>3, <2>4 DEF RInv, Executing
  <2>10. st \in Result => Right(st, executed[Len(executed)])
    BY <1>0, <1>5, <2>4, <2>9 DEF Reported, Result, Right
  <2>5. Truth'
    <3>1. ASSUME NEW i \in 1 .. Len(told'), told'[i] \in Result
          PROVE  i <= Len(executed) /\ Right(told'[i], executed[i])
      <4>1. CASE i \in 1 .. Len(told)
        BY <1>6, <2>2, <3>1, <4>1 DEF Truth
      <4>2. CASE i = Len(told) + 1
        BY <1>6, <2>3, <2>4, <2>10, <3>1, <4>2
      <4>. QED
        BY <1>6, <4>1, <4>2
    <3>. QED
      BY <1>3, <3>1 DEF Truth
  <2>6. Ahead'
    BY <1>3, <2>2 DEF Ahead, Current
  <2>7. answers' = << >>
    BY <1>7, <2>4
  <2>8. Turns'
    BY <1>2, <1>3, <1>6, <2>3, <2>4, <2>7 DEF Turns
  <2>. QED
    BY <1>2, <2>4, <2>5, <2>6, <2>8
<1>. QED
  BY <1>8, <1>9, <1>10, <1>11 DEF RInv

LEMMA LoseStep ==
  ASSUME RInv, LoseConnection
  PROVE  RInv'
<1>. USE DEF LoseConnection
<1>1. client \in {"waiting", "writing"} /\ client' = "ended" /\ open /\ ~damaged
  BY AliveUndamaged
<1>2. /\ told' = Append(told, "lost")
      /\ UNCHANGED <<asked, next, answers, todo, stream, sent, open, got, damaged,
                     session, executed, refused, expect, header, greeted,
                     filename, length, bytes, misread, ioVars>>
  BY DEF ioVars, parseVars, sessionVars
<1>. HIDE DEF LoseConnection
<1>3. told \in Seq(Told) /\ Len(told) < Len(asked)
  BY <1>1 DEF RInv, Asking
<1>4. /\ told' \in Seq(Told)
      /\ Len(told') = Len(told) + 1 /\ told'[Len(told) + 1] = "lost"
      /\ \A i \in 1 .. Len(told) : told'[i] = told[i]
      /\ Len(told) \in Nat /\ Len(asked) \in Nat
  BY <1>2, <1>3, Lengths DEF Told
<1>5. IInv'
  BY <1>2, Inductive DEF RInv
<1>6. Asking'
  <2>1. Len(told') <= Len(asked)
    BY <1>3, <1>4
  <2>. QED
    BY <1>1, <1>2, <1>4, <2>1 DEF RInv, Asking, WellFormed
<1>7. Places' /\ Damage' /\ Session' /\ Executing'
  BY <1>1, <1>2, SamePlaces, SameSession, SameExecuting DEF Damage, RInv, parseVars
<1>8. InStep'
  <2>1. ASSUME ~refused, Truth PROVE Truth'
    <3>1. ASSUME NEW i \in 1 .. Len(told'), told'[i] \in Result
          PROVE  i \in 1 .. Len(told) /\ told'[i] = told[i]
      BY <1>4, <3>1 DEF Result
    <3>. QED
      BY <1>2, <2>1, <3>1 DEF Truth
  <2>. QED
    BY <1>1, <1>2, <2>1 DEF RInv, InStep, Ahead, Current, Turns
<1>. QED
  BY <1>5, <1>6, <1>7, <1>8 DEF RInv

LEMMA ClientEndsStep ==
  ASSUME RInv, ClientEnds
  PROVE  RInv'
<1>1. open /\ ~damaged
  BY OpenUndamaged DEF ClientEnds, Cut
<1>2. /\ client' = "gone" /\ ~open'
      /\ UNCHANGED <<asked, told, next, answers, todo, stream, sent, got, damaged,
                     session, executed, refused, expect, header, greeted,
                     filename, length, bytes, misread>>
  BY DEF ClientEnds, Cut, readVars, parseVars, sessionVars
<1>3. IInv'
  BY Inductive DEF RInv, IONext, ClientEnds
<1>4. Asking'
  BY <1>1, <1>2 DEF RInv, Asking, WellFormed
<1>5. Places' /\ Damage' /\ Session' /\ Executing'
  BY <1>1, <1>2, SamePlaces, SameSession, SameExecuting DEF Damage, RInv, parseVars
<1>6. InStep'
  BY <1>2 DEF RInv, InStep, Truth, Ahead, Current, Turns
<1>. QED
  BY <1>3, <1>4, <1>5, <1>6 DEF RInv

-----------------------------------------------------------------------------
(* The steps of the session *)

LEMMA SameAsking ==
  ASSUME Asking, UNCHANGED <<clientVars, answers, open>>
  PROVE  Asking'
BY DEF Asking, clientVars, WellFormed

LEMMA FillStep ==
  ASSUME RInv, Fill
  PROVE  RInv'
<1>1. IInv'
  BY Inductive DEF RInv, Fill, IONext
<1>2. UNCHANGED <<sent, open, got, clientVars, parseVars, sessionVars>>
  BY DEF Fill, FillBuffer, writerVars, readVars
<1>3. UNCHANGED <<client, next, asked, told, todo, stream, expect, header,
                  filename, length, bytes, damaged, misread, session, greeted,
                  answers, executed, refused>>
  BY <1>2 DEF clientVars, parseVars, sessionVars
<1>4. [IONext]_ioVars
  BY DEF Fill, IONext
<1>5. Asking' /\ Places' /\ Damage' /\ Session' /\ Executing'
  BY <1>2, <1>3, <1>4, SameAsking, SamePlaces, SameDamage, SameSession,
     SameExecuting DEF RInv
<1>6. InStep'
  BY <1>3 DEF RInv, InStep, Truth, Ahead, Current, Turns, ExitSent, OneOpen
<1>. QED
  BY <1>1, <1>5, <1>6 DEF RInv

\* The session ends without an answer.
\* A session that is over, or hangs in read_file, leaves the rest as it is.
LEMMA StopStep ==
  ASSUME RInv, [IONext]_ioVars, session # "over", open' = open,
         session' = "over" \/ (session' = "hung" /\ greeted),
         UNCHANGED <<clientVars, sent, got, expect, header, filename, length,
                     bytes, damaged, greeted, answers, executed, refused>>
  PROVE  RInv'
<1>1. IInv'
  BY Inductive DEF RInv
<1>2. UNCHANGED <<client, next, asked, told, todo, stream>>
  BY DEF clientVars
<1>3. Asking'
  BY SameAsking DEF RInv
<1>4. Places'
  <2>1. PICK start :
          Starts(start, asked) /\ Streaming(start, asked, stream, todo)
    BY DEF RInv, Places
  <2>2. Reading(start)' /\ Serving(start)'
    BY DEF Reading, Serving
  <2>3. Starts(start, asked') /\ Streaming(start, asked', stream', todo')
    BY <1>2, <2>1
  <2>. QED
    BY <1>2, <2>2, <2>3 DEF RInv, Places
<1>5. Damage'
  BY EndStays DEF RInv, Damage
<1>6. Session' /\ Executing'
  BY <1>2 DEF RInv, Session, Executing, AsAsked
<1>7. InStep'
  <2>1. SUFFICES ASSUME ~refused PROVE (client # "garbled" /\ Truth /\ Ahead /\ Turns)'
    BY DEF InStep
  <2>2. client # "garbled" /\ Truth /\ Ahead /\ Turns
    BY <2>1 DEF RInv, InStep
  <2>3. Truth' /\ Ahead'
    BY <1>2, <2>2 DEF Truth, Ahead, Current
  <2>4. (ExitSent => ExitSent') /\ (OneOpen => OneOpen')
    BY <1>2 DEF ExitSent, OneOpen
  <2>5. Turns'
    BY <1>2, <2>2, <2>4 DEF Turns
  <2>. QED
    BY <1>2, <2>2, <2>3, <2>5
<1>. QED
  BY <1>1, <1>3, <1>4, <1>5, <1>6, <1>7 DEF RInv

\* What can be cut of a packet is not its type.
LEMMA ReadFailsStep ==
  ASSUME RInv, ReadFails
  PROVE  RInv'
<1>. USE DEF ReadFails
<1>1. /\ session = "reading" /\ Ended /\ [IONext]_ioVars
      /\ UNCHANGED <<sent, open, got, clientVars, header, filename, length,
                     greeted, answers, executed, refused>>
  BY DEF FillFails, IONext, writerVars, readVars
<1>2. CASE session' = "over" /\ UNCHANGED <<expect, bytes, damaged>>
  <2>. HIDE DEF ReadFails
  <2>. QED
    BY <1>1, <1>2, StopStep
<1>3. CASE /\ greeted /\ expect.f \notin {"version", "type"} /\ Complete
           /\ damaged' = TRUE
           /\ IF header = "upload" THEN bytes' \in Freed ELSE UNCHANGED bytes
  <2>. HIDE DEF ReadFails
  <2>1. /\ UNCHANGED <<client, next, asked, told, todo, stream>>
        /\ session' = "serving" /\ AtStart'
    BY <1>1, <1>3 DEF clientVars, Complete, NewPacket, Await, AtStart
  <2>2. ~damaged
    BY <1>1, <1>3 DEF RInv, Damage
  <2>3. PICK start :
          /\ Starts(start, asked) /\ Streaming(start, asked, stream, todo)
          /\ Reading(start)
    BY <2>2 DEF RInv, Places
  <2>4. /\ Current <= Len(asked) /\ expect.f \in Fields(asked[Current])
        /\ header = asked[Current].type
    BY <1>1, <1>3, <2>3 DEF Reading, AtStart, Knows
  <2>5. refused \/ Current = Len(asked)
    <3>1. CASE ~refused /\ Current # Len(asked)
      <4>1. asked[Current].type = "exit"
        BY <1>1, <2>4, <3>1, Lengths DEF RInv, InStep, Ahead
      <4>. QED
        BY <1>3, <2>4, <4>1 DEF Fields, Named
    <3>. QED
      BY <3>1
  <2>6. IInv' /\ Ended'
    BY <1>1, Inductive, EndStays DEF RInv
  <2>7. Asking'
    BY <1>1, SameAsking DEF RInv
  <2>8. Places'
    <3>1. Starts(start, asked') /\ Streaming(start, asked', stream', todo')
      BY <2>1, <2>3
    <3>. QED
      BY <1>1, <1>3, <2>1, <3>1 DEF RInv, Places
  <2>9. Damage'
    BY <1>1, <2>1, <2>4, <2>5, <2>6 DEF Damage, Current
  <2>10. Session'
    <3>1. bytes' \in {"unset", "whole", "freed"}
      BY <1>3 DEF RInv, Session, Freed
    <3>2. expect' \in [f : FieldName, size : Nat, left : Nat]
          /\ expect'.left \in 1 .. expect'.size
      BY <2>1 DEF AtStart, FieldName
    <3>. QED
      BY <1>1, <1>3, <2>1, <3>1, <3>2 DEF RInv, Session
  <2>11. Executing'
    <3>1. \A i \in 1 .. Len(executed) :
            executed[i].type = asked[i].type /\ AsAsked(i)
      BY <2>2, AllAsAsked DEF RInv
    <3>. QED
      BY <1>1, <2>1, <3>1 DEF RInv, Executing, AsAsked
  <2>12. InStep'
    BY <1>1, <2>1 DEF RInv, InStep, Truth, Ahead, Current, Turns, ExitSent, OneOpen
  <2>. QED
    BY <2>6, <2>7, <2>8, <2>9, <2>10, <2>11, <2>12 DEF RInv
<1>. QED
  BY <1>2, <1>3

\* The byte that is read is the one that was written for the field and place
\* the session is at.
LEMMA ByteAtHand ==
  ASSUME RInv, session = "reading", ReadU8, NEW start,
         Starts(start, asked), Streaming(start, asked, stream, todo),
         Reading(start)
  PROVE  LET r == asked[Current]
             f == expect.f
         IN  /\ ~damaged /\ Current \in 1 .. Len(asked) /\ r \in Request
             /\ start[Current] \in Nat
             /\ f \in Fields(r) /\ expect.size = Size(f, r) /\ Knows(r, f)
             /\ stream[last'] = Byte(f, r, expect.size - expect.left + 1)
             /\ got' = start[Current] + Before(f) + (expect.size - expect.left) + 1
<1>. DEFINE r == asked[Current]
            f == expect.f
            k == expect.size - expect.left + 1
<1>1. /\ got < sent /\ last' = got + 1 /\ got' = got + 1
      /\ rindex < rlength /\ Len(stream) = sent
  BY ReadU8Step DEF RInv, Places, ReadU8
<1>2. ~damaged
  BY <1>1 DEF RInv, Damage, Ended, IInv, IOTypeOK
<1>3. /\ Len(asked) \in Nat /\ Current \in 1 .. Len(asked) + 1
      /\ start \in [1 .. Len(asked) + 1 -> Nat] /\ asked \in Seq(Request)
      /\ got \in Nat /\ sent \in Nat
  BY Lengths DEF Starts, RInv, Asking, IInv, IOTypeOK
<1>4. /\ expect.size \in Nat /\ expect.left \in 1 .. expect.size
      /\ f \in FieldName
  BY DEF RInv, Session
<1>5. got = start[Current] + Before(f) + (expect.size - expect.left)
  BY DEF Reading
<1>6. Before(f) \in Nat
  BY <1>4, Words DEF Before, FieldName
<1>7. Current \in 1 .. Len(asked)
  <2>1. SUFFICES ASSUME Current = Len(asked) + 1 PROVE FALSE
    BY <1>3
  <2>2. Len(stream) <= start[Len(asked) + 1]
    <3>1. Len(stream) + Len(todo) = start[Len(asked) + 1] /\ Len(todo) \in Nat
      BY DEF Streaming
    <3>. QED
      BY <1>1, <1>3, <3>1
  <2>3. start[Len(asked) + 1] <= got
    BY <1>3, <1>4, <1>5, <1>6, <2>1
  <2>. QED
    BY <1>1, <1>3, <2>2, <2>3
<1>8. /\ r \in Request /\ start[Current] \in Nat
      /\ start[Current + 1] = start[Current] + Total(r)
  BY <1>3, <1>7 DEF Starts
<1>9. f \in Fields(r) /\ expect.size = Size(f, r) /\ Knows(r, f)
  <2>1. CASE AtStart
    BY <2>1 DEF AtStart, Fields, FieldName, Size, Knows
  <2>2. CASE ~AtStart
    BY <2>2 DEF Reading
  <2>. QED
    BY <2>1, <2>2
<1>10. /\ k \in 1 .. Size(f, r) /\ Total(r) \in Nat
       /\ Before(f) + k \in 1 .. Total(r)
  <2>1. /\ Size(f, r) \in Nat /\ Before(f) + Size(f, r) <= Total(r)
        /\ Total(r) \in Nat
    BY <1>8, <1>9, Sizes
  <2>2. k \in 1 .. Size(f, r)
    BY <1>4, <1>9
  <2>. QED
    BY <1>6, <2>1, <2>2
<1>11. last' = start[Current] + (Before(f) + k)
  BY <1>1, <1>4, <1>5, <1>6, <1>8
<1>12. stream[last'] = Packet(r)[Before(f) + k]
  <2>1. start[Current] + (Before(f) + k) <= Len(stream)
    BY <1>1, <1>3, <1>11
  <2>. QED
    BY <1>7, <1>10, <1>11, <2>1 DEF Streaming
<1>13. Packet(r)[Before(f) + k] = Byte(f, r, k)
  BY <1>8, <1>9, <1>10, Layout
<1>14. got' = start[Current] + Before(f) + (expect.size - expect.left) + 1
  BY <1>1, <1>5
<1>. QED
  BY <1>2, <1>7, <1>8, <1>9, <1>12, <1>13, <1>14

\* What the session does with a field it has read to its end.
LEMMA StoreStep ==
  ASSUME NEW f, NEW r \in Request, f \in Fields(r), Knows(r, f),
         r = asked[Current], Current \in 1 .. Len(asked), NEW start,
         start[Current] \in Nat, start[Current + 1] = start[Current] + Total(r),
         session = "reading", Session,
         got' = start[Current] + Before(f) + Size(f, r),
         Store(f, Value(f, r)),
         UNCHANGED <<asked, executed, greeted>>
  PROVE  /\ Reading(start)' /\ Serving(start)'
         /\ session' \in {"reading", "serving"}
         /\ expect' \in [f : FieldName, size : Nat, left : Nat]
         /\ expect'.left \in 1 .. expect'.size
         /\ session' = "serving" => AtStart'
         /\ header' \in Type /\ filename' \in Names \cup {NoName} /\ length' \in Int
         /\ bytes' \in {"unset", "whole", "freed"}
<1>. DEFINE Typed ==
              /\ session' \in {"reading", "serving"}
              /\ expect' \in [f : FieldName, size : Nat, left : Nat]
              /\ expect'.left \in 1 .. expect'.size
              /\ session' = "serving" => AtStart'
              /\ header' \in Type /\ filename' \in Names \cup {NoName}
              /\ length' \in Int /\ bytes' \in {"unset", "whole", "freed"}
            Goes(g) == /\ session' = "reading"
                       /\ expect' = [f |-> g, size |-> Size(g, r), left |-> Size(g, r)]
<1>1. /\ r.type \in Type /\ r.name \in Names \cup {NoName} /\ r.length \in Nat
      /\ Current' = Current /\ Len(asked)' = Len(asked) /\ asked'[Current] = r
  BY DEF Request, Current
<1>2. /\ header \in Type /\ filename \in Names \cup {NoName} /\ length \in Int
      /\ bytes \in {"unset", "whole", "freed"} /\ greeted \in BOOLEAN
  BY DEF Session
<1>3. ASSUME NEW g \in Fields(r), Goes(g), Before(g) = Before(f) + Size(f, r),
             Knows(r, g)'
      PROVE  Reading(start)' /\ Serving(start)'
  <2>1. /\ Size(g, r) \in Nat /\ Before(g) \in Nat
        /\ Size(f, r) \in Nat /\ Before(f) \in Nat
    BY Sizes
  <2>2. expect'.f = g /\ expect'.size = Size(g, r) /\ expect'.size - expect'.left = 0
    BY <1>3, <2>1
  <2>3. got' = start[Current] + Before(g) + 0
    BY <1>3, <2>1
  <2>. QED
    BY <1>1, <1>3, <2>2, <2>3 DEF Reading, Serving
<1>4. ASSUME Complete, Total(r) = Before(f) + Size(f, r), KnowsAll(r)'
      PROVE  Reading(start)' /\ Serving(start)'
  <2>1. Size(f, r) \in Nat /\ Before(f) \in Nat
    BY Sizes
  <2>2. got' = start[Current + 1] /\ session' = "serving"
    BY <1>4, <2>1 DEF Complete
  <2>. QED
    BY <1>1, <1>4, <2>2 DEF Reading, Serving
<1>5. Complete => /\ session' = "serving" /\ AtStart'
                  /\ expect' = [f |-> "version", size |-> 2, left |-> 2]
  BY DEF Complete, NewPacket, Await, AtStart
<1>6. ASSUME Complete, header' \in Type, filename' \in Names \cup {NoName},
             length' \in Int, bytes' \in {"unset", "whole", "freed"}
      PROVE  Typed
  BY <1>5, <1>6 DEF FieldName
<1>7. ASSUME NEW g \in Fields(r), Goes(g), header' \in Type,
             filename' \in Names \cup {NoName}, length' \in Int,
             bytes' \in {"unset", "whole", "freed"}
      PROVE  Typed
  <2>1. Size(g, r) \in Nat /\ Size(g, r) > 0 /\ g \in FieldName
    BY Sizes DEF Fields
  <2>. QED
    BY <1>7, <2>1
<1>. HIDE DEF Typed
<1>8. CASE f = "version"
  <2>1. /\ Goes("type") /\ UNCHANGED <<header, filename, length, bytes>>
    BY <1>8 DEF Store, Await, Size
  <2>2. "type" \in Fields(r) /\ Before("type") = Before(f) + Size(f, r)
    BY <1>8 DEF Fields, FieldName, Before, Size
  <2>3. Knows(r, "type")'
    BY DEF Knows
  <2>. HIDE DEF Goes
  <2>. QED
    BY <1>2, <1>3, <1>7, <2>1, <2>2, <2>3 DEF Typed
<1>9. CASE f = "type"
  <2>1. /\ header' = r.type /\ UNCHANGED <<filename, length, bytes>>
        /\ IF r.type \in Named \cup {"handshake"} THEN Goes("strlen") ELSE Complete
    BY <1>9 DEF Store, Await, Size, Value
  <2>2. CASE r.type \in Named \cup {"handshake"}
    <3>1. "strlen" \in Fields(r) /\ Before("strlen") = Before(f) + Size(f, r)
      BY <1>9, <2>2 DEF Fields, FieldName, Before, Size
    <3>2. Knows(r, "strlen")'
      BY <2>1 DEF Knows
    <3>. HIDE DEF Goes
    <3>. QED
      BY <1>1, <1>2, <1>3, <1>7, <2>1, <2>2, <3>1, <3>2 DEF Typed
  <2>3. CASE r.type \notin Named \cup {"handshake"}
    <3>1. Total(r) = Before(f) + Size(f, r)
      BY <1>1, <1>9, <2>3 DEF Total, Before, Size, Type, Named
    <3>2. KnowsAll(r)'
      BY <2>1, <2>3 DEF KnowsAll, Named
    <3>. QED
      BY <1>1, <1>2, <1>4, <1>6, <2>1, <2>3, <3>1, <3>2 DEF Typed
  <2>. QED
    BY <2>2, <2>3
<1>10. CASE f = "strlen"
  <2>1. /\ Goes("chars") /\ UNCHANGED <<header, filename, length, bytes>>
    BY <1>10 DEF Store, Await, Size, Value
  <2>2. "chars" \in Fields(r) /\ Before("chars") = Before(f) + Size(f, r)
    BY <1>10 DEF Fields, FieldName, Before, Size
  <2>3. Knows(r, "chars")'
    BY <1>10, <2>1 DEF Knows
  <2>. HIDE DEF Goes
  <2>. QED
    BY <1>2, <1>3, <1>7, <2>1, <2>2, <2>3 DEF Typed
<1>11. CASE f = "chars"
  <2>1. /\ filename' = IF greeted THEN r.name ELSE filename
        /\ UNCHANGED <<header, length, bytes>> /\ header = r.type
    BY <1>11 DEF Store, Value, Knows
  <2>2. r.type \in {"handshake", "upload", "download", "delete"}
    BY <1>11 DEF Fields, Named
  <2>3. CASE r.type = "handshake"
    <3>1. Goes("from")
      BY <1>11, <2>1, <2>3 DEF Store, Await, Size
    <3>2. "from" \in Fields(r) /\ Before("from") = Before(f) + Size(f, r)
      BY <1>11, <2>3, Words DEF Fields, FieldName, Before, Size
    <3>3. Knows(r, "from")'
      BY <2>1 DEF Knows
    <3>. HIDE DEF Goes
    <3>. QED
      BY <1>1, <1>2, <1>3, <1>7, <2>1, <3>1, <3>2, <3>3 DEF Typed
  <2>4. CASE r.type = "upload"
    <3>1. Goes("length")
      BY <1>11, <2>1, <2>4 DEF Store, Await, Size
    <3>2. "length" \in Fields(r) /\ Before("length") = Before(f) + Size(f, r)
      BY <1>11, <2>4, Words DEF Fields, FieldName, Before, Size
    <3>3. Knows(r, "length")'
      BY <2>1 DEF Knows
    <3>. HIDE DEF Goes
    <3>. QED
      BY <1>1, <1>2, <1>3, <1>7, <2>1, <3>1, <3>2, <3>3 DEF Typed
  <2>5. CASE r.type \in {"download", "delete"}
    <3>1. Complete
      BY <1>11, <2>1, <2>5 DEF Store
    <3>2. Total(r) = Before(f) + Size(f, r)
      BY <1>11, <2>5, Words DEF Total, Before, Size
    <3>3. KnowsAll(r)'
      BY <2>1, <2>5 DEF KnowsAll
    <3>. QED
      BY <1>1, <1>2, <1>4, <1>6, <2>1, <3>1, <3>2, <3>3 DEF Typed
  <2>. QED
    BY <2>2, <2>3, <2>4, <2>5
<1>12. CASE f = "from"
  <2>1. Complete /\ UNCHANGED <<header, filename, length, bytes>>
    BY <1>12 DEF Store
  <2>2. r.type = "handshake" /\ Total(r) = Before(f) + Size(f, r)
    BY <1>12, Words DEF Fields, Total, Before, Size
  <2>3. KnowsAll(r)'
    BY <1>12, <2>1, <2>2 DEF Knows, KnowsAll, Named
  <2>. QED
    BY <1>2, <1>4, <1>6, <2>1, <2>2, <2>3 DEF Typed
<1>13. CASE f = "length"
  <2>1. /\ length' = r.length /\ bytes' = "whole" /\ UNCHANGED <<header, filename>>
        /\ IF r.length = 0 THEN Complete ELSE Goes("data")
    BY <1>13 DEF Store, Await, Size, Value
  <2>2. r.type = "upload"
    BY <1>13 DEF Fields
  <2>3. CASE r.length = 0
    <3>1. Total(r) = Before(f) + Size(f, r)
      BY <1>13, <2>2, <2>3, Words DEF Total, Before, Size
    <3>2. KnowsAll(r)'
      BY <1>13, <2>1, <2>2 DEF Knows, KnowsAll
    <3>. QED
      BY <1>1, <1>2, <1>4, <1>6, <2>1, <2>3, <3>1, <3>2 DEF Typed
  <2>4. CASE r.length # 0
    <3>1. "data" \in Fields(r) /\ Before("data") = Before(f) + Size(f, r)
      BY <1>1, <1>13, <2>2, <2>4, Words DEF Fields, FieldName, Before, Size
    <3>2. Knows(r, "data")'
      BY <1>13, <2>1 DEF Knows
    <3>. HIDE DEF Goes
    <3>. QED
      BY <1>1, <1>2, <1>3, <1>7, <2>1, <2>4, <3>1, <3>2 DEF Typed
  <2>. QED
    BY <2>3, <2>4
<1>14. CASE f = "data"
  <2>1. Complete /\ UNCHANGED <<header, filename, length, bytes>>
    BY <1>14 DEF Store
  <2>2. r.type = "upload" /\ Total(r) = Before(f) + Size(f, r)
    BY <1>1, <1>14, Words DEF Fields, Total, Before, Size
  <2>3. KnowsAll(r)'
    BY <1>14, <2>1, <2>2 DEF Knows, KnowsAll
  <2>. QED
    BY <1>2, <1>4, <1>6, <2>1, <2>2, <2>3 DEF Typed
<1>. QED
  BY <1>8, <1>9, <1>10, <1>11, <1>12, <1>13, <1>14 DEF Fields, FieldName

LEMMA ReadByteStep ==
  ASSUME RInv, ReadByte
  PROVE  RInv'
<1>. DEFINE r == asked[Current]
            f == expect.f
            b == stream[last']
<1>1. /\ session = "reading" /\ ReadU8
      /\ UNCHANGED <<clientVars, damaged, greeted, answers, executed, refused>>
  BY DEF ReadByte
<1>2. IInv' /\ got < sent
  BY <1>1, ReadU8Step DEF RInv
<1>3. UNCHANGED <<open, sent, client, next, asked, told, todo, stream>>
  BY <1>1 DEF ReadU8, writerVars, clientVars
<1>4. PICK start : /\ Starts(start, asked) /\ Streaming(start, asked, stream, todo)
                   /\ ~damaged => Reading(start) /\ Serving(start)
  BY DEF RInv, Places
<1>5. ~damaged /\ Reading(start)
  BY <1>1, <1>4 DEF RInv, Damage, Ended, ReadU8, IInv, IOTypeOK
<1>6. /\ Current \in 1 .. Len(asked) /\ r \in Request /\ start[Current] \in Nat
      /\ f \in Fields(r) /\ expect.size = Size(f, r) /\ Knows(r, f)
      /\ b = Byte(f, r, expect.size - expect.left + 1)
      /\ got' = start[Current] + Before(f) + (expect.size - expect.left) + 1
  BY <1>1, <1>4, <1>5, ByteAtHand
<1>7. start[Current + 1] = start[Current] + Total(r)
  BY <1>4, <1>6 DEF Starts
<1>8. Fits(b) /\ b.f = f /\ b.v = Value(f, r)
  BY <1>6 DEF Fits, Byte
<1>9. /\ expect \in [f : FieldName, size : Nat, left : Nat]
      /\ expect.left \in 1 .. expect.size /\ Before(f) \in Nat
  BY <1>6, Sizes DEF RInv, Session
<1>10. /\ Reading(start)' /\ Serving(start)'
       /\ session' \in {"reading", "serving"}
       /\ expect' \in [f : FieldName, size : Nat, left : Nat]
       /\ expect'.left \in 1 .. expect'.size
       /\ session' = "serving" => AtStart'
       /\ header' \in Type /\ filename' \in Names \cup {NoName} /\ length' \in Int
       /\ bytes' \in {"unset", "whole", "freed"}
  <2>1. CASE /\ expect.left > 1
             /\ expect' = [expect EXCEPT !.left = @ - 1]
             /\ UNCHANGED <<session, header, filename, length, bytes>>
    <3>1. /\ expect' \in [f : FieldName, size : Nat, left : Nat]
          /\ expect'.left \in 1 .. expect'.size
          /\ expect'.f = f /\ expect'.size = expect.size
          /\ expect'.left = expect.left - 1
      BY <1>9, <2>1
    <3>2. got' = start[Current] + Before(f) + (expect'.size - expect'.left)
      <4>1. /\ expect.size \in Nat /\ expect.left \in Nat
            /\ start[Current] \in Nat /\ Before(f) \in Nat
        BY <1>6, <1>9
      <4>2. got' = start[Current] + Before(f) + (expect.size - expect.left) + 1
        BY <1>6
      <4>. HIDE DEF r, f, b
      <4>. QED
        BY <3>1, <4>1, <4>2
    <3>3. Knows(r, f)'
      BY <1>1, <1>3, <1>6, <2>1 DEF Knows, Current
    <3>4. Reading(start)' /\ Serving(start)'
      BY <1>1, <1>3, <1>6, <2>1, <3>1, <3>2, <3>3 DEF Reading, Serving, Current
    <3>. QED
      BY <1>1, <2>1, <3>1, <3>4 DEF RInv, Session
  <2>2. CASE expect.left = 1 /\ Store(b.f, b.v)
    <3>1. got' = start[Current] + Before(f) + Size(f, r)
      BY <1>6, <1>9, <2>2
    <3>2. Store(f, Value(f, r))
      BY <1>8, <2>2
    <3>3. Session
      BY DEF RInv
    <3>4. UNCHANGED <<asked, executed, greeted>>
      BY <1>1, <1>3
    <3>5. r = asked[Current]
      OBVIOUS
    <3>. HIDE DEF r, f
    <3>. QED
      BY <1>1, <1>6, <1>7, <3>1, <3>2, <3>3, <3>4, <3>5, StoreStep, Zenon
  <2>. QED
    BY <1>8, <2>1, <2>2 DEF ReadByte
<1>11. Asking'
  BY <1>1, <1>3, SameAsking DEF RInv
<1>12. Places'
  <2>1. Starts(start, asked') /\ Streaming(start, asked', stream', todo')
    BY <1>3, <1>4
  <2>. QED
    BY <1>3, <1>10, <2>1 DEF RInv, Places
<1>13. Damage'
  BY <1>1, <1>5 DEF Damage
<1>14. Session'
  BY <1>1, <1>10 DEF RInv, Session
<1>15. Executing'
  <2>1. \A i \in 1 .. Len(executed) :
          executed[i].type = asked[i].type /\ AsAsked(i)
    BY <1>5, AllAsAsked DEF RInv
  <2>. QED
    BY <1>1, <1>3, <2>1 DEF RInv, Executing, AsAsked
<1>16. InStep'
  <2>1. session # "over" /\ session' # "over"
    BY <1>1, <1>10
  <2>. QED
    BY <1>1, <1>3, <2>1
       DEF RInv, InStep, Truth, Ahead, Current, Turns, ExitSent, OneOpen
<1>. QED
  BY <1>2, <1>11, <1>12, <1>13, <1>14, <1>15, <1>16 DEF RInv

\* Whatever the session serves, it has the type that was asked for.
LEMMA HeaderAtHand ==
  ASSUME RInv, session = "serving"
  PROVE  /\ Current \in 1 .. Len(asked) /\ header = asked[Current].type
         /\ header \in Type /\ WellFormed(asked[Current])
         /\ ~greeted => header = "handshake"
<1>1. Current <= Len(asked) /\ header = asked[Current].type
  <2>1. CASE damaged
    BY <2>1 DEF RInv, Damage
  <2>2. CASE ~damaged
    BY <2>2 DEF RInv, Places, Serving, KnowsAll
  <2>. QED
    BY <2>1, <2>2 DEF RInv, Session
<1>2. Current \in 1 .. Len(asked)
  BY <1>1, Lengths
<1>3. WellFormed(asked[Current]) /\ header \in Type
  BY <1>2 DEF RInv, Asking, Session
<1>4. ASSUME ~greeted PROVE header = "handshake"
  <2>1. executed = << >>
    BY <1>4 DEF RInv, Session
  <2>2. Current = 1 /\ asked # << >>
    BY <1>2, <2>1 DEF Current
  <2>. QED
    BY <1>1, <2>2 DEF RInv, Asking
<1>. QED
  BY <1>1, <1>2, <1>3, <1>4

\* Serving a packet: it is executed as asked, and answered once.
LEMMA ServeStep ==
  ASSUME RInv, session = "serving", NEW ok \in BOOLEAN, Done(ok),
         UNCHANGED <<ioVars, clientVars, expect, header, filename, length, damaged>>,
         session' \in {"reading", "over"}, greeted' \in BOOLEAN,
         session' = "reading" => greeted',
         refused' \in BOOLEAN, refused => refused',
         bytes' \in {"unset", "whole", "freed"}, answers' \in Seq(AnswerMessage),
         header = "exit" => session' = "over" /\ answers' = answers,
         header # "exit" /\ ~refused' =>
           \E a \in AnswerMessage :
             /\ answers' = Append(answers, a)
             /\ a.status = "success" <=> ok
             /\ Readable(header, a)
  PROVE  RInv'
<1>. DEFINE n == Len(executed)
            e == [type |-> header,
                  name |-> IF header \in Named THEN filename ELSE NoName,
                  length |-> IF header = "upload" THEN length ELSE 0,
                  whole |-> header = "upload" => bytes = "whole", ok |-> ok]
            q == asked[n + 1]
<1>1. /\ n \in Nat /\ n + 1 \in 1 .. Len(asked) /\ header = q.type
      /\ header \in Type /\ WellFormed(q)
      /\ ~greeted => header = "handshake"
  BY Lengths, HeaderAtHand DEF Current
<1>2. e \in Entry
  <2>1. /\ filename \in Names \cup {NoName} /\ length \in Int
    BY DEF RInv, Session
  <2>. QED
    BY <1>1, <2>1 DEF Entry
<1>3. /\ executed' \in Seq(Entry) /\ Len(executed') = n + 1
      /\ executed'[n + 1] = e /\ \A i \in 1 .. n : executed'[i] = executed[i]
  <2>1. executed' = Append(executed, e) /\ executed \in Seq(Entry)
    BY DEF Done, RInv, Executing
  <2>. HIDE DEF e
  <2>. QED
    BY <1>2, <2>1
<1>4. UNCHANGED <<client, next, asked, told, todo, stream, open, sent, got,
                  rindex, rlength, socket>>
  BY DEF clientVars, ioVars
<1>5. IInv'
  BY Inductive DEF RInv
<1>6. Asking'
  BY <1>4 DEF RInv, Asking, WellFormed
<1>7. AtStart /\ AtStart'
  BY DEF RInv, Session, AtStart
<1>8. Places'
  <2>1. PICK start : /\ Starts(start, asked) /\ Streaming(start, asked, stream, todo)
                     /\ ~damaged => Reading(start) /\ Serving(start)
    BY DEF RInv, Places
  <2>2. Starts(start, asked') /\ Streaming(start, asked', stream', todo')
    BY <1>4, <2>1
  <2>3. ASSUME ~damaged PROVE Reading(start)'
    <3>1. got = start[n + 2] /\ start[n + 2] \in Nat
      BY <1>1, <2>1, <2>3 DEF Serving, Current, Starts
    <3>2. Current' = n + 2
      BY <1>1, <1>3 DEF Current
    <3>3. /\ expect'.size - expect'.left = 0 /\ Before(expect'.f) = 0
      BY <1>7 DEF AtStart, Before
    <3>. QED
      BY <1>4, <1>7, <3>1, <3>2, <3>3 DEF Reading
  <2>4. Serving(start)'
    BY DEF Serving
  <2>5. Len(stream') = sent'
    BY <1>4 DEF RInv, Places
  <2>. QED
    BY <2>2, <2>3, <2>4, <2>5 DEF Places
<1>9. Damage'
  BY <1>4, <1>7 DEF RInv, Damage, Ended, AtStart
<1>10. Session'
  <2>1. /\ header \in Type /\ filename \in Names \cup {NoName} /\ length \in Int
        /\ expect \in [f : FieldName, size : Nat, left : Nat]
        /\ expect.left \in 1 .. expect.size /\ damaged \in BOOLEAN
    BY DEF RInv, Session
  <2>. QED
    BY <2>1 DEF Session
<1>11. Executing'
  <2>1. \A i \in 1 .. n : executed[i].type = asked[i].type /\ AsAsked(i)
    BY AllAsAsked DEF RInv
  <2>2. ASSUME NEW i \in 1 .. n
        PROVE  executed'[i].type = asked[i].type /\ AsAsked(i)'
    BY <1>3, <1>4, <2>1 DEF AsAsked
  <2>3. executed'[n + 1].type = q.type
    BY <1>1, <1>3
  <2>4. ASSUME ~damaged, NEW i \in {n + 1} PROVE AsAsked(i)'
    <3>1. KnowsAll(q)
      BY <2>4 DEF RInv, Places, Serving, Current
    <3>2. /\ e.name = q.name /\ e.length = q.length /\ e.whole
      BY <1>1, <3>1 DEF KnowsAll, WellFormed, Named
    <3>. HIDE DEF e
    <3>. QED
      BY <1>3, <1>4, <3>2 DEF AsAsked
  <2>5. ASSUME damaged PROVE refused' \/ n + 1 = Len(asked)
    BY <1>1, <2>5 DEF RInv, Damage, Current
  <2>6. ASSUME NEW i \in 1 .. n + 1
        PROVE  /\ executed'[i].type = asked[i].type
               /\ \/ AsAsked(i)'
                  \/ /\ damaged /\ i = n + 1
                     /\ refused' \/ i = Len(asked)
    <3>1. CASE i \in 1 .. n
      BY <2>2, <3>1
    <3>2. CASE i = n + 1
      BY <2>3, <2>4, <2>5, <3>2
    <3>. QED
      BY <1>1, <3>1, <3>2
  <2>7. n + 1 <= Len(asked)
    BY <1>1
  <2>. HIDE DEF e, q
  <2>. QED
    BY <1>3, <1>4, <2>6, <2>7 DEF Executing, AsAsked
<1>12. InStep'
  <2>1. SUFFICES ASSUME ~refused', ~refused
                 PROVE  (client # "garbled" /\ Truth /\ Ahead /\ Turns)'
    BY DEF InStep
  <2>2. client # "garbled" /\ Truth /\ Ahead /\ Turns
    BY <2>1 DEF RInv, InStep
  <2>3. Truth'
    <3>1. ASSUME NEW i \in 1 .. Len(told), told[i] \in Result
          PROVE  i <= n + 1 /\ Right(told[i], executed'[i])
      <4>1. i \in 1 .. n /\ Right(told[i], executed[i])
        BY <1>1, <2>2, <3>1 DEF Truth
      <4>. QED
        BY <1>1, <1>3, <4>1
    <3>. QED
      BY <1>3, <1>4, <3>1 DEF Truth
  <2>4. Ahead'
    <3>1. n + 1 < Len(asked) => header = "exit"
      BY <1>1, <2>2 DEF Ahead, Current
    <3>. QED
      BY <1>1, <1>3, <1>4, <3>1, Lengths DEF Ahead, Current
  <2>5. ASSUME client \in {"idle", "writing", "waiting"}
        PROVE  Turns'
    <3>1. /\ Len(asked) = IF client = "idle" THEN Len(told) ELSE Len(told) + 1
          /\ \/ ExitSent
             \/ n = Len(told) /\ answers = << >>
             \/ OneOpen
      BY <2>2, <2>5 DEF Turns
    <3>2. ~OneOpen
      BY <1>1, <3>1, Lengths DEF OneOpen
    <3>3. CASE ExitSent
      <4>1. PICK x \in 1 .. Len(told) : asked[x].type = "exit" /\ n = x - 1
        BY <3>3 DEF ExitSent
      <4>2. x = n + 1 /\ header = "exit"
        BY <1>1, <4>1, Lengths
      <4>3. answers' = << >> /\ session' = "over"
        BY <3>3, <4>2 DEF ExitSent
      <4>4. ExitSent'
        BY <1>3, <1>4, <4>1, <4>2, <4>3 DEF ExitSent
      <4>. QED
        BY <1>4, <3>1, <4>4 DEF Turns
    <3>4. CASE n = Len(told) /\ answers = << >>
      <4>1. /\ Len(executed') = Len(told) + 1 /\ executed'[n + 1].ok = ok
            /\ asked[Len(executed')].type = header
        BY <1>1, <1>3, <3>4
      <4>2. CASE header = "exit"
        BY <1>4, <3>1, <3>4, <4>1, <4>2 DEF Turns, OneOpen
      <4>3. CASE header # "exit"
        <5>1. PICK a \in AnswerMessage :
                /\ answers' = Append(answers, a)
                /\ a.status = "success" <=> ok
                /\ Readable(header, a)
          BY <2>1, <4>3
        <5>2. Len(answers') = 1 /\ answers'[1] = a
          BY <3>4, <5>1
        <5>3. OneOpen'
          BY <1>3, <1>4, <4>1, <4>3, <5>1, <5>2 DEF OneOpen, Readable
        <5>. QED
          BY <1>4, <3>1, <5>3 DEF Turns
      <4>. QED
        BY <4>2, <4>3
    <3>. QED
      BY <3>1, <3>2, <3>3, <3>4
  <2>6. Turns'
    <3>1. CASE client \in {"idle", "writing", "waiting"}
      BY <2>5, <3>1
    <3>2. CASE client \notin {"idle", "writing", "waiting"}
      BY <1>4, <3>2 DEF Turns
    <3>. QED
      BY <3>1, <3>2
  <2>. QED
    BY <1>4, <2>2, <2>3, <2>4, <2>6
<1>. QED
  BY <1>5, <1>6, <1>8, <1>9, <1>10, <1>11, <1>12 DEF RInv

LEMMA Answers ==
  ASSUME RInv, NEW st \in Result,
         NEW body \in {"bytes", "list", "modified", "deleted", "none"}
  PROVE  /\ [status |-> st, body |-> body] \in AnswerMessage
         /\ Append(answers, [status |-> st, body |-> body]) \in Seq(AnswerMessage)
<1>1. [status |-> st, body |-> body] \in AnswerMessage
  BY DEF AnswerMessage
<1>2. answers \in Seq(AnswerMessage)
  BY DEF RInv, Asking
<1>. QED
  BY <1>1, <1>2

LEMMA ServeHandshakeStep ==
  ASSUME RInv, ServeHandshake
  PROVE  RInv'
<1>1. /\ session = "serving" /\ header = "handshake"
      /\ bytes \in {"unset", "whole", "freed"} /\ refused \in BOOLEAN
  BY HeaderAtHand DEF ServeHandshake, RInv, Session
<1>2. PICK ok \in BOOLEAN :
        /\ greeted' = ok
        /\ Answer(IF ok THEN "success" ELSE "fail", "none")
        /\ session' = IF ok THEN "reading" ELSE "over"
        /\ Done(ok)
  BY Zenon DEF ServeHandshake
<1>3. UNCHANGED <<ioVars, clientVars, expect, header, filename, length, bytes,
                  damaged, refused>>
  BY DEF ServeHandshake, parseVars
<1>. DEFINE st == IF ok THEN "success" ELSE "fail"
            a == [status |-> st, body |-> "none"]
<1>4. /\ a \in AnswerMessage /\ answers' \in Seq(AnswerMessage)
      /\ answers' = Append(answers, a)
  <2>1. st \in Result
    BY DEF Result
  <2>2. answers' = Append(answers, a)
    BY <1>2 DEF Answer
  <2>. HIDE DEF st
  <2>. QED
    BY <2>1, <2>2, Answers
<1>5. (a.status = "success" <=> ok) /\ Readable(header, a)
  BY <1>1 DEF Readable, BodyOf
<1>. HIDE DEF a
<1>6. /\ session' \in {"reading", "over"} /\ greeted' \in BOOLEAN
      /\ session' = "reading" => greeted'
  BY <1>2
<1>7. header # "exit" /\ ~refused' =>
        \E x \in AnswerMessage : /\ answers' = Append(answers, x)
                                 /\ x.status = "success" <=> ok
                                 /\ Readable(header, x)
  BY <1>4, <1>5
<1>. QED
  BY <1>1, <1>2, <1>3, <1>4, <1>6, <1>7, ServeStep

\* An answer, and nothing else of what the session keeps.
LEMMA AnswerStep ==
  ASSUME RInv, session = "serving", greeted, header # "exit",
         session' \in {"reading", "over"},
         UNCHANGED <<ioVars, clientVars, parseVars, greeted, refused>>,
         NEW ok \in BOOLEAN, Done(ok), NEW st \in Result,
         NEW body \in {"bytes", "list", "modified", "deleted", "none"},
         Answer(st, body), st = "success" <=> ok,
         st = "success" => body \in BodyOf(header)
  PROVE  RInv'
<1>. DEFINE a == [status |-> st, body |-> body]
<1>1. /\ bytes \in {"unset", "whole", "freed"} /\ refused \in BOOLEAN
      /\ greeted \in BOOLEAN
  BY DEF RInv, Session
<1>2. UNCHANGED <<expect, header, filename, length, bytes, damaged>>
  BY DEF parseVars
<1>3. /\ a \in AnswerMessage /\ answers' \in Seq(AnswerMessage)
      /\ answers' = Append(answers, a)
  BY Answers DEF Answer
<1>4. (a.status = "success" <=> ok) /\ Readable(header, a)
  BY DEF Readable
<1>. HIDE DEF a
<1>5. ~refused' =>
        \E x \in AnswerMessage : /\ answers' = Append(answers, x)
                                 /\ x.status = "success" <=> ok
                                 /\ Readable(header, x)
  BY <1>3, <1>4
<1>. QED
  BY <1>1, <1>2, <1>3, <1>5, ServeStep

LEMMA ServeReadStep ==
  ASSUME RInv, ServeRead
  PROVE  RInv'
<1>1. /\ session = "serving" /\ greeted /\ header \in {"list", "update"}
      /\ session' \in {"reading", "over"}
      /\ UNCHANGED <<ioVars, clientVars, parseVars, greeted, refused>>
  BY DEF ServeRead, Continue
<1>2. CASE (\E body \in BodyOf(header) : Answer("success", body)) /\ Done(TRUE)
  <2>1. PICK body \in BodyOf(header) : Answer("success", body)
    BY <1>2
  <2>2. body \in {"bytes", "list", "modified", "deleted", "none"}
    BY DEF BodyOf
  <2>. QED
    BY <1>1, <1>2, <2>1, <2>2, AnswerStep DEF Result
<1>3. CASE Answer(IF header = "update" THEN "empty" ELSE "fail", "none")
             /\ Done(FALSE)
  <2>. DEFINE st == IF header = "update" THEN "empty" ELSE "fail"
  <2>1. st \in Result /\ st # "success" /\ Answer(st, "none")
    BY <1>3 DEF Result
  <2>. HIDE DEF st
  <2>. QED
    BY <1>1, <1>3, <2>1, AnswerStep
<1>. QED
  BY <1>2, <1>3 DEF ServeRead

LEMMA ServeDownloadStep ==
  ASSUME RInv, ServeDownload
  PROVE  RInv'
<1>1. /\ session = "serving" /\ greeted /\ header = "download"
      /\ session' \in {"reading", "over"}
      /\ UNCHANGED <<ioVars, clientVars, parseVars, greeted, refused>>
  BY DEF ServeDownload, Continue
<1>2. "bytes" \in BodyOf(header)
  BY <1>1 DEF BodyOf
<1>3. CASE Answer("success", "bytes") /\ Done(TRUE)
  BY <1>1, <1>2, <1>3, AnswerStep DEF Result
<1>4. CASE Answer("fail", "none") /\ Done(FALSE)
  BY <1>1, <1>4, AnswerStep DEF Result
<1>. QED
  BY <1>3, <1>4 DEF ServeDownload

LEMMA ServeWriteStep ==
  ASSUME RInv, ServeWrite
  PROVE  RInv'
<1>. DEFINE twice == backup /\ status # "success"
            first == [status |-> "fail", body |-> "none"]
            all   == IF twice THEN Append(answers, first) ELSE answers
            result(ok) == [status |-> IF ok THEN "success" ELSE "fail",
                           body |-> "none"]
<1>1. /\ session = "serving" /\ greeted /\ header \in {"upload", "delete"}
      /\ refused \in BOOLEAN /\ greeted \in BOOLEAN
      /\ bytes \in {"unset", "whole", "freed"}
  BY DEF ServeWrite, RInv, Session
<1>2. /\ UNCHANGED <<ioVars, clientVars, expect, header, filename, length,
                     damaged, greeted>>
      /\ bytes' \in {"unset", "whole", "freed"}
      /\ session' \in {"reading", "over"}
  BY <1>1 DEF ServeWrite, Continue
<1>3. PICK ok \in BOOLEAN :
        /\ answers' = Append(all, result(ok))
        /\ refused' = (refused \/ twice)
        /\ Done(ok)
  BY DEF ServeWrite
<1>4. first \in AnswerMessage /\ result(ok) \in AnswerMessage
      /\ answers \in Seq(AnswerMessage)
  BY DEF AnswerMessage, Result, RInv, Asking
<1>5. (result(ok).status = "success" <=> ok) /\ Readable(header, result(ok))
  BY <1>1 DEF Readable, BodyOf
<1>. HIDE DEF twice, first, result
<1>6. all \in Seq(AnswerMessage) /\ (~twice => all = answers)
  BY <1>4
<1>. HIDE DEF all
<1>7. answers' \in Seq(AnswerMessage)
  BY <1>3, <1>4, <1>6
<1>8. refused' \in BOOLEAN /\ (refused => refused') /\ (~refused' => ~twice)
  BY <1>1, <1>3
<1>9. ~refused' =>
        \E x \in AnswerMessage : /\ answers' = Append(answers, x)
                                 /\ x.status = "success" <=> ok
                                 /\ Readable(header, x)
  BY <1>3, <1>4, <1>5, <1>6, <1>8
<1>. QED
  BY <1>1, <1>2, <1>3, <1>7, <1>8, <1>9, ServeStep

LEMMA ServeExitStep ==
  ASSUME RInv, ServeExit
  PROVE  RInv'
<1>1. /\ session = "serving" /\ session' = "over" /\ header = "exit" /\ Done(TRUE)
      /\ greeted \in BOOLEAN /\ refused \in BOOLEAN
      /\ bytes \in {"unset", "whole", "freed"} /\ answers \in Seq(AnswerMessage)
  BY DEF ServeExit, RInv, Session, Asking
<1>2. UNCHANGED <<ioVars, clientVars, expect, header, filename, length, bytes,
                  damaged, greeted, answers, refused>>
  BY DEF ServeExit, parseVars
<1>. QED
  BY <1>1, <1>2, ServeStep

-----------------------------------------------------------------------------
(* The theorems *)

LEMMA Initial == Init => RInv
<1>. SUFFICES ASSUME Init PROVE RInv
  OBVIOUS
<1>. USE DEF Init
<1>1. IInv /\ open /\ sent = 0 /\ got = 0
  BY Initially DEF IOInit
<1>2. Asking
  BY <1>1 DEF Asking
<1>3. Places
  <2>. DEFINE start == [i \in 1 .. Len(asked) + 1 |-> 0]
  <2>1. start \in [1 .. Len(asked) + 1 -> Nat] /\ start[1] = 0 /\ Len(asked) = 0
    OBVIOUS
  <2>. HIDE DEF start
  <2>2. Starts(start, asked)
    BY <2>1 DEF Starts
  <2>3. Streaming(start, asked, stream, todo)
    BY <2>1 DEF Streaming
  <2>4. Reading(start) /\ Serving(start)
    BY <1>1, <2>1 DEF Reading, Serving, AtStart, Current, Before
  <2>5. Len(stream) = sent
    BY <1>1
  <2>. QED
    BY <2>2, <2>3, <2>4, <2>5 DEF Places
<1>4. Damage /\ Session /\ Executing
  <2>1. /\ session = "reading" /\ header = "handshake" /\ filename = NoName
        /\ expect = [f |-> "version", size |-> 2, left |-> 2] /\ length = -1
        /\ bytes = "unset" /\ ~damaged /\ executed = << >> /\ Len(executed) = 0
        /\ {damaged, refused, greeted} \subseteq BOOLEAN
    BY DEF Unset
  <2>. HIDE DEF Init
  <2>2. Damage
    BY <2>1 DEF Damage
  <2>3. Session
    BY <2>1 DEF Session, FieldName, Type
  <2>4. Executing
    BY <1>2, <2>1 DEF Executing, Asking
  <2>. QED
    BY <2>2, <2>3, <2>4
<1>5. InStep
  <2>1. Len(asked) = 0 /\ Len(told) = 0 /\ Len(executed) = 0
    OBVIOUS
  <2>. QED
    BY <2>1 DEF InStep, Truth, Ahead, Current, Turns
<1>. QED
  BY <1>1, <1>2, <1>3, <1>4, <1>5 DEF RInv

LEMMA AskedWellFormed ==
  /\ \A type \in {"handshake", "list", "exit", "update"} : WellFormed(Ask(type))
  /\ \A n \in Names : WellFormed(AskFor("download", n))
  /\ \A r \in Tasks : WellFormed(r)
<1>. USE DEF WellFormed, Request, Type, Named, Ask, AskFor, Upload
<1>1. \A type \in {"handshake", "list", "exit", "update"} : WellFormed(Ask(type))
  OBVIOUS
<1>2. ASSUME NEW n \in Names
      PROVE  /\ WellFormed(AskFor("download", n)) /\ WellFormed(AskFor("delete", n))
             /\ \A l \in Nat : WellFormed(Upload(n, l))
  OBVIOUS
<1>. HIDE DEF WellFormed, Ask, AskFor, Upload
<1>3. ASSUME NEW r \in Tasks PROVE WellFormed(r)
  <2>1. CASE r.length \in Nat /\ \E n \in Names : r = Upload(n, r.length)
    BY <1>2, <2>1
  <2>2. CASE \E n \in Names : r \in {AskFor("download", n), AskFor("delete", n)}
    BY <1>2, <2>2
  <2>3. CASE r \in {Ask("list"), Ask("exit")}
    BY <1>1, <2>3
  <2>. QED
    BY <2>1, <2>2, <2>3, RequestAssumption
<1>. QED
  BY <1>1, <1>2, <1>3

LEMMA RequestStep ==
  ASSUME RInv, Handshake \/ Task \/ Update \/ EventDownload
  PROVE  RInv'
<1>1. asked = << >> => next = "handshake"
  BY DEF RInv, Asking
<1>2. CASE Handshake
  <2>1. Begin(Ask("handshake")) /\ WellFormed(Ask("handshake"))
    BY <1>2, AskedWellFormed DEF Handshake
  <2>2. Ask("handshake").type = "handshake"
    BY DEF Ask
  <2>. QED
    BY <2>1, <2>2, BeginStep
<1>3. CASE Task
  <2>1. PICK r \in Tasks : Begin(r) /\ next = "task"
    BY <1>3 DEF Task
  <2>. QED
    BY <1>1, <2>1, AskedWellFormed, BeginStep
<1>4. CASE Update
  <2>1. Begin(Ask("update")) /\ next \in {"task", "update"}
        /\ WellFormed(Ask("update"))
    BY <1>4, AskedWellFormed DEF Update
  <2>. QED
    BY <1>1, <2>1, BeginStep
<1>5. CASE EventDownload
  <2>1. PICK n \in Names : Begin(AskFor("download", n)) /\ next = "event"
    BY <1>5 DEF EventDownload
  <2>. QED
    BY <1>1, <2>1, AskedWellFormed, BeginStep
<1>. QED
  BY <1>2, <1>3, <1>4, <1>5

LEMMA SameAll == ASSUME RInv, UNCHANGED rqVars PROVE RInv'
<1>1. UNCHANGED <<ioVars, clientVars, parseVars, sessionVars, given>>
  BY DEF rqVars
<1>2. UNCHANGED <<client, next, asked, told, todo, stream, expect, header,
                  filename, length, bytes, damaged, misread, session, greeted,
                  answers, executed, refused, sent, got, open>>
  BY <1>1 DEF ioVars, clientVars, parseVars, sessionVars
<1>3. IInv' /\ [IONext]_ioVars
  BY <1>1, Inductive DEF RInv
<1>4. Asking' /\ Places' /\ Damage' /\ Session' /\ Executing'
  BY <1>1, <1>2, <1>3, SameAsking, SamePlaces, SameDamage, SameSession,
     SameExecuting DEF RInv
<1>5. InStep'
  BY <1>2 DEF RInv, InStep, Truth, Ahead, Current, Turns, ExitSent, OneOpen
<1>. QED
  BY <1>3, <1>4, <1>5 DEF RInv

LEMMA Invariance == RInv /\ [Next]_rqVars => RInv'
<1>. SUFFICES ASSUME RInv, [Next]_rqVars PROVE RInv'
  OBVIOUS
<1>1. CASE ClientStep
  BY <1>1, RequestStep, WriteByteStep, SendStep, ReceiveStep, LoseStep
     DEF ClientStep
<1>2. CASE SessionStep
  <2>1. CASE ServerEnds \/ ReadForever
    <3>1. /\ session # "over" /\ [IONext]_ioVars
          /\ session' = "over" \/ (session' = "hung" /\ greeted)
          /\ UNCHANGED <<open, clientVars, sent, got, expect, header, filename,
                         length, bytes, damaged, greeted, answers, executed,
                         refused>>
      BY <2>1 DEF ServerEnds, ReadForever, ioVars, parseVars
    <3>. QED
      BY <3>1, StopStep
  <2>2. CASE \/ ServeHandshake \/ ServeRead \/ ServeDownload
             \/ ServeWrite \/ ServeExit
    BY <2>2, ServeHandshakeStep, ServeReadStep, ServeDownloadStep,
       ServeWriteStep, ServeExitStep
  <2>3. CASE ReadByte \/ Fill \/ ReadFails
    BY <2>3, ReadByteStep, FillStep, ReadFailsStep
  <2>. QED
    BY <1>2, <2>1, <2>2, <2>3 DEF SessionStep
<1>3. CASE ClientEnds
  BY <1>3, ClientEndsStep
<1>4. CASE UNCHANGED rqVars
  BY <1>4, SameAll
<1>. QED
  BY <1>1, <1>2, <1>3, <1>4 DEF Next

LEMMA Always == Spec => []RInv
BY Initial, Invariance, PTL DEF Spec

\* Client and session keep to the values their variables are declared for, and
\* the stream has as many bytes as were written.
THEOREM RequestsTyped == Spec => []TypeOK
<1>1. RInv => TypeOK
  BY DEF RInv, IInv, Asking, Places, Session, TypeOK
<1>. QED
  BY <1>1, Always, PTL

\* What a session executes is what its client asked for, in that order and with
\* that data, whatever the names, the files, the size of a word and of the
\* buffers, and wherever the client's process ends (protocol.cpp:21-87 of the
\* server).
THEOREM ExecutesAsAsked == Spec => []ExecutedAsAsked
<1>1. RInv /\ CutOnlyAtEnd => ExecutedAsAsked
  <2>. SUFFICES ASSUME RInv, CutOnlyAtEnd, NEW i \in 1 .. Len(executed)
                PROVE  /\ i <= Len(asked) /\ executed[i].type = asked[i].type
                       /\ \/ /\ executed[i].name = asked[i].name
                             /\ executed[i].length = asked[i].length
                             /\ executed[i].whole
                          \/ /\ damaged /\ ~open /\ i = Len(executed)
                             /\ refused \/ i = Len(asked)
    BY DEF ExecutedAsAsked
  <2>1. i <= Len(asked)
    BY Lengths DEF RInv, Executing
  <2>2. /\ executed[i].type = asked[i].type
        /\ \/ AsAsked(i)
           \/ /\ damaged /\ i = Len(executed)
              /\ refused \/ i = Len(asked)
    BY DEF RInv, Executing
  <2>. QED
    BY <2>1, <2>2 DEF AsAsked, CutOnlyAtEnd
<1>. QED
  BY <1>1, Always, DamageOnlyAtEnd, PTL

\* What a task of the client is told is what became of it, as long as the
\* session has answered no upload twice: a success was one, unless it is a
\* list's, and a failure was one, unless it is a download's, for these two
\* depend on more than the server's answer (network.cpp:199-308,
\* server.cpp:95-243).
THEOREM TellsTheTruth == Spec => []ToldTheTruth
<1>1. RInv => ToldTheTruth
  BY DEF RInv, InStep, Truth, Right, Result, ToldTheTruth
<1>. QED
  BY <1>1, Always, PTL
=============================================================================
