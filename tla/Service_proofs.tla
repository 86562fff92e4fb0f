--------------------------- MODULE Service_proofs ---------------------------
(***************************************************************************)
(* Proofs about Service for any clients, servers, users and limits.        *)
(***************************************************************************)
EXTENDS Service, FiniteSetTheorems, SequenceTheorems, TLAPS

\* A client that is about to connect has a socket left and an address.
Ready ==
  \A c \in Clients :
    /\ client[c] \in {"waiting", "connecting"} => files[c] < ClientFiles
    /\ client[c] = "connecting" => target[c] \in Address

IInv == TypeOK /\ Ready

-----------------------------------------------------------------------------
(* The line of the DNS *)

LEMMA FieldsType == \A w : Fields(w) \in {1, 3}
  BY DEF Fields

LEMMA FirstType ==
  ASSUME NEW l \in Seq(Entry), l # << >>
  PROVE  l[1].from \in Clients \cup Servers /\ l[1].fields \in 0 .. 3
<1>1. l[1] \in Entry
  OBVIOUS
<1>. QED
  BY <1>1 DEF Entry

\* A process joins the line.
LEMMA CallOK ==
  ASSUME LineOK, NEW w \in Clients \cup Servers, Call(w), taken' = taken
  PROVE  LineOK'
<1> DEFINE e == [from |-> w, fields |-> Fields(w)]
<1>1. e \in Entry
  BY FieldsType DEF Entry
<1>2. line' = Append(line, e)
  BY DEF Call
<1> HIDE DEF e
<1>3. line' \in Seq(Entry)
  BY <1>1, <1>2 DEF LineOK
<1>4. Len(line') = Len(line) + 1 /\ line'[Len(line) + 1] = e
      /\ \A i \in 1 .. Len(line) : line'[i] = line[i]
  BY <1>1, <1>2 DEF LineOK
<1>5. \A i \in 1 .. Len(line') : line'[i].fields <= Fields(line'[i].from)
  <2>. SUFFICES ASSUME NEW i \in 1 .. Len(line')
                PROVE  line'[i].fields <= Fields(line'[i].from)
    OBVIOUS
  <2>1. CASE i \in 1 .. Len(line)
    BY <2>1, <1>4 DEF LineOK
  <2>2. CASE i = Len(line) + 1
    <3>1. line'[i].fields = Fields(w) /\ line'[i].from = w
      BY <2>2, <1>4 DEF e
    <3>. QED
      BY <3>1, FieldsType
  <2>. QED
    BY <2>1, <2>2, <1>4 DEF LineOK
<1>6. line' # << >>
  BY <1>4, <1>3 DEF LineOK
<1>7. taken' <= line'[1].fields
  <2>1. CASE line = << >>
    BY <2>1, <1>4, FieldsType DEF LineOK, e
  <2>2. CASE line # << >>
    BY <2>2, <1>4 DEF LineOK
  <2>. QED
    BY <2>1, <2>2
<1>. QED
  BY <1>3, <1>5, <1>6, <1>7 DEF LineOK

\* A process ends, and what it had sent is cut.
LEMMA TearOK ==
  ASSUME LineOK, NEW w, Tear(w), taken' = taken
  PROVE  LineOK'
<1>1. PICK n \in [1 .. Len(line) -> 0 .. 3] :
        /\ \A i \in 1 .. Len(line) :
             IF line[i].from = w
               THEN n[i] <= line[i].fields /\ (i = 1 => n[i] >= taken)
               ELSE n[i] = line[i].fields
        /\ line' = [i \in 1 .. Len(line) |-> [line[i] EXCEPT !.fields = n[i]]]
  BY DEF Tear
<1>2. Len(line) \in Nat /\ \A i \in 1 .. Len(line) : line[i] \in Entry
  BY DEF LineOK
<1>3. \A i \in 1 .. Len(line) :
        /\ [line[i] EXCEPT !.fields = n[i]] \in Entry
        /\ line'[i].from = line[i].from /\ line'[i].fields = n[i]
  BY <1>1, <1>2 DEF Entry
<1>4. line' \in Seq(Entry)
  BY <1>1, <1>2, <1>3
<1>5. Len(line') = Len(line)
  BY <1>1, <1>2
<1>6. \A i \in 1 .. Len(line') : line'[i].fields <= Fields(line'[i].from)
  <2>. SUFFICES ASSUME NEW i \in 1 .. Len(line)
                PROVE  line'[i].fields <= Fields(line'[i].from)
    BY <1>5
  <2>1. n[i] <= line[i].fields /\ n[i] \in 0 .. 3 /\ line[i].fields \in 0 .. 3
    BY <1>1, <1>2 DEF Entry
  <2>2. line[i].fields <= Fields(line[i].from)
    BY DEF LineOK
  <2>. QED
    <3>1. line'[i].from = line[i].from /\ line'[i].fields = n[i]
      BY <1>3
    <3>. QED
      BY <3>1, <2>1, <2>2, FieldsType
<1>7. line' = << >> <=> line = << >>
  BY <1>4, <1>5 DEF LineOK
<1>8. line # << >> => taken <= line'[1].fields
  <2>. SUFFICES ASSUME line # << >> PROVE taken <= line'[1].fields
    OBVIOUS
  <2>1. 1 \in 1 .. Len(line)
    BY DEF LineOK
  <2>. QED
    BY <2>1, <1>1, <1>3 DEF LineOK
<1>. QED
  BY <1>4, <1>6, <1>7, <1>8 DEF LineOK

\* The DNS is done with the first of the line.
LEMMA HangUpOK ==
  ASSUME LineOK, line # << >>, HangUp
  PROVE  LineOK'
<1>1. /\ line' \in Seq(Entry)
      /\ Len(line') = Len(line) - 1 /\ Len(line) \in Nat
      /\ \A i \in 1 .. Len(line') : line'[i] = line[i + 1]
  <2>1. line \in Seq(Entry) /\ line' = Tail(line)
    BY DEF LineOK, HangUp
  <2>. QED
    BY <2>1, HeadTailProperties
<1>2. \A i \in 1 .. Len(line') : line'[i].fields <= Fields(line'[i].from)
  <2>. SUFFICES ASSUME NEW i \in 1 .. Len(line')
                PROVE  line'[i].fields <= Fields(line'[i].from)
    OBVIOUS
  <2>1. i + 1 \in 1 .. Len(line) /\ line'[i] = line[i + 1]
    BY <1>1
  <2>2. line[i + 1].fields <= Fields(line[i + 1].from)
    BY <2>1 DEF LineOK
  <2>. QED
    BY <2>1, <2>2
<1>3. line' # << >> => 0 <= line'[1].fields
  BY <1>1, FirstType
<1>4. taken' = 0
  BY DEF HangUp
<1>. QED
  BY <1>1, <1>2, <1>3, <1>4 DEF LineOK

-----------------------------------------------------------------------------
(* Types *)

\* What a session makes of its connection.
States == Held \cup {"backlog"}
ConnType == {Unused, Over} \cup [at : Servers, is : States]

LEMMA ConnFacts ==
  ASSUME TypeOK, NEW x \in Socket
  PROVE  /\ conn \in [Socket -> ConnType]
         /\ conn[x].is \in States => conn[x].at \in Servers
         /\ \A st \in States : conn[x].is \in States =>
              [conn EXCEPT ![x].is = st] \in [Socket -> ConnType]
         /\ [conn EXCEPT ![x] = Over] \in [Socket -> ConnType]
<1>1. conn \in [Socket -> ConnType]
  BY DEF TypeOK, ConnType, States
<1>2. conn[x] \in ConnType
  BY <1>1
<1>3. conn[x].is \in States => conn[x] \in [at : Servers, is : States]
  BY <1>2 DEF ConnType, States, Held, Listed, Unused, Over
<1>4. \A st \in States : conn[x].is \in States =>
        [conn[x] EXCEPT !.is = st] \in ConnType
  BY <1>3 DEF ConnType
<1>5. Over \in ConnType
  BY DEF ConnType
<1>. QED
  BY <1>1, <1>3, <1>4, <1>5

LEMMA TypeInitially == Init => IInv
<1>. SUFFICES ASSUME Init PROVE IInv
  OBVIOUS
<1>1. LineOK
  BY DEF Init, LineOK
<1>2. dns \in Address
  BY ConfiguredAssumption DEF Init, Address
<1>3. TypeOK
  BY <1>1, <1>2, LimitsAssumption DEF Init, TypeOK
<1>4. Ready
  BY DEF Init, Ready
<1>. QED
  BY <1>3, <1>4 DEF IInv

LEMMA EventOK ==
  ASSUME TypeOK, Event
  PROVE  events' \in 0 .. MaxEvents
BY LimitsAssumption DEF TypeOK, Event

\* A connection is made, accepted, admitted or over.
LEMMA ConnStepType ==
  ASSUME TypeOK,
         \/ UNCHANGED conn
         \/ \E x \in Socket : IsOver(x)
         \/ \E x \in Socket, st \in States :
              conn[x].is \in States /\ Becomes(x, st)
         \/ \E s \in Servers : Ends(s)
  PROVE  conn' \in [Socket -> ConnType]
<1>0. conn \in [Socket -> ConnType]
  BY DEF TypeOK, ConnType, States
<1>1. CASE UNCHANGED conn
  BY <1>0, <1>1
<1>2. CASE \E x \in Socket : IsOver(x)
  BY <1>2, ConnFacts DEF IsOver
<1>3. CASE \E x \in Socket, st \in States : conn[x].is \in States /\ Becomes(x, st)
  BY <1>3, ConnFacts DEF Becomes
<1>4. CASE \E s \in Servers : Ends(s)
  <2>1. Over \in ConnType
    BY DEF ConnType
  <2>. QED
    BY <1>0, <1>4, <2>1 DEF Ends
<1>. QED
  BY <1>1, <1>2, <1>3, <1>4

LEMMA DnsType ==
  ASSUME IInv, DnsStep \/ DnsEnds
  PROVE  IInv'
<1>. USE DEF IInv
<1>1. CASE DnsRead
  <2>1. LineOK'
    <3>1. LineOK /\ line # << >> /\ taken' = taken + 1 /\ line' = line
          /\ taken < line[1].fields /\ taken + 1 < Fields(Caller)
      BY <1>1 DEF DnsRead, TypeOK
    <3>2. line \in Seq(Entry) /\ line[1].fields \in 0 .. 3 /\ taken \in 0 .. 2
      BY <3>1, FirstType DEF LineOK
    <3>3. taken' \in 0 .. 2 /\ taken' <= line[1].fields
      BY <3>1, <3>2, FieldsType
    <3>. QED
      BY <3>1, <3>3 DEF LineOK
  <2>. QED
    BY <1>1, <2>1 DEF DnsRead, TypeOK, Ready, serverVars, clientVars
<1>2. CASE DnsSet
  <2>1. LineOK'
    BY <1>2, HangUpOK DEF DnsSet, TypeOK
  <2>. QED
    BY <1>2, <2>1 DEF DnsSet, TypeOK, Ready, Address, serverVars, clientVars
<1>3. CASE DnsAnswer
  <2>1. LineOK'
    BY <1>3, HangUpOK DEF DnsAnswer, TypeOK
  <2>2. CASE client[Caller] = "waiting"
    BY <1>3, <2>1, <2>2 DEF DnsAnswer, TypeOK, Ready, serverVars
  <2>3. CASE client[Caller] # "waiting"
    BY <1>3, <2>1, <2>3 DEF DnsAnswer, TypeOK, Ready, serverVars
  <2>. QED
    BY <2>2, <2>3
<1>4. CASE DnsDrops
  <2>1. LineOK'
    BY <1>4, HangUpOK DEF DnsDrops, TypeOK
  <2>. QED
    BY <1>4, <2>1 DEF DnsDrops, TypeOK, Ready, serverVars, clientVars
<1>5. CASE DnsEnds
  <2>1. LineOK'
    BY <1>5 DEF DnsEnds, LineOK
  <2>. QED
    BY <1>5, <2>1 DEF DnsEnds, TypeOK, Ready, serverVars
<1>. QED
  BY <1>1, <1>2, <1>3, <1>4, <1>5 DEF DnsStep

LEMMA ServerType ==
  ASSUME IInv, NEW s \in Servers,
         ServerStep(s) \/ Start(s) \/ Elected(s) \/ ServerEnds(s)
  PROVE  IInv'
<1>. USE DEF IInv, dnsVars, serverVars, clientVars
<1>1. CASE Register(s)
  <2>1. LineOK'
    BY <1>1, CallOK DEF Register, TypeOK, LineOK
  <2>. QED
    BY <1>1, <2>1 DEF Register, TypeOK, Ready
<1>2. CASE Listen(s)
  BY <1>2 DEF Listen, TypeOK, LineOK, Ready
<1>3. CASE Accept(s)
  <2>1. conn' \in [Socket -> ConnType]
    <3>1. CASE \E x \in At(s, {"backlog"}) : Becomes(x, "new")
      BY <3>1, ConnStepType DEF At, States, Held
    <3>2. CASE conn' = [x \in Socket |-> IF x \in At(s, {"backlog"})
                                           THEN Over ELSE conn[x]]
      BY <3>2, ConnStepType DEF TypeOK, ConnType, States
    <3>. QED
      BY <1>3, <3>1, <3>2 DEF Accept
  <2>. QED
    BY <1>3, <2>1 DEF Accept, TypeOK, LineOK, Ready, ConnType, States
<1>4. CASE Start(s)
  <2>1. events' \in 0 .. MaxEvents
    BY <1>4, EventOK DEF Start, Begins
  <2>. QED
    BY <1>4, <2>1 DEF Start, Begins, TypeOK, LineOK, Ready
<1>5. CASE Elected(s)
  <2>1. LineOK'
    BY <1>5, CallOK DEF Elected, TypeOK, LineOK
  <2>2. events' \in 0 .. MaxEvents
    BY <1>5, EventOK DEF Elected, Begins
  <2>. QED
    BY <1>5, <2>1, <2>2 DEF Elected, Begins, TypeOK, Ready
<1>6. CASE ServerEnds(s)
  <2>1. LineOK'
    BY <1>6, TearOK DEF ServerEnds, TypeOK
  <2>2. conn' \in [Socket -> ConnType]
    BY <1>6, ConnStepType DEF ServerEnds
  <2>. QED
    BY <1>6, <2>1, <2>2 DEF ServerEnds, Ends, TypeOK, Ready, ConnType, States
<1>. QED
  BY <1>1, <1>2, <1>3, <1>4, <1>5, <1>6 DEF ServerStep

LEMMA SessionType ==
  ASSUME IInv, NEW x \in Socket, SessionStep(x)
  PROVE  IInv'
<1>. USE DEF IInv, dnsVars, serverVars, clientVars
<1>1. conn' \in [Socket -> ConnType]
  <2>1. CASE Admit(x)
    <3>1. conn[x].is \in States /\ conn[x].at \in Servers
      BY <2>1, ConnFacts DEF Admit, States, Held
    <3>. QED
      BY <2>1, <3>1, ConnStepType DEF Admit, States, Held, Listed
  <2>2. CASE HandshakeFails(x) \/ SessionEnds(x)
    BY <2>2, ConnStepType DEF HandshakeFails, SessionEnds
  <2>3. CASE Breaks(x)
    BY <2>3, ConnStepType DEF Breaks, States, Held, Listed
  <2>. QED
    BY <2>1, <2>2, <2>3 DEF SessionStep
<1>2. server' \in [Servers -> {"none", "starting", "registered", "listening",
                               "elected", "deaf", "ended"}]
  BY DEF SessionStep, Admit, Ends, HandshakeFails, SessionEnds, Breaks, TypeOK
<1>3. UNCHANGED <<dnsVars, events, clientVars>>
  BY DEF SessionStep, Admit, HandshakeFails, SessionEnds, Breaks
<1>. QED
  BY <1>1, <1>2, <1>3 DEF TypeOK, LineOK, Ready, ConnType, States

LEMMA ClientType ==
  ASSUME IInv, NEW c \in Clients,
         ClientStep(c) \/ Leaves(c) \/ ExitTask(c) \/ ClientEnds(c)
  PROVE  IInv'
<1>. USE DEF IInv, dnsVars, serverVars
<1>1. CASE AskDns(c)
  <2>1. LineOK'
    BY <1>1, CallOK DEF AskDns, TypeOK, LineOK
  <2>. QED
    BY <1>1, <2>1 DEF AskDns, Goes, TypeOK, Ready
<1>2. CASE Connect(c)
  <2>1. files'[c] \in 1 .. ClientFiles /\ target[c] \in Address
    BY <1>2, LimitsAssumption DEF Connect, TypeOK, Ready
  <2>2. conn' \in [Socket -> ConnType]
    <3>1. <<c, files'[c]>> \in Socket
      BY <2>1 DEF Socket
    <3>2. [at |-> target[c].ip, is |-> "backlog"] \in ConnType
      BY <2>1 DEF ConnType, States, Address
    <3>. QED
      BY <1>2, <3>1, <3>2, ConnStepType DEF Connect, TypeOK, ConnType, States
  <2>3. files' \in [Clients -> 0 .. ClientFiles]
    BY <1>2, <2>1 DEF Connect, TypeOK
  <2>. QED
    BY <1>2, <2>2, <2>3 DEF Connect, Goes, TypeOK, LineOK, Ready, ConnType, States
<1>3. CASE Greeted(c)
  BY <1>3 DEF Greeted, Goes, TypeOK, LineOK, Ready
<1>4. CASE MeetsEnd(c) \/ Leaves(c)
  <2>1. events' \in 0 .. MaxEvents
    BY <1>4, EventOK DEF MeetsEnd, Leaves, TypeOK
  <2>. QED
    BY <1>4, <2>1 DEF MeetsEnd, Leaves, Goes, TypeOK, LineOK, Ready
<1>5. CASE ExitTask(c)
  <2>1. conn' = conn \/ Current(c) \in Socket
    BY <1>5 DEF ExitTask, IsOver, TypeOK
  <2>2. conn' \in [Socket -> ConnType]
    BY <1>5, <2>1, ConnStepType DEF ExitTask
  <2>3. events' \in 0 .. MaxEvents
    BY <1>5, EventOK DEF ExitTask
  <2>. QED
    BY <1>5, <2>2, <2>3 DEF ExitTask, Goes, TypeOK, LineOK, Ready, ConnType, States
<1>6. CASE ClientEnds(c)
  <2>1. LineOK'
    BY <1>6, TearOK DEF ClientEnds, TypeOK
  <2>2. conn' = conn \/ (Current(c) \in Socket /\ Becomes(Current(c), "cut"))
    BY <1>6 DEF ClientEnds, Becomes, TypeOK
  <2>3. conn' \in [Socket -> ConnType]
    BY <1>6, <2>2, ConnStepType DEF ClientEnds, States, Held, Listed
  <2>. QED
    BY <1>6, <2>1, <2>3 DEF ClientEnds, Goes, TypeOK, Ready, ConnType, States
<1>. QED
  BY <1>1, <1>2, <1>3, <1>4, <1>5, <1>6 DEF ClientStep

\* Every variable keeps its type, and no client makes a socket too many.
THEOREM TypeCorrect == Spec => []TypeOK
<1>1. IInv /\ [Next]_vars => IInv'
  <2>. SUFFICES ASSUME IInv, [Next]_vars PROVE IInv'
    OBVIOUS
  <2>1. CASE Next
    BY <2>1, DnsType, ServerType, SessionType, ClientType
       DEF Next, ProgramStep, Environment
  <2>2. CASE UNCHANGED vars
    BY <2>2 DEF vars, IInv, TypeOK, LineOK, Ready
  <2>. QED
    BY <2>1, <2>2
<1>2. IInv => TypeOK
  BY DEF IInv
<1>. QED
  BY TypeInitially, <1>1, <1>2, PTL DEF Spec

-----------------------------------------------------------------------------
(* The limit of a user *)

LEMMA FiniteSessions ==
  \A s, u : IsFiniteSet(OfUser(s, u)) /\ Cardinality(OfUser(s, u)) \in Nat
<1>1. IsFiniteSet(Socket)
  <2>1. IsFiniteSet(Clients) /\ 1 \in Int /\ ClientFiles \in Int
    BY ClientsAssumption, LimitsAssumption
  <2>2. IsFiniteSet(1 .. ClientFiles)
    BY <2>1, FS_Interval
  <2>. QED
    BY <2>1, <2>2, FS_Product, Zenon DEF Socket
<1>. SUFFICES ASSUME NEW s, NEW u
              PROVE  IsFiniteSet(OfUser(s, u)) /\ Cardinality(OfUser(s, u)) \in Nat
  OBVIOUS
<1>2. OfUser(s, u) \subseteq Socket
  BY DEF OfUser, At
<1>. QED
  BY <1>1, <1>2, FS_Subset, FS_CardinalityType

\* No session joins a list: none of its sockets is listed that was not.
LEMMA FewerListed ==
  ASSUME LimitKept,
         \A x \in Socket : conn'[x].is \in Listed =>
            conn[x].is \in Listed /\ conn'[x].at = conn[x].at
  PROVE  LimitKept'
<1>. SUFFICES ASSUME NEW s \in Servers, NEW c \in Clients
              PROVE  Cardinality(OfUser(s, User[c])') <= MaxActive
  BY DEF LimitKept, OfUser, At
<1>1. OfUser(s, User[c])' \subseteq OfUser(s, User[c])
  BY DEF OfUser, At
<1>2. Cardinality(OfUser(s, User[c])') \in Nat
      /\ Cardinality(OfUser(s, User[c])') <= Cardinality(OfUser(s, User[c]))
  BY <1>1, FiniteSessions, FS_Subset, FS_CardinalityType
<1>3. Cardinality(OfUser(s, User[c])) <= MaxActive
  BY DEF LimitKept
<1>. QED
  BY <1>2, <1>3, FiniteSessions, LimitsAssumption

LEMMA RoomForOne ==
  ASSUME NEW S, NEW T, NEW x, T = S \cup {x}, IsFiniteSet(S),
         Cardinality(S) < MaxActive
  PROVE  Cardinality(T) <= MaxActive
<1>1. Cardinality(S) \in Nat
  BY FS_CardinalityType
<1>2. Cardinality(T) = Cardinality(S) \/ Cardinality(T) = Cardinality(S) + 1
  BY FS_AddElement
<1>. QED
  BY <1>1, <1>2, LimitsAssumption

\* One session joins the list of its server, which had room for its user.
LEMMA OneListed ==
  ASSUME TypeOK, LimitKept, NEW x \in Socket, conn[x].is = "new",
         Becomes(x, "listed"),
         Cardinality(OfUser(conn[x].at, User[x[1]])) < MaxActive
  PROVE  LimitKept'
<1>. SUFFICES ASSUME NEW s \in Servers, NEW c \in Clients
              PROVE  Cardinality(OfUser(s, User[c])') <= MaxActive
  BY DEF LimitKept, OfUser, At
<1>0. conn \in [Socket -> ConnType] /\ conn[x] \in [at : Servers, is : States]
  <2>1. conn \in [Socket -> ConnType] /\ conn[x] \in ConnType
    BY ConnFacts
  <2>. QED
    BY <2>1 DEF ConnType, Unused, Over
<1>1. conn'[x] = [conn[x] EXCEPT !.is = "listed"]
      /\ \A y \in Socket \ {x} : conn'[y] = conn[y]
  BY <1>0 DEF Becomes
<1>2. conn'[x].at = conn[x].at /\ conn'[x].is = "listed"
  BY <1>0, <1>1
<1>5. \A y \in Socket \ {x} : y \in OfUser(s, User[c])' <=> y \in OfUser(s, User[c])
  BY <1>1 DEF OfUser, At
<1>6. x \notin OfUser(s, User[c])
  BY DEF OfUser, At, Listed
<1>3. CASE s = conn[x].at /\ User[c] = User[x[1]]
  <2>1. OfUser(s, User[c])' = OfUser(s, User[c]) \cup {x}
    BY <1>5, <1>6, <1>3, <1>2 DEF OfUser, At, Listed
  <2>2. Cardinality(OfUser(s, User[c])) < MaxActive
        /\ IsFiniteSet(OfUser(s, User[c]))
    BY <1>3, FiniteSessions
  <2>. QED
    BY <2>1, <2>2, RoomForOne
<1>4. CASE ~(s = conn[x].at /\ User[c] = User[x[1]])
  <2>1. x \notin OfUser(s, User[c]) /\ x \notin OfUser(s, User[c])'
    BY <1>2, <1>4, <1>6 DEF OfUser, At
  <2>2. OfUser(s, User[c])' = OfUser(s, User[c])
    BY <1>5, <2>1 DEF OfUser, At
  <2>. QED
    BY <2>2 DEF LimitKept
<1>. QED
  BY <1>3, <1>4

\* No user has more sessions at a server than the limit, for any number of
\* users, clients, servers and connections left behind, and whichever processes
\* end (client.cpp:44-104).
THEOREM LimitAlwaysKept == Spec => []LimitKept
<1>1. Init => LimitKept
  <2>. SUFFICES ASSUME Init, NEW s \in Servers, NEW c \in Clients
                PROVE  Cardinality(OfUser(s, User[c])) <= MaxActive
    BY DEF LimitKept
  <2>1. OfUser(s, User[c]) = {}
    BY DEF Init, OfUser, At, Unused, Listed
  <2>. QED
    BY <2>1, FS_EmptySet, LimitsAssumption
<1>2. TypeOK /\ LimitKept /\ [Next]_vars => LimitKept'
  <2>. SUFFICES ASSUME TypeOK, LimitKept, [Next]_vars
                PROVE  LimitKept'
    OBVIOUS
  <2>0. conn \in [Socket -> ConnType]
    BY DEF TypeOK, ConnType, States
  <2>1. CASE UNCHANGED conn
    BY <2>1, FewerListed
  <2>2. CASE \E s \in Servers : Accept(s)
    <3>. PICK s \in Servers : Accept(s)
      BY <2>2
    <3>1. CASE \E x \in At(s, {"backlog"}) : Becomes(x, "new")
      BY <2>0, <3>1, FewerListed DEF Becomes, At, Listed
    <3>2. CASE conn' = [x \in Socket |-> IF x \in At(s, {"backlog"})
                                           THEN Over ELSE conn[x]]
      BY <3>2, FewerListed DEF Listed, Over
    <3>. QED
      BY <3>1, <3>2 DEF Accept
  <2>3. CASE \E s \in Servers : ServerEnds(s)
    BY <2>3, FewerListed DEF ServerEnds, Ends, Over, Listed
  <2>4. CASE \E x \in Socket : SessionStep(x)
    <3>. PICK x \in Socket : SessionStep(x)
      BY <2>4
    <3>1. CASE Admit(x) /\ Becomes(x, "listed")
               /\ Cardinality(OfUser(conn[x].at, User[x[1]])) < MaxActive
      BY <3>1, OneListed DEF Admit
    <3>2. CASE Becomes(x, "refused")
      BY <2>0, <3>2, FewerListed DEF Becomes, Listed
    <3>3. CASE Ends(conn[x].at)
      BY <3>3, FewerListed DEF Ends, Over, Listed
    <3>4. CASE IsOver(x)
      BY <2>0, <3>4, FewerListed DEF IsOver, Over, Listed
    <3>5. CASE Breaks(x)
      BY <2>0, <3>5, FewerListed DEF Breaks, Becomes, Listed
    <3>. QED
      BY <3>1, <3>2, <3>3, <3>4, <3>5
         DEF SessionStep, Admit, HandshakeFails, SessionEnds
  <2>5. CASE \E c \in Clients : Connect(c)
    BY <2>0, <2>1, <2>5, FewerListed DEF Connect, Listed
  <2>6. CASE \E c \in Clients : ExitTask(c)
    BY <2>0, <2>6, FewerListed DEF ExitTask, IsOver, Over, Listed
  <2>7. CASE \E c \in Clients : ClientEnds(c)
    <3>. PICK c \in Clients : ClientEnds(c)
      BY <2>7
    <3>1. CASE conn[Current(c)].is = "listed" /\ Becomes(Current(c), "cut")
      BY <2>0, <3>1, FewerListed DEF Becomes, Listed
    <3>. QED
      BY <2>1, <3>1 DEF ClientEnds
  <2>8. \/ UNCHANGED conn
        \/ \E s \in Servers : Accept(s) \/ ServerEnds(s)
        \/ \E x \in Socket : SessionStep(x)
        \/ \E c \in Clients : Connect(c) \/ ExitTask(c) \/ ClientEnds(c)
    BY DEF Next, ProgramStep, Environment, DnsStep, ServerStep, ClientStep, vars,
       DnsRead, DnsSet, DnsAnswer, DnsDrops, DnsEnds, Register, Listen, Start,
       Elected, AskDns, Greeted, MeetsEnd, Leaves
  <2>. QED
    BY <2>1, <2>2, <2>3, <2>4, <2>5, <2>6, <2>7, <2>8
<1>. QED
  BY <1>1, <1>2, TypeCorrect, PTL DEF Spec

\* The DNS never names a mixture of two servers, for any number of servers that
\* register, and wherever in its message each of them ends (dns.cpp:126-143).
THEOREM WholeAddressAlways == Spec => []WholeAddress
<1>1. Init => WholeAddress
  BY DEF Init, WholeAddress
<1>2. WholeAddress /\ [Next]_vars => WholeAddress'
  <2>. SUFFICES ASSUME WholeAddress, [Next]_vars PROVE WholeAddress'
    OBVIOUS
  <2>1. CASE DnsSet
    BY <2>1 DEF DnsSet, WholeAddress
  <2>2. CASE ~DnsSet
    <3>1. UNCHANGED dns
      BY <2>2 DEF Next, ProgramStep, Environment, DnsStep, ServerStep, SessionStep,
         ClientStep, vars, dnsVars, DnsRead, DnsAnswer, DnsDrops, DnsEnds,
         Register, Listen, Accept, Start, Elected, ServerEnds, Admit,
         HandshakeFails, Breaks, SessionEnds, AskDns, Connect, Greeted, MeetsEnd,
         Leaves, ExitTask, ClientEnds
    <3>. QED
      BY <3>1 DEF WholeAddress
  <2>. QED
    BY <2>1, <2>2
<1>. QED
  BY <1>1, <1>2, PTL DEF Spec
=============================================================================
