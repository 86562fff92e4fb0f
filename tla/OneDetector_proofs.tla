------------------------- MODULE OneDetector_proofs -------------------------
(***************************************************************************)
(* More about RingElection when startup has left no deferred update and    *)
(* one server alone can notice that the primary is gone (the others do so  *)
(* only after they have dropped it): there is one election at a time, one  *)
(* announcement of its winner, and one running primary.                    *)
(***************************************************************************)
EXTENDS RingElection_proofs, FiniteSetTheorems

-----------------------------------------------------------------------------
(* Going round the ring *)

\* Who is passed on the way from w to n by way of s.
LEMMA RingPass ==
  ASSUME NEW w \in Server, NEW s \in Server, NEW n \in Server,
         NEW b \in Server, w # s, b \in Between(w, n), b \notin Between(s, n)
  PROVE  b = s \/ b \in Between(w, s)
BY FirstServer DEF Between

\* Who is still ahead at n was ahead at s, if c was not passed.
LEMMA RingAhead ==
  ASSUME NEW c \in Server, NEW s \in Server, NEW n \in Server,
         NEW b \in Server, c # s, n # c, c \notin Between(s, n),
         b = n \/ b \in Between(n, c)
  PROVE  b \in Between(s, c)
BY FirstServer DEF Between

\* Whoever passes c has all others behind: between c and itself.
LEMMA RingOver ==
  ASSUME NEW c \in Server, NEW x \in Server, NEW n \in Server,
         NEW b \in Server, c \in Between(x, n), b # x, b \notin Between(x, n)
  PROVE  b \in Between(c, x)
BY FirstServer DEF Between

-----------------------------------------------------------------------------
(* One message of a kind.  H holds the threads that have it, box the       *)
(* inboxes, and K the messages of that kind.                               *)

InMail(box, K) ==
  \E j \in Server : \E i \in 1 .. Len(box[j]) : box[j][i] \in K

Single(H, box, K) ==
  /\ \A a, b \in H : a = b
  /\ InMail(box, K) => H = {}
  /\ \A j, l \in Server : \A i \in 1 .. Len(box[j]), k \in 1 .. Len(box[l]) :
       box[j][i] \in K /\ box[l][k] \in K => j = l /\ i = k

\* Nothing of the kind arrives: what is there stays, is read or is lost.
LEMMA SingleKept ==
  ASSUME NEW H, NEW K, NEW box \in [Server -> Seq(Message)],
         Single(H, box, K), NEW H2, H2 \subseteq H,
         NEW box2 \in [Server -> Seq(Message)],
         \A j \in Server :
           \/ box2[j] = box[j] \/ box2[j] = << >>
           \/ box[j] # << >> /\ box2[j] = Tail(box[j])
           \/ \E m \in Message : m \notin K /\ box2[j] = Append(box[j], m)
  PROVE  /\ Single(H2, box2, K)
         /\ InMail(box2, K) => InMail(box, K)
<1>1. ASSUME NEW j \in Server
      PROVE  \E d \in {0, 1} : \A i \in 1 .. Len(box2[j]) :
               box2[j][i] \in K =>
                 i + d \in 1 .. Len(box[j]) /\ box[j][i + d] = box2[j][i]
  <2>1. box[j] \in Seq(Message)
    OBVIOUS
  <2>2. CASE box2[j] = box[j]
    <3>1. \A i \in 1 .. Len(box2[j]) : i + 0 = i
      BY <2>1, <2>2
    <3>. QED
      BY <2>2, <3>1
  <2>3. CASE box2[j] = << >>
    BY <2>3
  <2>4. CASE box[j] # << >> /\ box2[j] = Tail(box[j])
    <3>1. \A i \in 1 .. Len(box2[j]) :
            i + 1 \in 1 .. Len(box[j]) /\ box[j][i + 1] = box2[j][i]
      BY <2>1, <2>4
    <3>. QED
      BY <3>1
  <2>5. ASSUME NEW m \in Message, m \notin K, box2[j] = Append(box[j], m)
        PROVE  \A i \in 1 .. Len(box2[j]) :
                 box2[j][i] \in K =>
                   i + 0 \in 1 .. Len(box[j]) /\ box[j][i + 0] = box2[j][i]
    <3>1. /\ Len(box2[j]) = Len(box[j]) + 1 /\ Len(box[j]) \in Nat
          /\ box2[j][Len(box[j]) + 1] = m
          /\ \A i \in 1 .. Len(box[j]) : box2[j][i] = box[j][i]
      BY <2>1, <2>5
    <3>2. SUFFICES ASSUME NEW i \in 1 .. Len(box2[j]), box2[j][i] \in K
                   PROVE  i \in 1 .. Len(box[j]) /\ i + 0 = i
      BY <3>1
    <3>. QED
      BY <2>5, <3>1, <3>2
  <2>. QED
    BY <2>2, <2>3, <2>4, <2>5
<1>2. PICK d \in [Server -> {0, 1}] : \A j \in Server :
        \A i \in 1 .. Len(box2[j]) : box2[j][i] \in K =>
          i + d[j] \in 1 .. Len(box[j]) /\ box[j][i + d[j]] = box2[j][i]
  <2>. DEFINE good(j, x) ==
         \A i \in 1 .. Len(box2[j]) : box2[j][i] \in K =>
           i + x \in 1 .. Len(box[j]) /\ box[j][i + x] = box2[j][i]
       f == [j \in Server |-> CHOOSE x \in {0, 1} : good(j, x)]
  <2>1. \A j \in Server : \E x \in {0, 1} : good(j, x)
    BY <1>1
  <2>. HIDE DEF good
  <2>2. \A j \in Server : f[j] \in {0, 1} /\ good(j, f[j])
    BY <2>1
  <2>3. f \in [Server -> {0, 1}]
    BY <2>2
  <2>. QED
    BY <2>2, <2>3 DEF good
<1>3. InMail(box2, K) => InMail(box, K)
  BY <1>2 DEF InMail
<1>4. ASSUME NEW j \in Server, NEW l \in Server,
             NEW i \in 1 .. Len(box2[j]), NEW k \in 1 .. Len(box2[l]),
             box2[j][i] \in K, box2[l][k] \in K
      PROVE  j = l /\ i = k
  <2>1. /\ i + d[j] \in 1 .. Len(box[j]) /\ box[j][i + d[j]] \in K
        /\ k + d[l] \in 1 .. Len(box[l]) /\ box[l][k + d[l]] \in K
    BY <1>2, <1>4
  <2>2. j = l /\ i + d[j] = k + d[l]
    BY <2>1 DEF Single
  <2>3. i \in Int /\ k \in Int /\ d[j] \in Int /\ d[j] = d[l]
    BY <1>2, <2>2
  <2>. QED
    BY <2>2, <2>3
<1>. QED
  BY <1>3, <1>4 DEF Single

\* The message is taken from the head of the inbox of s.
LEMMA SingleRead ==
  ASSUME NEW H, NEW K, NEW box \in [Server -> Seq(Message)],
         Single(H, box, K), NEW s \in Server, box[s] # << >>,
         Head(box[s]) \in K, NEW H2, \A a, b \in H2 : a = b,
         NEW box2, box2 = [box EXCEPT ![s] = Tail(@)]
  PROVE  Single(H2, box2, K)
<1>1. box[s] \in Seq(Message)
  OBVIOUS
<1>2. /\ 1 \in 1 .. Len(box[s]) /\ box[s][1] \in K
      /\ \A i \in 1 .. Len(Tail(box[s])) :
           i + 1 \in 1 .. Len(box[s]) /\ i + 1 # 1
           /\ Tail(box[s])[i] = box[s][i + 1]
  BY <1>1
<1>3. ~InMail(box2, K)
  <2>1. SUFFICES ASSUME NEW j \in Server, NEW i \in 1 .. Len(box2[j]),
                        box2[j][i] \in K
                 PROVE  FALSE
    BY DEF InMail
  <2>2. CASE j = s
    BY <1>2, <2>1, <2>2 DEF Single
  <2>3. CASE j # s
    <3>1. box2[j] = box[j]
      BY <2>3
    <3>. QED
      BY <1>2, <2>1, <2>3, <3>1 DEF Single
  <2>. QED
    BY <2>2, <2>3
<1>. QED
  BY <1>3 DEF Single, InMail

\* Its holder sends it to n.
LEMMA SingleSent ==
  ASSUME NEW H, NEW K, NEW box \in [Server -> Seq(Message)],
         Single(H, box, K), H # {}, NEW n, NEW m \in Message,
         NEW box2, \/ box2 = box
                   \/ n \in Server /\ box2 = [box EXCEPT ![n] = Append(@, m)]
  PROVE  Single({}, box2, K)
<1>1. ~InMail(box, K)
  BY DEF Single
<1>2. CASE box2 = box
  BY <1>1, <1>2 DEF Single, InMail
<1>3. CASE n \in Server /\ box2 = [box EXCEPT ![n] = Append(@, m)]
  <2>1. box[n] \in Seq(Message) /\ box2[n] = Append(box[n], m)
    BY <1>3
  <2>2. /\ Len(box2[n]) = Len(box[n]) + 1 /\ Len(box[n]) \in Nat
        /\ \A i \in 1 .. Len(box[n]) : box2[n][i] = box[n][i]
    BY <2>1
  <2>3. ASSUME NEW j \in Server, NEW i \in 1 .. Len(box2[j]), box2[j][i] \in K
        PROVE  j = n /\ i = Len(box[n]) + 1
    <3>1. CASE j # n
      BY <1>1, <1>3, <2>3, <3>1 DEF InMail
    <3>2. CASE j = n
      BY <1>1, <1>3, <2>2, <2>3, <3>2 DEF InMail
    <3>. QED
      BY <3>1, <3>2
  <2>4. \A j, l \in Server : \A i \in 1 .. Len(box2[j]), k \in 1 .. Len(box2[l]) :
          box2[j][i] \in K /\ box2[l][k] \in K => j = l /\ i = k
    BY <2>3
  <2>. QED
    BY <2>4 DEF Single
<1>. QED
  BY <1>2, <1>3

\* One is born where there was none.
LEMMA SingleBorn ==
  ASSUME NEW K, NEW box, ~InMail(box, K), NEW H2, \A a, b \in H2 : a = b
  PROVE  Single(H2, box, K)
BY DEF Single, InMail

-----------------------------------------------------------------------------
(* The inductive invariant for one detector.  c is the last elected, or    *)
(* server 1.                                                               *)

\* Backups that list c but have not heard that it is the primary; those that
\* have, whether or not they have removed it since.
Unaware(c) ==
  {b \in Backups : c \in metadata[b].servers /\ c \notin metadata[b].flagged}
Aware(c) == Backups \ Unaware(c)

Watches(s, p) ==
  /\ hb[s].pc \in {"connect", "connected", "beating", "check", "filter"}
  /\ hb[s].who = p

\* Who has an <elected, c>, and who has an <election>.
Announcers(c) ==
  {s \in Server : /\ Up(s) /\ el[s].who = c
                  /\ el[s].pc \in {"register", "fetch", "store",
                                   "next_elected", "send_elected"}}
Candidates ==
  {s \in Server : Up(s) /\ el[s].pc \in {"next", "set_elected",
                                         "send_election"}}
Starters == {s \in Server : Up(s) /\ hb[s].pc \in {"next", "send"}}
Tokens == (Candidates \X {"el"}) \cup (Starters \X {"hb"})

Announcement(c) == {[type |-> "elected", who |-> c]}
ElectionMail == {m \in Message : m.type = "election"}
Election == Tokens # {} \/ InMail(inbox, ElectionMail)

\* All other primaries are down and forgotten.
OthersGone(c) ==
  \A p \in Server \ Backups : p # c =>
    /\ ~Up(p)
    /\ \A b \in Backups \cup {c} : p \notin metadata[b].servers

StillListed(c) == Up(c) => \A b \in Backups : c \in metadata[b].servers

\* The news of c went round the ring in order, and nobody watches c who has
\* not heard of it.
InOrder(c) ==
  /\ \A b \in Unaware(c) : \A y \in Backups :
       b \in Between(c, y) => y \in Unaware(c)
  /\ \A b \in Unaware(c) : ~Watches(b, c)

\* When the news is at x, it has reached all before x and none from x on.
Reached(c, x) == Unaware(c) \cap Between(c, x) = {}
NotBeyond(c, x) == Aware(c) \cap Between(x, c) = {}
Reaches(c, x) == Reached(c, x) /\ (x # c => NotBeyond(c, x) /\ x \notin Aware(c))

\* A list that is about to be stored comes from c.
Storing(c) ==
  /\ el[c].pc # "store"
  /\ \A x \in Backups : el[x].pc = "store" =>
       /\ el[x].who = c /\ x \in Unaware(c) /\ Reached(c, x)
       /\ el[x].reply.flagged = {c} /\ c \in el[x].reply.servers
       /\ \A p \in Server \ Backups : p # c => p \notin el[x].reply.servers

AnnouncedAt(s, c) ==
  /\ s \in Announcers(c) =>
       /\ el[s].pc \in {"register", "send_elected"} => Reaches(c, el[s].next)
       /\ el[s].pc = "fetch" => Reaches(c, s)
       /\ el[s].pc = "store" => NotBeyond(c, s)
       /\ el[s].pc = "next_elected" =>
            Reached(c, s) /\ NotBeyond(c, s) /\ s \notin Unaware(c)
  /\ \A i \in 1 .. Len(inbox[s]) :
       inbox[s][i] \in Announcement(c) => Reaches(c, s)

Announced(c) ==
  Up(c) => /\ Single(Announcers(c), inbox, Announcement(c))
           /\ \A s \in Server : AnnouncedAt(s, c)

\* An election message that has come from w to j: everybody on its way has
\* removed the primary, and if it went past c then all had heard of c.
Marked == {b \in Backups : metadata[b].flagged # {} \/ el[b].pc = "store"}
Passed(c, w, j) ==
  /\ w \in Backups \ Marked /\ Marked \cap Between(w, j) = {}
  /\ c \in Between(w, j) => Unaware(c) = {}

TokenAt(s, c) ==
  /\ s \in Candidates =>
       /\ el[s].pc \in {"next", "set_elected"} =>
            s \notin Marked /\ Passed(c, el[s].who, s)
       /\ el[s].pc = "send_election" => Passed(c, el[s].who, el[s].next)
  /\ s \in Starters =>
       s \in Initiators /\ (hb[s].pc = "send" => Passed(c, s, hb[s].next))
  /\ \A i \in 1 .. Len(inbox[s]) :
       inbox[s][i].type = "election" => Passed(c, inbox[s][i].who, s)

\* While there is an election no primary runs, and its initiator has dropped c.
Electing(c) ==
  Election =>
    /\ ~Up(c)
    /\ \A k \in Initiators :
         k \in Backups /\ c \notin metadata[k].servers /\ el[k].pc # "store"

Reign(c) ==
  /\ c \in Server \ Backups
  /\ OthersGone(c) /\ StillListed(c) /\ InOrder(c) /\ Storing(c)
  /\ Announced(c)
  /\ Single(Tokens, inbox, ElectionMail) /\ Electing(c)
  /\ \A s \in Server : TokenAt(s, c)

\* What does not depend on who was elected last.
PrimaryLists == \A p \in Server \ Backups : metadata[p].flagged = {p}

AnnouncesPrimary(s) ==
  /\ el[s].pc \in {"register", "fetch", "store", "next_elected",
                   "send_elected"} => el[s].who \notin Backups
  /\ el[s].pc \in {"set_elected", "register"} => el[s].who = s
  /\ el[s].pc \in {"fetch", "store", "next_elected"} => el[s].who # s
  /\ el[s].pc = "set_elected" => Backups \cap Between(s, el[s].next) = {}
  /\ \A i \in 1 .. Len(inbox[s]) :
       inbox[s][i].type = "elected" => inbox[s][i].who \notin Backups

Detecting(s) ==
  hb[s].pc \in {"check", "filter"} =>
    /\ ~Up(hb[s].who)
    /\ s \in Initiators \/ hb[s].who \notin metadata[s].servers

ComsIdle(s) ==
  coms[s].pc # "store" /\ (s \in Backups => coms[s].pc = "accept")

NotYetAnnounced(e) ==
  el[e].pc = "register" =>
    /\ ~InMail(inbox, Announcement(e))
    /\ \A s \in Server \ {e} :
         el[s].pc \in {"register", "fetch", "store", "next_elected",
                       "send_elected"} => el[s].who # e

OneDetectorInv ==
  /\ PrimaryLists
  /\ \A s \in Server : AnnouncesPrimary(s)
  /\ \A s \in Server : Detecting(s)
  /\ \A s \in Server : ComsIdle(s)
  /\ \A s \in Server : NotYetAnnounced(s)
  /\ \E c \in Server : Reign(c)

-----------------------------------------------------------------------------
(* What each server knows while c reigns *)

\* One step from a state in which c reigns, nobody being elected in it.
Quietly(c) ==
  /\ IInv /\ Forgetting /\ [Next]_vars
  /\ PrimaryLists
  /\ \A s \in Server : /\ AnnouncesPrimary(s) /\ Detecting(s)
                       /\ ComsIdle(s) /\ NotYetAnnounced(s)
  /\ Reign(c)
  /\ \A s \in Server : ~SetElected(s)

\* A list has no other mark than that of c.
LEMMA OnlyMark ==
  ASSUME IInv, Forgetting, NEW c \in Server, Reign(c), PrimaryLists,
         NEW b \in Backups \cup {c}
  PROVE  /\ b \in Server
         /\ metadata[b].flagged \subseteq {c}
         /\ metadata[b].flagged \subseteq metadata[b].servers
<1>1. b \in Server /\ c \in Server \ Backups
  BY DEF Backups, Reign
<1>2. /\ metadata[b].flagged \subseteq metadata[b].servers
      /\ metadata[b].flagged \cap Backups = {}
      /\ metadata[b].flagged \subseteq Server
  BY <1>1 DEF IInv, ListsGood, GoodList, Forgetting, ListOld, TypeOK, Metadata
<1>3. \A p \in Server \ Backups : p # c => p \notin metadata[b].servers
  BY DEF Reign, OthersGone
<1>. QED
  BY <1>1, <1>2, <1>3

\* Who runs is a backup or c, and a primary that runs is c.
LEMMA WhoRuns ==
  ASSUME NEW c \in Server, Reign(c), NEW s \in Server, Up(s)
  PROVE  s \in Backups \/ s = c
BY DEF Reign, OthersGone

LEMMA UpBefore ==
  ASSUME TypeOK, [Next]_vars, NEW s \in Server, Up(s)'
  PROVE  Up(s)
<1>1. ASSUME NEW t \in Server, Ends(t), t # s PROVE status'[s] = status[s]
  BY <1>1 DEF Ends, End, TypeOK
<1>2. ASSUME NEW t \in Server, ElMove(t) \/ HbMove(t) \/ ComsMove(t)
      PROVE  UNCHANGED status
  BY <1>2 DEF ElMove, HandleElection, ElNext, SendElection, SetElected,
     RegisterWithDns, SendElected, HandleElected, FetchFromElected,
     FetchFails, StoreElected, ElNextElected, HbMove, HbLookup, HbConnect,
     HbFirstBeat, HbDetect, HbCheckType, HbFilter, HbNext, HbSend, ComsMove,
     ComsSelfConnect, ComsFetch, ComsStore
<1>3. Ends(s) => Up(s)
  BY DEF Ends
<1>. QED
  BY <1>1, <1>2, <1>3, Moves DEF vars, Up

LEMMA SameRoles ==
  ASSUME NEW c \in Server, Quietly(c)
  PROVE  Backups' = Backups /\ UNCHANGED serverType
<1>1. TypeOK
  BY DEF Quietly, IInv
<1>2. \A s \in Server : serverType'[s] = serverType[s]
  BY <1>1, RoleMoves DEF Quietly
<1>3. serverType' \in [Server -> {"primary", "backup"}]
  BY <1>1, TypeStep DEF Quietly, TypeOK
<1>. QED
  BY <1>1, <1>2, <1>3 DEF Backups, TypeOK

\* A list is changed by three kinds of steps.
LEMMA ListChanges ==
  ASSUME NEW c \in Server, Quietly(c), NEW s \in Server
  PROVE  \/ metadata'[s] = metadata[s]
         \/ /\ HandleElection(s) /\ Up(s) /\ s \in Backups /\ Election
            /\ metadata'[s] = Remove(metadata[s], metadata[s].flagged)
         \/ /\ HbFilter(s) /\ Up(s)
            /\ metadata'[s] = Remove(metadata[s], {hb[s].who})
         \/ /\ StoreElected(s) /\ s \in Backups /\ Up(s)
            /\ el[s].pc = "store"
            /\ metadata'[s] = el[s].reply
<1>1. TypeOK /\ [Next]_vars /\ Reign(c)
  BY DEF Quietly, IInv
<1>2. ASSUME HandleElection(s) PROVE Up(s) /\ s \in Backups /\ Election
  <2>1. /\ inbox[s] \in Seq(Message) /\ inbox[s] # << >> /\ Up(s)
        /\ Head(inbox[s]).type = "election"
    BY <1>1, <1>2 DEF HandleElection, ElRead, TypeOK
  <2>2. 1 \in 1 .. Len(inbox[s]) /\ inbox[s][1] \in ElectionMail
    BY <2>1 DEF ElectionMail
  <2>3. Election
    BY <2>2 DEF Election, InMail
  <2>4. ~Up(c)
    BY <1>1, <2>3 DEF Reign, Electing
  <2>. QED
    BY <1>1, <2>1, <2>3, <2>4, WhoRuns
<1>3. ASSUME StoreElected(s) PROVE s \in Backups /\ Up(s) /\ el[s].pc = "store"
  BY <1>1, <1>3, WhoRuns DEF StoreElected, Reign, Storing
<1>4. ~ComsStore(s) /\ ~SetElected(s)
  BY DEF Quietly, ComsIdle, ComsStore
<1>5. HbFilter(s) => Up(s)
  BY DEF HbFilter
<1>. QED
  BY <1>1, <1>2, <1>3, <1>4, <1>5, ListMoves

\* Where each step of an election thread leaves it.
LEMMA ElAfter ==
  ASSUME TypeOK, NEW s \in Server, ElMove(s)
  PROVE  \/ /\ HandleElection(s) /\ Up(s) /\ el[s].pc = "accept"
            /\ inbox[s] # << >> /\ Head(inbox[s]).type = "election"
            /\ el'[s].pc = "next" /\ el'[s].who = Head(inbox[s]).who
         \/ /\ ElNext(s) /\ Up(s) /\ el[s].pc = "next"
            /\ IsNext(el'[s].next, s, metadata[s].servers)
            /\ el'[s].pc = IF el[s].who = s THEN "set_elected"
                           ELSE "send_election"
            /\ el'[s].who = IF Outranks(s, el[s].who) THEN s ELSE el[s].who
            /\ el'[s].next \in Server
         \/ /\ SendElection(s) /\ Up(s) /\ el[s].pc = "send_election"
            /\ el'[s].pc = "accept"
         \/ /\ SetElected(s) /\ Up(s) /\ el[s].pc = "set_elected"
            /\ el'[s].pc = "register" /\ el'[s].who = el[s].who
            /\ el'[s].next = el[s].next
         \/ /\ RegisterWithDns(s) /\ Up(s) /\ el[s].pc = "register"
            /\ el'[s].pc = "send_elected" /\ el'[s].who = el[s].who
            /\ el'[s].next = el[s].next
         \/ /\ SendElected(s) /\ Up(s) /\ el[s].pc = "send_elected"
            /\ el'[s].pc = "accept"
         \/ /\ HandleElected(s) /\ Up(s) /\ el[s].pc = "accept"
            /\ inbox[s] # << >> /\ Head(inbox[s]).type = "elected"
            /\ \/ Head(inbox[s]).who = s /\ el'[s] = el[s]
               \/ /\ Head(inbox[s]).who # s /\ el'[s].pc = "fetch"
                  /\ el'[s].who = Head(inbox[s]).who
         \/ /\ FetchFromElected(s) /\ Up(s) /\ el[s].pc = "fetch"
            /\ Up(el[s].who)
            /\ el'[s].pc = "store" /\ el'[s].who = el[s].who
            /\ el'[s].reply = Transmitted(metadata[el[s].who])
         \/ /\ FetchFails(s) /\ Up(s) /\ el[s].pc = "fetch"
            /\ ~Up(el[s].who)
            /\ el'[s].pc = "next_elected" /\ el'[s].who = el[s].who
         \/ /\ StoreElected(s) /\ Up(s) /\ el[s].pc = "store"
            /\ el'[s].pc = "next_elected" /\ el'[s].who = el[s].who
         \/ /\ ElNextElected(s) /\ Up(s) /\ el[s].pc = "next_elected"
            /\ IsNext(el'[s].next, s, metadata[s].servers)
            /\ el'[s].pc = "send_elected" /\ el'[s].who = el[s].who
            /\ el'[s].next \in Server
<1>0. el \in [Server -> ElState] /\ el[s] \in ElState
  BY DEF TypeOK
<1>1. ASSUME NEW p, ElGoto(s, p)
      PROVE  el'[s].pc = p /\ el'[s].who = el[s].who
             /\ el'[s].next = el[s].next
  BY <1>0, <1>1 DEF ElGoto, ElState
<1>2. CASE HandleElection(s)
  BY <1>0, <1>2 DEF HandleElection, ElRead, ElState
<1>3. CASE ElNext(s)
  <2>1. PICK n \in Server :
       /\ IsNext(n, s, metadata[s].servers)
       /\ el' = [el EXCEPT
            ![s].next = n,
            ![s].pc = IF el[s].who = s THEN "set_elected"
                      ELSE "send_election",
            ![s].who = IF Outranks(s, el[s].who) THEN s ELSE el[s].who]
    BY <1>3 DEF ElNext
  <2>2. /\ el'[s].next = n
        /\ el'[s].pc = IF el[s].who = s THEN "set_elected" ELSE "send_election"
        /\ el'[s].who = IF Outranks(s, el[s].who) THEN s ELSE el[s].who
    BY <1>0, <2>1 DEF ElState
  <2>. QED
    BY <1>3, <2>1, <2>2 DEF ElNext
<1>4. CASE SendElection(s)
  BY <1>1, <1>4 DEF SendElection
<1>5. CASE SetElected(s)
  BY <1>1, <1>5 DEF SetElected
<1>6. CASE RegisterWithDns(s)
  BY <1>1, <1>6 DEF RegisterWithDns
<1>7. CASE SendElected(s)
  BY <1>1, <1>7 DEF SendElected
<1>8. CASE HandleElected(s)
  <2>1. CASE Head(inbox[s]).who = s
    BY <1>8, <2>1 DEF HandleElected, ElRead
  <2>2. CASE Head(inbox[s]).who # s
    <3>1. el' = [el EXCEPT ![s].pc = "fetch", ![s].who = Head(inbox[s]).who]
      BY <1>8, <2>2 DEF HandleElected
    <3>2. el'[s].pc = "fetch" /\ el'[s].who = Head(inbox[s]).who
      BY <1>0, <3>1 DEF ElState
    <3>. QED
      BY <1>8, <2>2, <3>2 DEF HandleElected, ElRead
  <2>. QED
    BY <2>1, <2>2
<1>9. CASE FetchFromElected(s)
  BY <1>0, <1>9 DEF FetchFromElected, ElState
<1>10. CASE FetchFails(s)
  BY <1>1, <1>10 DEF FetchFails
<1>11. CASE StoreElected(s)
  BY <1>1, <1>11 DEF StoreElected
<1>12. CASE ElNextElected(s)
  <2>1. PICK n \in Server :
          /\ IsNext(n, s, metadata[s].servers)
          /\ el' = [el EXCEPT ![s].next = n, ![s].pc = "send_elected"]
    BY <1>12 DEF ElNextElected
  <2>2. /\ el'[s].next = n /\ el'[s].pc = "send_elected"
        /\ el'[s].who = el[s].who
    BY <1>0, <2>1 DEF ElState
  <2>. QED
    BY <1>12, <2>1, <2>2 DEF ElNextElected
<1>. QED
  BY <1>2, <1>3, <1>4, <1>5, <1>6, <1>7, <1>8, <1>9, <1>10, <1>11, <1>12
     DEF ElMove

LEMMA HbAfter ==
  ASSUME TypeOK, NEW s \in Server, HbMove(s)
  PROVE  \/ /\ HbLookup(s) /\ Up(s) /\ hb'[s].pc \in {"stopped", "connect"}
            /\ hb'[s].who \in metadata[s].flagged
            /\ hb'[s].who = s => hb'[s].pc = "stopped"
         \/ /\ HbConnect(s) \/ HbFirstBeat(s)
            /\ Up(s) /\ hb[s].pc \in {"connect", "connected"}
            /\ hb'[s].pc \in {"connected", "beating"}
            /\ hb'[s].who = hb[s].who
         \/ /\ HbDetect(s) /\ Up(s)
            /\ hb[s].pc \in {"connect", "connected", "beating"}
            /\ hb'[s].pc = "check" /\ hb'[s].who = hb[s].who
            /\ ~Up(hb[s].who)
            /\ s \in Initiators \/ hb[s].who \notin metadata[s].servers
         \/ /\ HbCheckType(s) /\ Up(s) /\ hb[s].pc = "check"
            /\ hb'[s].pc \in {"lookup", "filter"} /\ hb'[s].who = hb[s].who
         \/ /\ HbFilter(s) /\ Up(s) /\ hb[s].pc = "filter"
            /\ hb'[s].pc = IF hb[s].who \in metadata[s].servers THEN "next"
                           ELSE "lookup"
            /\ hb'[s].who = hb[s].who
         \/ /\ HbNext(s) /\ Up(s) /\ hb[s].pc = "next"
            /\ hb'[s].pc = "send" /\ hb'[s].next \in Server
            /\ IsNext(hb'[s].next, s, metadata[s].servers)
         \/ HbSend(s) /\ Up(s) /\ hb[s].pc = "send" /\ hb'[s].pc = "lookup"
<1>0. hb \in [Server -> HbState] /\ hb[s] \in HbState
  BY DEF TypeOK
<1>1. ASSUME NEW p, HbGoto(s, p)
      PROVE  hb'[s].pc = p /\ hb'[s].who = hb[s].who
  BY <1>0, <1>1 DEF HbGoto, HbState
<1>2. CASE HbLookup(s)
  <2>1. PICK p \in FirstFlagged(metadata[s]) :
          hb' = [hb EXCEPT ![s].pc = IF p = s THEN "stopped" ELSE "connect",
                           ![s].who = p]
    BY <1>2 DEF HbLookup
  <2>2. /\ hb'[s].pc = IF p = s THEN "stopped" ELSE "connect"
        /\ hb'[s].who = p
    BY <1>0, <2>1 DEF HbState
  <2>. QED
    BY <1>2, <2>1, <2>2 DEF HbLookup, HbWakes, FirstFlagged
<1>3. CASE HbConnect(s) \/ HbFirstBeat(s)
  BY <1>1, <1>3 DEF HbConnect, HbFirstBeat
<1>4. CASE HbDetect(s)
  BY <1>1, <1>4 DEF HbDetect
<1>5. CASE HbCheckType(s)
  BY <1>1, <1>5 DEF HbCheckType
<1>6. CASE HbFilter(s)
  BY <1>1, <1>6 DEF HbFilter
<1>7. CASE HbNext(s)
  <2>1. PICK n \in Server :
          /\ IsNext(n, s, metadata[s].servers)
          /\ hb' = [hb EXCEPT ![s].pc = "send", ![s].next = n]
    BY <1>7 DEF HbNext
  <2>2. hb'[s].pc = "send" /\ hb'[s].next = n
    BY <1>0, <2>1 DEF HbState
  <2>. QED
    BY <1>7, <2>1, <2>2 DEF HbNext
<1>8. CASE HbSend(s)
  BY <1>1, <1>8 DEF HbSend
<1>. QED
  BY <1>2, <1>3, <1>4, <1>5, <1>6, <1>7, <1>8 DEF HbMove

-----------------------------------------------------------------------------
(* Steps in which nobody is elected *)

\* Only storing the answer of c makes a backup aware of it, and for good.
LEMMA Learning ==
  ASSUME NEW c \in Server, Quietly(c)
  PROVE  /\ Unaware(c)' = {b \in Unaware(c) : ~StoreElected(b)}
         /\ Aware(c)' = Aware(c) \cup {b \in Unaware(c) : StoreElected(b)}
<1>0. Backups' = Backups /\ Reign(c) /\ c \in Server \ Backups
  BY SameRoles DEF Quietly, Reign
<1>1. ASSUME NEW b \in Backups, StoreElected(b) PROVE b \notin Unaware(c)'
  <2>1. el[b].reply.flagged = {c}
    BY <1>0, <1>1 DEF StoreElected, Reign, Storing
  <2>2. metadata'[b] = el[b].reply
    BY <1>1 DEF StoreElected, Quietly, IInv, TypeOK, Backups
  <2>. QED
    BY <2>1, <2>2 DEF Unaware
<1>2. ASSUME NEW b \in Backups, b \in Unaware(c)' PROVE b \in Unaware(c)
  <2>0. b \in Server /\ c \in metadata'[b].servers /\ c \notin metadata'[b].flagged
    BY <1>2 DEF Unaware, Backups
  <2>1. CASE metadata'[b] = metadata[b]
    BY <2>0, <2>1 DEF Unaware
  <2>2. ASSUME NEW S, metadata'[b] = Remove(metadata[b], S)
        PROVE  b \in Unaware(c)
    BY <2>0, <2>2 DEF Unaware, Remove
  <2>. QED
    BY <1>1, <1>2, <2>0, <2>1, <2>2, ListChanges
<1>3. ASSUME NEW b \in Unaware(c), ~StoreElected(b) PROVE b \in Unaware(c)'
  <2>0. /\ b \in Server /\ b \in Backups
        /\ c \in metadata[b].servers /\ c \notin metadata[b].flagged
    BY DEF Unaware, Backups
  <2>1. CASE metadata'[b] = metadata[b]
    BY <1>0, <2>0, <2>1 DEF Unaware
  <2>2. CASE metadata'[b] = Remove(metadata[b], metadata[b].flagged)
    BY <1>0, <2>0, <2>2 DEF Unaware, Remove
  <2>3. CASE HbFilter(b) /\ metadata'[b] = Remove(metadata[b], {hb[b].who})
    <3>1. hb[b].who # c
      BY <1>0, <1>3, <2>3 DEF HbFilter, Reign, InOrder, Watches
    <3>. QED
      BY <1>0, <2>0, <2>3, <3>1 DEF Unaware, Remove
  <2>. QED
    BY <1>3, <2>0, <2>1, <2>2, <2>3, ListChanges
<1>4. Unaware(c)' = {b \in Unaware(c) : ~StoreElected(b)}
  <2>1. Unaware(c)' \subseteq Backups /\ Unaware(c) \subseteq Backups
    BY <1>0 DEF Unaware
  <2>. QED
    BY <1>1, <1>2, <1>3, <2>1
<1>. QED
  BY <1>0, <1>4 DEF Aware, Unaware

LEMMA QuietOthers ==
  ASSUME NEW c \in Server, Quietly(c) PROVE OthersGone(c)'
<1>0. TypeOK /\ Reign(c) /\ Backups' = Backups /\ [Next]_vars
  BY SameRoles DEF Quietly, IInv
<1>1. SUFFICES ASSUME NEW p \in Server \ Backups, p # c
               PROVE  /\ ~Up(p)'
                      /\ \A b \in Backups \cup {c} : p \notin metadata'[b].servers
  BY <1>0 DEF OthersGone
<1>2. ~Up(p) /\ \A b \in Backups \cup {c} : p \notin metadata[b].servers
  BY <1>0, <1>1 DEF Reign, OthersGone
<1>3. ASSUME NEW b \in Backups \cup {c} PROVE p \notin metadata'[b].servers
  <2>1. b \in Server
    BY DEF Backups
  <2>2. ASSUME NEW S, metadata'[b] = Remove(metadata[b], S)
        PROVE  p \notin metadata'[b].servers
    BY <1>2, <2>2 DEF Remove
  <2>3. CASE b \in Backups /\ el[b].pc = "store" /\ metadata'[b] = el[b].reply
    BY <1>0, <1>1, <2>3 DEF Reign, Storing
  <2>. QED
    BY <1>2, <2>1, <2>2, <2>3, ListChanges
<1>. QED
  BY <1>0, <1>2, <1>3, UpBefore

LEMMA QuietListed ==
  ASSUME NEW c \in Server, Quietly(c) PROVE StillListed(c)'
<1>0. TypeOK /\ Reign(c) /\ Backups' = Backups /\ [Next]_vars
  BY SameRoles DEF Quietly, IInv
<1>1. SUFFICES ASSUME Up(c)', NEW b \in Backups
               PROVE  c \in metadata'[b].servers
  BY <1>0 DEF StillListed
<1>2. Up(c) /\ b \in Server /\ c \in metadata[b].servers /\ ~Election
  BY <1>0, <1>1, UpBefore DEF Reign, StillListed, Backups, Electing
<1>3. CASE HbFilter(b) /\ metadata'[b] = Remove(metadata[b], {hb[b].who})
  <2>1. hb[b].who # c
    BY <1>2, <1>3 DEF HbFilter, Quietly, Detecting
  <2>. QED
    BY <1>2, <1>3, <2>1 DEF Remove
<1>4. CASE el[b].pc = "store" /\ metadata'[b] = el[b].reply
  BY <1>0, <1>4 DEF Reign, Storing
<1>. QED
  BY <1>2, <1>3, <1>4, ListChanges

LEMMA QuietPrimaryLists ==
  ASSUME NEW c \in Server, Quietly(c) PROVE PrimaryLists'
<1>0. TypeOK /\ Reign(c) /\ Backups' = Backups /\ PrimaryLists
  BY SameRoles DEF Quietly, IInv
<1>1. SUFFICES ASSUME NEW p \in Server \ Backups
               PROVE  metadata'[p].flagged = {p}
  BY <1>0 DEF PrimaryLists
<1>2. metadata[p].flagged = {p}
  BY <1>0 DEF PrimaryLists
<1>3. CASE HbFilter(p) /\ Up(p)
           /\ metadata'[p] = Remove(metadata[p], {hb[p].who})
  <2>1. hb[p].who # p
    BY <1>3 DEF HbFilter, Quietly, Detecting
  <2>. QED
    BY <1>2, <1>3, <2>1 DEF Remove
<1>. QED
  BY <1>2, <1>3, ListChanges

LEMMA QuietOrder ==
  ASSUME NEW c \in Server, Quietly(c) PROVE InOrder(c)'
<1>0. TypeOK /\ Reign(c) /\ Backups' = Backups /\ [Next]_vars
  BY SameRoles DEF Quietly, IInv
<1>1. ASSUME NEW b \in Unaware(c)', NEW y \in Backups, b \in Between(c, y)
      PROVE  y \in Unaware(c)'
  <2>1. b \in Unaware(c) /\ y \in Unaware(c)
    BY <1>0, <1>1, Learning DEF Reign, InOrder
  <2>2. ~StoreElected(y)
    BY <1>0, <1>1, <2>1 DEF StoreElected, Reign, Storing, Reached
  <2>. QED
    BY <2>1, <2>2, Learning
<1>2. ASSUME NEW b \in Unaware(c)' PROVE ~Watches(b, c)'
  <2>1. b \in Unaware(c) /\ b \in Server /\ ~Watches(b, c)
    BY <1>0, <1>2, Learning DEF Unaware, Backups, Reign, InOrder
  <2>2. c \notin metadata[b].flagged
    BY <2>1 DEF Unaware
  <2>. QED
    BY <1>0, <2>1, <2>2, HbMoves, HbAfter DEF Watches
<1>. QED
  BY <1>1, <1>2, <1>0 DEF InOrder, Unaware, Between, Watches

\* Whom a server asks that is still running is c.
LEMMA WhoAnswers ==
  ASSUME NEW c \in Server, Quietly(c), NEW x \in Server, FetchFromElected(x)
  PROVE  /\ el[x].who = c /\ x # c /\ x \in Backups /\ Up(x) /\ Up(c)
         /\ el[x].pc = "fetch" /\ x \in Announcers(c)
         /\ el'[x].pc = "store" /\ el'[x].who = c
         /\ el'[x].reply.flagged = {c}
         /\ el'[x].reply.servers = metadata[c].servers
         /\ c \in metadata[c].servers
<1>0. TypeOK /\ IInv /\ Forgetting /\ Reign(c) /\ PrimaryLists
      /\ c \in Server \ Backups /\ el \in [Server -> ElState] /\ el[x] \in ElState
  BY DEF Quietly, IInv, Reign, TypeOK
<1>1. /\ Up(x) /\ el[x].pc = "fetch" /\ Up(el[x].who)
      /\ el'[x].pc = "store" /\ el'[x].who = el[x].who
      /\ el'[x].reply = Transmitted(metadata[el[x].who])
  BY <1>0 DEF FetchFromElected, ElState
<1>2. el[x].who \notin Backups /\ el[x].who # x /\ el[x].who \in Server
  BY <1>0, <1>1 DEF Quietly, AnnouncesPrimary, ElState
<1>3. el[x].who = c
  BY <1>0, <1>1, <1>2, WhoRuns
<1>4. metadata[c].flagged = {c} /\ c \in metadata[c].servers
  BY <1>0, OnlyMark DEF PrimaryLists
<1>5. FirstFlagged(metadata[c]) = {c}
  BY <1>4, FirstServer DEF FirstFlagged
<1>6. x \in Backups
  BY <1>0, <1>1, <1>2, <1>3, WhoRuns
<1>. QED
  BY <1>1, <1>2, <1>3, <1>4, <1>5, <1>6 DEF Transmitted, Announcers

LEMMA QuietStoring ==
  ASSUME NEW c \in Server, Quietly(c) PROVE Storing(c)'
<1>0. /\ TypeOK /\ Reign(c) /\ Backups' = Backups /\ [Next]_vars
      /\ el \in [Server -> ElState]
  BY SameRoles DEF Quietly, IInv, TypeOK
<1>1. ASSUME NEW x \in Server, el'[x].pc = "store"
      PROVE  el'[x] = el[x] \/ FetchFromElected(x)
  BY <1>0, <1>1, ElMoves, ElAfter
<1>2. el'[c].pc # "store"
  BY <1>0, <1>1, WhoAnswers DEF Reign, Storing
<1>3. ASSUME NEW x \in Backups, el'[x].pc = "store"
      PROVE  /\ el'[x].who = c /\ x \in Unaware(c)' /\ Reached(c, x)'
             /\ el'[x].reply.flagged = {c} /\ c \in el'[x].reply.servers
             /\ \A p \in Server \ Backups :
                  p # c => p \notin el'[x].reply.servers
  <2>0. x \in Server
    BY DEF Backups
  <2>1. ~StoreElected(x)
    BY <1>0, <1>3, <2>0 DEF StoreElected, ElGoto, ElState
  <2>2. CASE el'[x] = el[x]
    <3>1. x \in Unaware(c) /\ Reached(c, x)
      BY <1>0, <1>3, <2>2 DEF Reign, Storing
    <3>. QED
      BY <1>0, <1>3, <2>1, <2>2, <3>1, Learning
         DEF Reign, Storing, Reached, Between
  <2>3. CASE FetchFromElected(x)
    <3>1. Reaches(c, x) /\ x # c
      BY <1>0, <2>0, <2>3, WhoAnswers DEF Reign, Announced, AnnouncedAt
    <3>2. x \in Unaware(c) /\ Reached(c, x)
      BY <3>1 DEF Reaches, Aware
    <3>3. \A p \in Server \ Backups : p # c => p \notin metadata[c].servers
      BY <1>0 DEF Reign, OthersGone
    <3>. QED
      BY <2>0, <2>1, <2>3, <3>2, <3>3, WhoAnswers, Learning DEF Reached, Between
  <2>. QED
    BY <1>1, <1>3, <2>0, <2>2, <2>3
<1>. QED
  BY <1>0, <1>2, <1>3 DEF Storing

-----------------------------------------------------------------------------
(* The one announcement *)

\* What the step of one server leaves alone of the others.
LEMMA Alone ==
  ASSUME TypeOK, NEW s \in Server,
         ElMove(s) \/ HbMove(s) \/ ComsMove(s) \/ Ends(s),
         NEW t \in Server, t # s
  PROVE  el'[t] = el[t] /\ hb'[t] = hb[t] /\ status'[t] = status[t]
<1>1. CASE ElMove(s)
  BY <1>1 DEF ElMove, HandleElection, ElNext, SendElection, SetElected,
     RegisterWithDns, SendElected, HandleElected, FetchFromElected,
     FetchFails, StoreElected, ElNextElected, ElGoto, TypeOK
<1>2. CASE HbMove(s)
  BY <1>2 DEF HbMove, HbLookup, HbConnect, HbFirstBeat, HbDetect,
     HbCheckType, HbFilter, HbNext, HbSend, HbGoto, TypeOK
<1>3. CASE ComsMove(s) \/ Ends(s)
  BY <1>3 DEF ComsMove, ComsSelfConnect, ComsFetch, ComsStore, Ends, End,
     TypeOK
<1>. QED
  BY <1>1, <1>2, <1>3

\* The inboxes after a step that sends no message of the kind K.
QuietMail(K) ==
  \A j \in Server :
    \/ inbox'[j] = inbox[j] \/ inbox'[j] = << >>
    \/ inbox[j] # << >> /\ inbox'[j] = Tail(inbox[j])
    \/ \E m \in Message : m \notin K /\ inbox'[j] = Append(inbox[j], m)

LEMMA MailSent ==
  ASSUME TypeOK, NEW s \in Server, NEW n \in Server, NEW m \in Message,
         Deliver(n, m)
  PROVE  /\ \/ inbox' = inbox
            \/ n \in Server /\ inbox' = [inbox EXCEPT ![n] = Append(@, m)]
         /\ \A K : m \notin K => QuietMail(K)
BY DEF Deliver, QuietMail, TypeOK

\* Ends and the steps that neither read nor send.
LEMMA MailOfOthers ==
  ASSUME TypeOK, NEW s \in Server, NEW K,
         \A m \in K : m.type # "torn",
         \/ ElMove(s) /\ ~SendElection(s) /\ ~SendElected(s)
         \/ HbMove(s) /\ ~HbSend(s)
         \/ ComsMove(s) \/ Ends(s)
  PROVE  QuietMail(K)
<1>0. inbox \in [Server -> Seq(Message)]
  BY DEF TypeOK
<1>1. CASE Ends(s)
  <2>1. [type |-> "torn", who |-> s] \in Message
        /\ [type |-> "torn", who |-> s] \notin K
    BY DEF Message
  <2>2. PICK torn \in SUBSET Sending(s) :
          inbox' = [j \in Server |->
                     IF j = s THEN << >>
                     ELSE IF j \in torn /\ Up(j)
                          THEN Append(inbox[j], [type |-> "torn", who |-> s])
                          ELSE inbox[j]]
    BY <1>1 DEF Ends, End
  <2>. QED
    BY <2>1, <2>2 DEF QuietMail
<1>2. CASE HandleElection(s) \/ HandleElected(s)
  BY <1>0, <1>2 DEF QuietMail, HandleElection, HandleElected, ElRead
<1>3. CASE ElMove(s) /\ ~SendElection(s) /\ ~SendElected(s)
           /\ ~HandleElection(s) /\ ~HandleElected(s)
  BY <1>3 DEF QuietMail, ElMove, ElNext, SetElected, RegisterWithDns,
     FetchFromElected, FetchFails, StoreElected, ElNextElected
<1>4. CASE HbMove(s) /\ ~HbSend(s)
  BY <1>4 DEF QuietMail, HbMove, HbLookup, HbConnect, HbFirstBeat, HbDetect,
     HbCheckType, HbFilter, HbNext
<1>5. CASE ComsMove(s)
  BY <1>5 DEF QuietMail, ComsMove, ComsSelfConnect, ComsFetch, ComsStore
<1>. QED
  BY <1>1, <1>2, <1>3, <1>4, <1>5

\* There is one <elected, c> at most while c runs.
LEMMA QuietOnce ==
  ASSUME NEW c \in Server, Quietly(c), Up(c)'
  PROVE  Single(Announcers(c)', inbox', Announcement(c))
<1>. DEFINE K == Announcement(c)
<1>0. /\ TypeOK /\ TypeOK' /\ Reign(c) /\ [Next]_vars /\ Up(c)
      /\ Single(Announcers(c), inbox, K)
      /\ inbox \in [Server -> Seq(Message)]
      /\ inbox' \in [Server -> Seq(Message)]
  BY UpBefore, TypeStep DEF Quietly, IInv, TypeOK, Reign, Announced
<1>1. \A m : m \in K <=> m = [type |-> "elected", who |-> c]
  BY DEF Announcement
<1>. HIDE DEF K
<1>2. ASSUME Announcers(c)' \subseteq Announcers(c), QuietMail(K)
      PROVE  Single(Announcers(c)', inbox', K)
  BY <1>0, <1>2, SingleKept DEF QuietMail
<1>3. ASSUME NEW s \in Server,
             ElMove(s) \/ HbMove(s) \/ ComsMove(s) \/ Ends(s),
             s \in Announcers(c)' => s \in Announcers(c)
      PROVE  Announcers(c)' \subseteq Announcers(c)
  BY <1>0, <1>3, Alone, UpBefore DEF Announcers
<1>4. ASSUME NEW s \in Server, HbMove(s) \/ ComsMove(s) \/ Ends(s)
      PROVE  Announcers(c)' \subseteq Announcers(c)
  <2>1. UNCHANGED el
    BY <1>4 DEF HbMove, HbLookup, HbConnect, HbFirstBeat, HbDetect,
       HbCheckType, HbFilter, HbNext, HbSend, ComsMove, ComsSelfConnect,
       ComsFetch, ComsStore, Ends, End
  <2>. QED
    BY <1>0, <2>1, UpBefore DEF Announcers
<1>5. ASSUME UNCHANGED vars PROVE Single(Announcers(c)', inbox', K)
  <2>1. UNCHANGED <<el, status, inbox>>
    BY <1>5 DEF vars
  <2>2. Announcers(c)' \subseteq Announcers(c)
    BY <2>1 DEF Announcers, Up
  <2>3. QuietMail(K)
    BY <2>1 DEF QuietMail
  <2>. QED
    BY <1>2, <2>2, <2>3
<1>6. ASSUME NEW s \in Server, HbMove(s) \/ ComsMove(s) \/ Ends(s)
      PROVE  QuietMail(K)
  <2>1. CASE HbSend(s)
    <3>. DEFINE m == [type |-> "election", who |-> s]
    <3>1. m \in Message /\ m \notin K /\ hb[s].next \in Server
      BY <1>0, <1>1 DEF Message, TypeOK, HbState
    <3>2. Deliver(hb[s].next, m)
      BY <2>1 DEF HbSend
    <3>. HIDE DEF m
    <3>. QED
      BY <1>0, <3>1, <3>2, MailSent
  <2>2. CASE ~HbSend(s)
    BY <1>0, <1>1, <1>6, <2>2, MailOfOthers
  <2>. QED
    BY <2>1, <2>2
<1>7. ASSUME NEW s \in Server, ElMove(s)
      PROVE  Single(Announcers(c)', inbox', K)
  <2>1. CASE SendElection(s)
    <3>. DEFINE m == [type |-> "election", who |-> el[s].who]
    <3>1. m \in Message /\ m \notin K /\ el[s].next \in Server
      BY <1>0, <1>1 DEF Message, TypeOK, ElState
    <3>2. Deliver(el[s].next, m)
      BY <2>1 DEF SendElection
    <3>. HIDE DEF m
    <3>3. QuietMail(K)
      BY <1>0, <3>1, <3>2, MailSent
    <3>4. s \notin Announcers(c)'
      BY <1>0, <2>1 DEF SendElection, ElGoto, TypeOK, ElState, Announcers
    <3>. QED
      BY <1>2, <1>3, <1>7, <3>3, <3>4
  <2>2. CASE SendElected(s)
    <3>. DEFINE m == [type |-> "elected", who |-> el[s].who]
    <3>1. m \in Message /\ el[s].next \in Server
      BY <1>0 DEF Message, TypeOK, ElState
    <3>2. Deliver(el[s].next, m)
      BY <2>2 DEF SendElected
    <3>3. m \in K => el[s].who = c
      BY <1>1
    <3>. HIDE DEF m
    <3>4. s \notin Announcers(c)'
      BY <1>0, <2>2 DEF SendElected, ElGoto, TypeOK, ElState, Announcers
    <3>5. CASE m \notin K
      BY <1>0, <1>2, <1>3, <1>7, <3>1, <3>2, <3>4, <3>5, MailSent
    <3>6. CASE m \in K
      <4>1. s \in Announcers(c)
        BY <2>2, <3>3, <3>6 DEF SendElected, Announcers
      <4>2. Announcers(c)' = {}
        <5>1. Announcers(c)' \subseteq Announcers(c)
          BY <1>3, <1>7, <3>4
        <5>. QED
          BY <1>0, <3>4, <4>1, <5>1 DEF Single
      <4>3. \/ inbox' = inbox
            \/ inbox' = [inbox EXCEPT ![el[s].next] = Append(@, m)]
        BY <1>0, <3>1, <3>2, MailSent
      <4>4. Announcers(c) # {} /\ el[s].next \in Server
        BY <3>1, <4>1
      <4>5. Single({}, inbox', K)
        BY <1>0, <3>1, <4>3, <4>4, SingleSent
      <4>. QED
        BY <4>2, <4>5
    <3>. QED
      BY <3>5, <3>6
  <2>3. CASE ~SendElection(s) /\ ~SendElected(s)
    <3>1. QuietMail(K)
      BY <1>0, <1>1, <1>7, <2>3, MailOfOthers
    <3>2. CASE s \in Announcers(c)' => s \in Announcers(c)
      BY <1>2, <1>3, <1>7, <3>1, <3>2
    <3>3. CASE s \in Announcers(c)' /\ s \notin Announcers(c)
      <4>2. HandleElected(s) /\ inbox[s] # << >>
            /\ Head(inbox[s]) = [type |-> "elected", who |-> c]
        <5>1. ~SetElected(s)
          BY DEF Quietly
        <5>2. /\ HandleElected(s) /\ inbox[s] # << >>
              /\ Head(inbox[s]).type = "elected" /\ Head(inbox[s]).who = c
          BY <1>0, <1>7, <2>3, <3>3, <5>1, ElAfter, UpBefore DEF Announcers
        <5>3. inbox[s] \in Seq(Message)
          BY <1>0
        <5>4. Head(inbox[s]) \in Message
          BY <5>2, <5>3
        <5>. QED
          BY <5>2, <5>4 DEF Message
      <4>3. inbox' = [inbox EXCEPT ![s] = Tail(@)]
        BY <4>2 DEF HandleElected
      <4>4. Announcers(c)' \subseteq {s}
        <5>1. Announcers(c) = {}
          <6>1. inbox[s] \in Seq(Message)
            BY <1>0
          <6>2. 1 \in 1 .. Len(inbox[s]) /\ inbox[s][1] = Head(inbox[s])
            BY <4>2, <6>1
          <6>3. InMail(inbox, K)
            BY <1>1, <4>2, <6>2 DEF InMail
          <6>. QED
            BY <1>0, <6>3 DEF Single
        <5>2. ASSUME NEW t \in Announcers(c)', t # s PROVE t \in Announcers(c)
          BY <1>0, <1>7, <5>2, Alone, UpBefore DEF Announcers
        <5>. QED
          BY <5>1, <5>2
      <4>. QED
        BY <1>0, <1>1, <4>2, <4>3, <4>4, SingleRead
    <3>. QED
      BY <3>2, <3>3
  <2>. QED
    BY <2>1, <2>2, <2>3
<1>8. Single(Announcers(c)', inbox', K)
  <2>1. ASSUME NEW s \in Server, HbMove(s) \/ ComsMove(s) \/ Ends(s)
        PROVE  Single(Announcers(c)', inbox', K)
    BY <1>2, <1>4, <1>6, <2>1
  <2>2. \/ UNCHANGED vars
        \/ \E s \in Server : ElMove(s) \/ HbMove(s) \/ ComsMove(s) \/ Ends(s)
    BY <1>0, Moves
  <2>. QED
    BY <1>5, <1>7, <2>1, <2>2
<1>. QED
  BY <1>8 DEF K

\* The news goes on to the next in the list of s.
LEMMA NewsPassed ==
  ASSUME NEW c \in Server, NEW s \in Server, NEW n \in Server, NEW S,
         IsNext(n, s, S), Backups \subseteq S, c \in S, c # s,
         Reached(c, s), NotBeyond(c, s), s \notin Unaware(c)
  PROVE  Reaches(c, n)
<1>0. /\ Unaware(c) \subseteq Backups /\ Aware(c) \subseteq Backups
      /\ Backups \subseteq Server
      /\ \A b \in Backups \cup {c} : b \notin Between(s, n)
  BY DEF Unaware, Aware, Backups, IsNext
<1>1. Reached(c, n)
  BY <1>0, RingPass DEF Reached
<1>2. ASSUME n # c, NEW b \in Aware(c), b = n \/ b \in Between(n, c)
      PROVE  FALSE
  <2>1. b \in Between(s, c)
    BY <1>0, <1>2, RingAhead
  <2>. QED
    BY <2>1 DEF NotBeyond
<1>. QED
  BY <1>1, <1>2 DEF Reaches, NotBeyond

\* Reaches(c, x) after the step, for the value x has now.
StillReaches(c, x) ==
  /\ Unaware(c)' \cap Between(c, x) = {}
  /\ x # c => Aware(c)' \cap Between(x, c) = {} /\ x \notin Aware(c)'

\* Somebody stores the list of c: it is the one that had the news.
LEMMA AnnouncedStored ==
  ASSUME NEW c \in Server, Quietly(c), Up(c)',
         NEW t \in Server, StoreElected(t), NEW s \in Server
  PROVE  AnnouncedAt(s, c)'
<1>0. /\ TypeOK /\ Reign(c) /\ [Next]_vars /\ Up(c)
      /\ Single(Announcers(c), inbox, Announcement(c))
      /\ Storing(c) /\ c \in Server \ Backups
      /\ \A x \in Server : AnnouncedAt(x, c)
      /\ el \in [Server -> ElState]
  BY UpBefore DEF Quietly, IInv, TypeOK, Reign, Announced
<1>1. ASSUME NEW b \in Server, StoreElected(b)
      PROVE  /\ b \in Backups /\ el[b].pc = "store" /\ el[b].who = c
             /\ b \in Announcers(c) /\ Up(b) /\ b # c
  BY <1>0, <1>1, WhoRuns DEF StoreElected, Storing, Announcers
<1>2. \A b \in Server : StoreElected(b) => b = t
  BY <1>0, <1>1 DEF Single
<1>3. /\ el'[t].pc = "next_elected" /\ el'[t].who = c /\ Up(t)'
      /\ t \in Announcers(c)'
  <2>1. el'[t].pc = "next_elected" /\ el'[t].who = el[t].who
    BY <1>0 DEF StoreElected, ElGoto, ElState
  <2>2. Up(t)'
    BY <1>1 DEF StoreElected, Up
  <2>. QED
    BY <1>1, <2>1, <2>2 DEF Announcers
<1>4. /\ Announcers(c)' \subseteq {t}
      /\ ~InMail(inbox', Announcement(c))
  BY <1>3, QuietOnce DEF Single
<1>5. CASE s # t
  BY <1>4, <1>5 DEF AnnouncedAt, InMail, Announcement
<1>6. CASE s = t
  <2>1. t \in Unaware(c) /\ Reached(c, t) /\ NotBeyond(c, t)
    BY <1>0, <1>1 DEF Storing, AnnouncedAt
  <2>2. Unaware(c)' = Unaware(c) \ {t} /\ Aware(c)' = Aware(c) \cup {t}
    <3>1. \A b \in Unaware(c) : b \in Server
      BY DEF Unaware, Backups
    <3>. QED
      BY <1>2, <2>1, <3>1, Learning
  <2>3. t \notin Between(t, c)
    BY <1>1, FirstServer DEF Between
  <2>4. Unaware(c)' \cap Between(c, t) = {} /\ Aware(c)' \cap Between(t, c) = {}
        /\ t \notin Unaware(c)'
    BY <2>1, <2>2, <2>3 DEF Reached, NotBeyond
  <2>. QED
    BY <1>3, <1>4, <1>6, <2>4
       DEF AnnouncedAt, Reached, NotBeyond, Between, InMail, Announcement
<1>. QED
  BY <1>5, <1>6

LEMMA QuietAnnounced ==
  ASSUME NEW c \in Server, Quietly(c), Up(c)', NEW s \in Server
  PROVE  AnnouncedAt(s, c)'
<1>0. /\ TypeOK /\ Reign(c) /\ [Next]_vars /\ Up(c)
      /\ Storing(c) /\ c \in Server \ Backups /\ IInv
      /\ \A x \in Server : AnnouncedAt(x, c) /\ AnnouncesPrimary(x)
      /\ el \in [Server -> ElState] /\ inbox \in [Server -> Seq(Message)]
      /\ inbox[s] \in Seq(Message)
  BY UpBefore DEF Quietly, IInv, TypeOK, Reign, Announced
<1>1. SUFFICES ASSUME \A t \in Server : ~StoreElected(t)
               PROVE  AnnouncedAt(s, c)'
  BY AnnouncedStored
<1>2. Unaware(c)' = Unaware(c) /\ Aware(c)' = Aware(c)
  <2>1. Unaware(c) \subseteq Server
    BY DEF Unaware, Backups
  <2>. QED
    BY <1>1, <2>1, Learning
<1>3. \A x \in Server : Reaches(c, x) => StillReaches(c, x)
  BY <1>2 DEF Reaches, Reached, NotBeyond, StillReaches
<1>4. ASSUME s \in Announcers(c)'
      PROVE  /\ el'[s].pc \in {"register", "send_elected"} =>
                  StillReaches(c, el'[s].next)
             /\ el'[s].pc = "fetch" => StillReaches(c, s)
             /\ el'[s].pc = "store" => Aware(c)' \cap Between(s, c) = {}
             /\ el'[s].pc = "next_elected" =>
                  /\ Unaware(c)' \cap Between(c, s) = {}
                  /\ Aware(c)' \cap Between(s, c) = {}
                  /\ s \notin Unaware(c)'
  <2>0. Up(s)' /\ Up(s) /\ el'[s].who = c /\ el[s] \in ElState
        /\ el'[s].pc \in {"register", "fetch", "store", "next_elected",
                          "send_elected"}
    BY <1>0, <1>4, UpBefore DEF Announcers
  <2>1. CASE el'[s] = el[s]
    <3>1. s \in Announcers(c)
      BY <2>0, <2>1 DEF Announcers
    <3>. QED
      BY <1>0, <1>2, <1>3, <2>0, <2>1, <3>1
         DEF AnnouncedAt, Reached, NotBeyond, ElState
  <2>2. CASE RegisterWithDns(s) /\ el[s].pc = "register"
             /\ el'[s].pc = "send_elected" /\ el'[s].who = el[s].who
             /\ el'[s].next = el[s].next
    BY <1>0, <1>3, <2>0, <2>2 DEF AnnouncedAt, Announcers, ElState
  <2>3. CASE /\ HandleElected(s) /\ el'[s].pc = "fetch"
             /\ inbox[s] # << >> /\ Head(inbox[s]).type = "elected"
             /\ el'[s].who = Head(inbox[s]).who
    <3>1. 1 \in 1 .. Len(inbox[s]) /\ inbox[s][1] = Head(inbox[s])
          /\ inbox[s][1] \in Message
      BY <1>0, <2>3
    <3>2. inbox[s][1] \in Announcement(c)
      BY <2>0, <2>3, <3>1 DEF Message, Announcement
    <3>. QED
      BY <1>0, <1>3, <2>3, <3>1, <3>2 DEF AnnouncedAt
  <2>4. CASE FetchFromElected(s) /\ el[s].pc = "fetch" /\ el'[s].pc = "store"
             /\ el'[s].who = el[s].who
    <3>1. s \in Announcers(c) /\ s # c
      BY <2>4, WhoAnswers
    <3>2. Reaches(c, s)
      BY <1>0, <2>4, <3>1 DEF AnnouncedAt
    <3>. QED
      BY <1>3, <2>4, <3>1, <3>2 DEF StillReaches
  <2>5. CASE ElNextElected(s) /\ el[s].pc = "next_elected"
             /\ IsNext(el'[s].next, s, metadata[s].servers)
             /\ el'[s].pc = "send_elected" /\ el'[s].who = el[s].who
             /\ el'[s].next \in Server
    <3>1. s \in Announcers(c) /\ s # c
      BY <1>0, <2>0, <2>5 DEF Announcers, AnnouncesPrimary
    <3>2. s \in Backups
      BY <1>0, <2>0, <3>1, WhoRuns
    <3>3. c \in metadata[s].servers
      BY <1>0, <3>2 DEF Reign, StillListed
    <3>4. Backups \subseteq metadata[s].servers
      BY <1>0 DEF IInv, ListsGood, GoodList
    <3>5. Reached(c, s) /\ NotBeyond(c, s) /\ s \notin Unaware(c)
      BY <1>0, <2>5, <3>1 DEF AnnouncedAt
    <3>. DEFINE n == el'[s].next
    <3>6. n \in Server /\ IsNext(n, s, metadata[s].servers)
      BY <2>5
    <3>. HIDE DEF n
    <3>7. Reaches(c, n)
      BY <3>1, <3>3, <3>4, <3>5, <3>6, NewsPassed
    <3>8. StillReaches(c, n)
      BY <1>3, <3>6, <3>7
    <3>. QED
      BY <2>5, <3>8 DEF n
  <2>. QED
    <3>1. ElMove(s) \/ el'[s] = el[s]
      BY <1>0, ElMoves
    <3>2. ~SetElected(s) /\ ~StoreElected(s)
      BY <1>1 DEF Quietly
    <3>3. CASE el[s].pc = "fetch" /\ ~Up(el[s].who) /\ el'[s].who = el[s].who
      BY <1>0, <2>0, <3>3
    <3>. QED
      BY <1>0, <2>0, <2>1, <2>2, <2>3, <2>4, <2>5, <3>1, <3>2, <3>3, ElAfter
<1>5. ASSUME NEW i \in 1 .. Len(inbox'[s]), inbox'[s][i] \in Announcement(c)
      PROVE  StillReaches(c, s)
  <2>0. \A k \in 1 .. Len(inbox[s]) :
          inbox[s][k] \in Announcement(c) => Reaches(c, s)
    BY <1>0 DEF AnnouncedAt
  <2>1. CASE inbox'[s] = inbox[s]
    BY <1>3, <1>5, <2>0, <2>1
  <2>2. CASE inbox'[s] = << >>
    BY <1>5, <2>2
  <2>3. CASE inbox[s] # << >> /\ inbox'[s] = Tail(inbox[s])
    <3>1. i + 1 \in 1 .. Len(inbox[s]) /\ inbox'[s][i] = inbox[s][i + 1]
      BY <1>0, <1>5, <2>3
    <3>. QED
      BY <1>3, <1>5, <2>0, <3>1
  <2>4. ASSUME NEW m \in Message, Arrives(m, s),
               inbox'[s] = Append(inbox[s], m)
        PROVE  StillReaches(c, s)
    <3>1. Len(inbox[s]) \in Nat /\ Len(inbox'[s]) = Len(inbox[s]) + 1
          /\ inbox'[s][Len(inbox[s]) + 1] = m
          /\ \A k \in 1 .. Len(inbox[s]) : inbox'[s][k] = inbox[s][k]
      BY <1>0, <2>4
    <3>2. CASE i \in 1 .. Len(inbox[s])
      BY <1>3, <1>5, <2>0, <3>1, <3>2
    <3>3. CASE i \notin 1 .. Len(inbox[s])
      <4>1. m = [type |-> "elected", who |-> c]
        BY <1>5, <3>1, <3>3 DEF Announcement
      <4>2. PICK t \in Server : SendElected(t) /\ el[t].next = s
                                /\ el[t].who = c
        BY <2>4, <4>1 DEF Arrives
      <4>3. t \in Announcers(c) /\ el[t].pc = "send_elected"
        BY <4>2 DEF SendElected, Announcers
      <4>4. Reaches(c, s)
        BY <1>0, <4>2, <4>3 DEF AnnouncedAt
      <4>. QED
        BY <1>3, <4>4
    <3>. QED
      BY <3>2, <3>3
  <2>. QED
    BY <1>0, <2>1, <2>2, <2>3, <2>4, MailMoves
<1>. QED
  BY <1>4, <1>5 DEF AnnouncedAt, StillReaches, Reaches, Reached, NotBeyond,
     Between, Announcement

-----------------------------------------------------------------------------
(* The one election *)

\* Whether an election starts, stays, goes on or ends.
LEMMA TokenMoves ==
  ASSUME TypeOK, [Next]_vars
  PROVE  \/ Tokens' \subseteq Tokens /\ QuietMail(ElectionMail)
         \/ \E s \in Server :
              /\ HandleElection(s) /\ inbox[s] # << >>
              /\ Head(inbox[s]) \in ElectionMail
              /\ inbox' = [inbox EXCEPT ![s] = Tail(@)]
              /\ Tokens' \subseteq Tokens \cup {<<s, "el">>}
         \/ \E k \in Tokens : \E n \in Server, m \in Message :
              /\ Tokens' \subseteq Tokens \ {k}
              /\ \/ inbox' = inbox
                 \/ inbox' = [inbox EXCEPT ![n] = Append(@, m)]
         \/ \E s \in Server :
              /\ HbFilter(s) /\ hb[s].who \in metadata[s].servers
              /\ UNCHANGED inbox
              /\ Tokens' \subseteq Tokens \cup {<<s, "hb">>}
<1>0. /\ \A s \in Server : Up(s)' => Up(s)
      /\ el \in [Server -> ElState] /\ hb \in [Server -> HbState]
      /\ inbox \in [Server -> Seq(Message)]
  BY UpBefore DEF TypeOK
<1>1. ASSUME NEW s \in Server,
             ElMove(s) \/ HbMove(s) \/ ComsMove(s) \/ Ends(s)
      PROVE  /\ Tokens' \subseteq Tokens \cup {<<s, "el">>, <<s, "hb">>}
             /\ (s \in Candidates' => s \in Candidates) =>
                  Tokens' \subseteq Tokens \cup {<<s, "hb">>}
             /\ (s \in Starters' => s \in Starters) =>
                  Tokens' \subseteq Tokens \cup {<<s, "el">>}
             /\ (/\ s \in Candidates' => s \in Candidates
                 /\ s \in Starters' => s \in Starters) =>
                  Tokens' \subseteq Tokens
  <2>1. ASSUME NEW t \in Server, t # s
        PROVE  /\ t \in Candidates' => t \in Candidates
               /\ t \in Starters' => t \in Starters
    BY <1>0, <1>1, <2>1, Alone DEF Candidates, Starters
  <2>2. Candidates' \subseteq Server /\ Starters' \subseteq Server
    BY DEF Candidates, Starters
  <2>. QED
    BY <2>1, <2>2 DEF Tokens
<1>2. ASSUME NEW s \in Server, ElMove(s)
      PROVE  s \in Starters' => s \in Starters
  <2>1. UNCHANGED hb
    BY <1>2 DEF ElMove, HandleElection, ElNext, SendElection, SetElected,
       RegisterWithDns, SendElected, HandleElected, FetchFromElected,
       FetchFails, StoreElected, ElNextElected
  <2>. QED
    BY <1>0, <2>1 DEF Starters
<1>3. ASSUME NEW s \in Server, HbMove(s) \/ ComsMove(s) \/ Ends(s)
      PROVE  s \in Candidates' => s \in Candidates
  <2>1. UNCHANGED el
    BY <1>3 DEF HbMove, HbLookup, HbConnect, HbFirstBeat, HbDetect,
       HbCheckType, HbFilter, HbNext, HbSend, ComsMove, ComsSelfConnect,
       ComsFetch, ComsStore, Ends, End
  <2>. QED
    BY <1>0, <2>1 DEF Candidates
<1>4. \A m \in ElectionMail : m.type # "torn"
  BY DEF ElectionMail
<1>5. CASE UNCHANGED vars
  <2>1. UNCHANGED <<el, hb, status, inbox>>
    BY <1>5 DEF vars
  <2>2. Tokens' \subseteq Tokens
    BY <2>1 DEF Tokens, Candidates, Starters, Up
  <2>3. QuietMail(ElectionMail)
    BY <2>1 DEF QuietMail
  <2>. QED
    BY <2>2, <2>3
<1>6. ASSUME NEW s \in Server, ComsMove(s) \/ Ends(s)
      PROVE  Tokens' \subseteq Tokens /\ QuietMail(ElectionMail)
  <2>1. UNCHANGED hb
    BY <1>6 DEF ComsMove, ComsSelfConnect, ComsFetch, ComsStore, Ends, End
  <2>2. s \in Starters' => s \in Starters
    BY <1>0, <2>1 DEF Starters
  <2>3. QuietMail(ElectionMail)
    BY <1>4, <1>6, MailOfOthers
  <2>. QED
    BY <1>1, <1>3, <1>6, <2>2, <2>3
<1>7. ASSUME NEW s \in Server, ElMove(s), ~HandleElection(s),
             ~SendElection(s)
      PROVE  Tokens' \subseteq Tokens /\ QuietMail(ElectionMail)
  <2>1. s \in Candidates' => s \in Candidates
    BY <1>0, <1>7, ElAfter DEF Candidates
  <2>2. CASE SendElected(s)
    <3>. DEFINE m == [type |-> "elected", who |-> el[s].who]
    <3>1. m \in Message /\ m \notin ElectionMail /\ el[s].next \in Server
      BY <1>0 DEF Message, ElectionMail, ElState
    <3>2. Deliver(el[s].next, m)
      BY <2>2 DEF SendElected
    <3>. HIDE DEF m
    <3>3. QuietMail(ElectionMail)
      BY <3>1, <3>2, MailSent
    <3>. QED
      BY <1>1, <1>2, <1>7, <2>1, <3>3
  <2>3. CASE ~SendElected(s)
    <3>1. QuietMail(ElectionMail)
      BY <1>4, <1>7, <2>3, MailOfOthers
    <3>. QED
      BY <1>1, <1>2, <1>7, <2>1, <3>1
  <2>. QED
    BY <2>2, <2>3
<1>8. ASSUME NEW s \in Server, HandleElection(s)
      PROVE  /\ inbox[s] # << >> /\ Head(inbox[s]) \in ElectionMail
             /\ inbox' = [inbox EXCEPT ![s] = Tail(@)]
             /\ Tokens' \subseteq Tokens \cup {<<s, "el">>}
  <2>1. /\ inbox[s] # << >> /\ Head(inbox[s]).type = "election"
        /\ inbox' = [inbox EXCEPT ![s] = Tail(@)]
    BY <1>8 DEF HandleElection, ElRead
  <2>2. inbox[s] \in Seq(Message)
    BY <1>0
  <2>3. Head(inbox[s]) \in ElectionMail
    BY <2>1, <2>2 DEF ElectionMail
  <2>4. ElMove(s)
    BY <1>8 DEF ElMove
  <2>. QED
    BY <1>1, <1>2, <2>1, <2>3, <2>4
<1>9. ASSUME NEW s \in Server, SendElection(s) \/ HbSend(s)
      PROVE  \E k \in Tokens : \E n \in Server, m \in Message :
               /\ Tokens' \subseteq Tokens \ {k}
               /\ \/ inbox' = inbox
                  \/ inbox' = [inbox EXCEPT ![n] = Append(@, m)]
  <2>1. CASE SendElection(s)
    <3>. DEFINE m == [type |-> "election", who |-> el[s].who]
    <3>1. m \in Message /\ el[s].next \in Server
      BY <1>0 DEF Message, ElState
    <3>2. Deliver(el[s].next, m)
      BY <2>1 DEF SendElection
    <3>. HIDE DEF m
    <3>3. inbox' = inbox \/ inbox' = [inbox EXCEPT ![el[s].next] = Append(@, m)]
      BY <3>1, <3>2, MailSent
    <3>4. s \in Candidates /\ s \notin Candidates' /\ ElMove(s)
      BY <1>0, <2>1 DEF SendElection, ElGoto, ElState, Candidates, ElMove
    <3>5. <<s, "el">> \in Tokens /\ Tokens' \subseteq Tokens \ {<<s, "el">>}
      <4>1. Tokens' \subseteq Tokens /\ <<s, "el">> \in Tokens
        BY <1>1, <1>2, <3>4 DEF Tokens
      <4>2. <<s, "el">> \notin Tokens'
        BY <3>4 DEF Tokens
      <4>. QED
        BY <4>1, <4>2
    <3>. QED
      BY <3>1, <3>3, <3>5
  <2>2. CASE HbSend(s)
    <3>. DEFINE m == [type |-> "election", who |-> s]
    <3>1. m \in Message /\ hb[s].next \in Server
      BY <1>0 DEF Message, HbState
    <3>2. Deliver(hb[s].next, m)
      BY <2>2 DEF HbSend
    <3>. HIDE DEF m
    <3>3. inbox' = inbox \/ inbox' = [inbox EXCEPT ![hb[s].next] = Append(@, m)]
      BY <3>1, <3>2, MailSent
    <3>4. s \in Starters /\ s \notin Starters' /\ HbMove(s)
      BY <1>0, <2>2 DEF HbSend, HbGoto, HbState, Starters, HbMove
    <3>5. <<s, "hb">> \in Tokens /\ Tokens' \subseteq Tokens \ {<<s, "hb">>}
      <4>1. Tokens' \subseteq Tokens /\ <<s, "hb">> \in Tokens
        BY <1>1, <1>3, <3>4 DEF Tokens
      <4>2. <<s, "hb">> \notin Tokens'
        BY <3>4 DEF Tokens
      <4>. QED
        BY <4>1, <4>2
    <3>. QED
      BY <3>1, <3>3, <3>5
  <2>. QED
    BY <1>9, <2>1, <2>2
<1>10. ASSUME NEW s \in Server, HbFilter(s), hb[s].who \in metadata[s].servers
       PROVE  UNCHANGED inbox /\ Tokens' \subseteq Tokens \cup {<<s, "hb">>}
  BY <1>1, <1>3, <1>10 DEF HbFilter, HbMove
<1>11. ASSUME NEW s \in Server, HbMove(s), ~HbSend(s),
              ~(HbFilter(s) /\ hb[s].who \in metadata[s].servers)
       PROVE  Tokens' \subseteq Tokens /\ QuietMail(ElectionMail)
  <2>1. s \in Starters' => s \in Starters
    BY <1>0, <1>11, HbAfter DEF Starters
  <2>2. QuietMail(ElectionMail)
    BY <1>4, <1>11, MailOfOthers
  <2>. QED
    BY <1>1, <1>3, <1>11, <2>1, <2>2
<1>. QED
  BY <1>5, <1>6, <1>7, <1>8, <1>9, <1>10, <1>11, Moves

\* Only the death of c starts an election, and only if there is none.
LEMMA Starting ==
  ASSUME NEW c \in Server, Quietly(c), NEW s \in Server, HbFilter(s),
         hb[s].who \in metadata[s].servers
  PROVE  /\ ~Election /\ ~Up(c) /\ s \in Initiators /\ s \in Backups
         /\ hb[s].who = c /\ el[s].pc # "store"
         /\ metadata'[s] = Remove(metadata[s], {c})
<1>0. /\ TypeOK /\ Reign(c) /\ IInv /\ hb \in [Server -> HbState]
      /\ hb[s] \in HbState /\ Detecting(s)
  BY DEF Quietly, IInv, TypeOK
<1>1. /\ Up(s) /\ hb[s].pc = "filter" /\ ~Up(hb[s].who) /\ s \in Initiators
      /\ hb[s].who \in Server \ Backups
  BY <1>0 DEF HbFilter, Detecting, IInv, WatchedPrimary, HbState
<1>2. hb[s].who = c /\ s \in Backups
  <2>1. s \in Backups \/ s = c
    BY <1>0, <1>1, WhoRuns
  <2>. QED
    BY <1>0, <1>1, <2>1 DEF Reign, OthersGone
<1>3. ~Up(c) /\ ~Election
  BY <1>0, <1>1, <1>2 DEF Reign, Electing
<1>4. el[s].pc # "store"
  BY <1>0, <1>1, <1>2 DEF Reign, Storing, InOrder, Watches
<1>5. metadata'[s] = Remove(metadata[s], {c})
  BY <1>0, <1>2 DEF HbFilter, TypeOK
<1>. QED
  BY <1>1, <1>2, <1>3, <1>4, <1>5

LEMMA QuietToken ==
  ASSUME NEW c \in Server, Quietly(c)
  PROVE  /\ Single(Tokens', inbox', ElectionMail)
         /\ Election' => \/ Election
                         \/ \E s \in Server :
                              HbFilter(s) /\ hb[s].who \in metadata[s].servers
<1>0. /\ TypeOK /\ TypeOK' /\ Reign(c) /\ [Next]_vars
      /\ Single(Tokens, inbox, ElectionMail)
      /\ inbox \in [Server -> Seq(Message)]
      /\ inbox' \in [Server -> Seq(Message)]
  BY TypeStep DEF Quietly, IInv, TypeOK, Reign
<1>. DEFINE K == ElectionMail
<1>1. Election <=> Tokens # {} \/ InMail(inbox, K)
  BY DEF Election
<1>2. Election' <=> Tokens' # {} \/ InMail(inbox', K)
  BY DEF Election, InMail, ElectionMail
<1>. HIDE DEF K
<1>3. Single(Tokens, inbox, K)
  BY <1>0 DEF K
<1>4. SUFFICES /\ Single(Tokens', inbox', K)
               /\ Election' => \/ Election
                               \/ \E s \in Server : HbFilter(s)
                                    /\ hb[s].who \in metadata[s].servers
  BY DEF K
<1>5. CASE Tokens' \subseteq Tokens /\ QuietMail(ElectionMail)
  <2>1. Single(Tokens', inbox', K) /\ (InMail(inbox', K) => InMail(inbox, K))
    BY <1>0, <1>3, <1>5, SingleKept DEF QuietMail, K
  <2>. QED
    BY <1>1, <1>2, <1>5, <2>1
<1>6. ASSUME NEW s \in Server, inbox[s] # << >>, Head(inbox[s]) \in K,
             inbox' = [inbox EXCEPT ![s] = Tail(@)],
             Tokens' \subseteq Tokens \cup {<<s, "el">>}
      PROVE  Single(Tokens', inbox', K) /\ Election
  <2>1. InMail(inbox, K)
    <3>1. inbox[s] \in Seq(Message)
      BY <1>0
    <3>2. 1 \in 1 .. Len(inbox[s]) /\ inbox[s][1] \in K
      BY <1>6, <3>1
    <3>. QED
      BY <3>2 DEF InMail
  <2>2. \A a, b \in Tokens' : a = b
    BY <1>3, <1>6, <2>1 DEF Single
  <2>. QED
    BY <1>0, <1>1, <1>3, <1>6, <2>1, <2>2, SingleRead
<1>7. ASSUME NEW k \in Tokens, NEW n \in Server, NEW m \in Message,
             Tokens' \subseteq Tokens \ {k},
             \/ inbox' = inbox
             \/ inbox' = [inbox EXCEPT ![n] = Append(@, m)]
      PROVE  Single(Tokens', inbox', K) /\ Election
  <2>1. Tokens' = {} /\ Tokens # {}
    BY <1>3, <1>7 DEF Single
  <2>2. Single({}, inbox', K)
    BY <1>0, <1>3, <1>7, <2>1, SingleSent
  <2>. QED
    BY <1>1, <2>1, <2>2
<1>8. ASSUME NEW s \in Server, HbFilter(s), hb[s].who \in metadata[s].servers,
             UNCHANGED inbox, Tokens' \subseteq Tokens \cup {<<s, "hb">>}
      PROVE  Single(Tokens', inbox', K)
  <2>1. ~InMail(inbox', K) /\ \A a, b \in Tokens' : a = b
    BY <1>1, <1>8, Starting
  <2>. QED
    BY <2>1, SingleBorn
<1>. QED
  BY <1>0, <1>5, <1>6, <1>7, <1>8, TokenMoves DEF K

LEMMA QuietElecting ==
  ASSUME NEW c \in Server, Quietly(c), \A a, b \in Initiators : a = b
  PROVE  Electing(c)'
<1>0. /\ TypeOK /\ Reign(c) /\ [Next]_vars /\ Backups' = Backups
      /\ el \in [Server -> ElState]
  BY SameRoles DEF Quietly, IInv, TypeOK
<1>1. SUFFICES ASSUME Election'
               PROVE  /\ ~Up(c)'
                      /\ \A k \in Initiators :
                           /\ k \in Backups' /\ c \notin metadata'[k].servers
                           /\ el'[k].pc # "store"
  BY DEF Electing
<1>2. ASSUME ~Up(c), NEW k \in Server, el[k].pc # "store"
      PROVE  el'[k].pc # "store"
  BY <1>0, <1>2, ElMoves, ElAfter, WhoAnswers
<1>3. CASE Election
  <2>1. /\ ~Up(c)
        /\ \A k \in Initiators :
             k \in Backups /\ c \notin metadata[k].servers /\ el[k].pc # "store"
    BY <1>0, <1>3 DEF Reign, Electing
  <2>2. ASSUME NEW k \in Initiators PROVE c \notin metadata'[k].servers
    <3>1. k \in Server
      BY EnvironmentAssumption
    <3>2. c \notin metadata[k].servers /\ ~StoreElected(k)
      BY <2>1 DEF StoreElected
    <3>3. ASSUME NEW S, metadata'[k] = Remove(metadata[k], S)
          PROVE  c \notin metadata'[k].servers
      BY <3>2, <3>3 DEF Remove
    <3>. QED
      BY <3>1, <3>2, <3>3, ListChanges
  <2>. QED
    BY <1>0, <1>2, <2>1, <2>2, UpBefore, EnvironmentAssumption
<1>4. ASSUME NEW s \in Server, HbFilter(s), hb[s].who \in metadata[s].servers
      PROVE  /\ ~Up(c)'
             /\ \A k \in Initiators :
                  /\ k \in Backups' /\ c \notin metadata'[k].servers
                  /\ el'[k].pc # "store"
  <2>1. ~Up(c)' /\ s \in Initiators /\ s \in Backups'
        /\ c \notin metadata'[s].servers /\ el'[s].pc # "store"
    <3>1. /\ ~Up(c) /\ s \in Initiators /\ s \in Backups /\ el[s].pc # "store"
          /\ metadata'[s] = Remove(metadata[s], {c})
      BY <1>4, Starting
    <3>2. c \notin metadata'[s].servers
      BY <3>1 DEF Remove
    <3>. QED
      BY <1>0, <1>2, <3>1, <3>2, UpBefore
  <2>. QED
    BY <2>1
<1>. QED
  BY <1>1, <1>3, <1>4, QuietToken

\* The election goes on to the next in the list of s.
LEMMA ElectionPassed ==
  ASSUME NEW c \in Server \ Backups, InOrder(c),
         NEW s \in Backups \ Marked, NEW n \in Server,
         IsNext(n, s, metadata[s].servers),
         Backups \subseteq metadata[s].servers,
         NEW w \in Server, w = s \/ Passed(c, w, s)
  PROVE  Passed(c, w, n)
<1>0. /\ Backups \subseteq Server /\ Marked \subseteq Backups
      /\ Unaware(c) \subseteq Backups /\ s \in Server /\ c # s
      /\ \A b \in Backups : b \notin Between(s, n)
  BY DEF Backups, Marked, Unaware, IsNext
<1>1. ASSUME c \in Between(s, n) PROVE Unaware(c) = {}
  <2>1. c \notin metadata[s].servers
    BY <1>1 DEF IsNext
  <2>2. SUFFICES ASSUME NEW b \in Unaware(c) PROVE FALSE
    OBVIOUS
  <2>3. b # s
    BY <2>1 DEF Unaware
  <2>4. b \in Between(c, s)
    BY <1>0, <1>1, <2>3, RingOver
  <2>5. s \in Unaware(c)
    BY <2>4 DEF InOrder
  <2>. QED
    BY <2>1, <2>5 DEF Unaware
<1>2. CASE w = s
  BY <1>0, <1>1, <1>2 DEF Passed
<1>3. CASE w # s /\ Passed(c, w, s)
  <2>1. /\ w \in Backups \ Marked /\ Marked \cap Between(w, s) = {}
        /\ c \in Between(w, s) => Unaware(c) = {}
    BY <1>3 DEF Passed
  <2>2. ASSUME NEW b \in Marked, b \in Between(w, n) PROVE FALSE
    BY <1>0, <1>3, <2>1, <2>2, RingPass
  <2>3. ASSUME c \in Between(w, n) PROVE Unaware(c) = {}
    BY <1>0, <1>1, <1>3, <2>1, <2>3, RingPass
  <2>. QED
    BY <2>1, <2>2, <2>3 DEF Passed
<1>. QED
  BY <1>2, <1>3

\* Passed(c, w, j) after the step, for the values w and j have now.
StillPassed(c, w, j) ==
  /\ w \in Backups' \ Marked' /\ Marked' \cap Between(w, j) = {}
  /\ c \in Between(w, j) => Unaware(c)' = {}

LEMMA PassedStays ==
  ASSUME NEW c \in Server, Quietly(c), Election'
  PROVE  /\ ~Up(c) /\ Marked' \subseteq Marked
         /\ \A w, j : Passed(c, w, j) => StillPassed(c, w, j)
<1>0. TypeOK /\ Reign(c) /\ [Next]_vars /\ Backups' = Backups
  BY SameRoles DEF Quietly, IInv
<1>1. ~Up(c)
  BY <1>0, QuietToken, Starting DEF Reign, Electing
<1>2. ASSUME NEW b \in Marked' PROVE b \in Marked
  <2>1. b \in Backups /\ b \in Server
        /\ (metadata'[b].flagged # {} \/ el'[b].pc = "store")
    BY <1>0 DEF Marked, Backups
  <2>2. ASSUME el'[b].pc = "store" PROVE el[b].pc = "store"
    BY <1>0, <1>1, <2>1, <2>2, ElMoves, ElAfter, WhoAnswers
  <2>3. ASSUME NEW S, metadata'[b] = Remove(metadata[b], S),
               metadata[b].flagged = {}
        PROVE  metadata'[b].flagged = {}
    BY <2>3 DEF Remove
  <2>. QED
    BY <2>1, <2>2, <2>3, ListChanges DEF Marked
<1>3. Unaware(c)' \subseteq Unaware(c)
  BY Learning
<1>. QED
  BY <1>0, <1>1, <1>2, <1>3 DEF Passed, StillPassed

LEMMA QuietTokenAt ==
  ASSUME NEW c \in Server, Quietly(c), NEW s \in Server
  PROVE  TokenAt(s, c)'
<1>0. /\ TypeOK /\ Reign(c) /\ [Next]_vars /\ IInv /\ Backups' = Backups
      /\ c \in Server \ Backups /\ InOrder(c) /\ TokenAt(s, c)
      /\ el \in [Server -> ElState] /\ inbox \in [Server -> Seq(Message)]
      /\ inbox[s] \in Seq(Message) /\ el[s] \in ElState
      /\ hb \in [Server -> HbState] /\ hb[s] \in HbState
      /\ Backups \subseteq metadata[s].servers
  BY SameRoles DEF Quietly, IInv, TypeOK, Reign, ListsGood, GoodList
<1>1. CASE ~Election'
  <2>1. /\ s \notin Candidates' /\ s \notin Starters'
        /\ \A i \in 1 .. Len(inbox'[s]) : inbox'[s][i] \notin ElectionMail
    <3>1. Tokens' = {} /\ ~InMail(inbox', ElectionMail)
      BY <1>1 DEF Election, InMail, ElectionMail
    <3>2. ASSUME s \in Candidates' PROVE <<s, "el">> \in Tokens'
      BY <3>2 DEF Tokens
    <3>3. ASSUME s \in Starters' PROVE <<s, "hb">> \in Tokens'
      BY <3>3 DEF Tokens
    <3>4. \A i \in 1 .. Len(inbox'[s]) : inbox'[s][i] \notin ElectionMail
      BY <3>1 DEF InMail
    <3>. QED
      BY <3>1, <3>2, <3>3, <3>4
  <2>2. \A i \in 1 .. Len(inbox'[s]) : inbox'[s][i].type # "election"
    <3>1. inbox'[s] \in Seq(Message)
      BY <1>0, TypeStep DEF TypeOK
    <3>. QED
      BY <2>1, <3>1 DEF ElectionMail
  <2>. QED
    BY <2>1, <2>2 DEF TokenAt
<1>2. CASE Election'
  <2>0. /\ ~Up(c) /\ Marked' \subseteq Marked
        /\ \A w, j : Passed(c, w, j) => StillPassed(c, w, j)
    BY <1>2, PassedStays
  <2>1. ASSUME s \in Candidates'
        PROVE  /\ el'[s].pc \in {"next", "set_elected"} =>
                    s \notin Marked' /\ StillPassed(c, el'[s].who, s)
               /\ el'[s].pc = "send_election" =>
                    StillPassed(c, el'[s].who, el'[s].next)
    <3>0. /\ Up(s)' /\ Up(s) /\ s \in Backups
          /\ el'[s].pc \in {"next", "set_elected", "send_election"}
      BY <1>0, <2>0, <2>1, UpBefore, WhoRuns DEF Candidates
    <3>1. CASE el'[s] = el[s]
      <4>1. s \in Candidates
        BY <3>0, <3>1 DEF Candidates
      <4>. QED
        BY <1>0, <2>0, <3>0, <3>1, <4>1 DEF TokenAt, ElState
    <3>2. CASE HandleElection(s) /\ inbox[s] # << >>
               /\ Head(inbox[s]).type = "election"
               /\ el'[s].pc = "next" /\ el'[s].who = Head(inbox[s]).who
      <4>1. 1 \in 1 .. Len(inbox[s]) /\ inbox[s][1] = Head(inbox[s])
        BY <1>0, <3>2
      <4>2. Passed(c, el'[s].who, s)
        BY <1>0, <3>2, <4>1 DEF TokenAt
      <4>3. s \notin Marked'
        <5>1. metadata'[s] = Remove(metadata[s], metadata[s].flagged)
          BY <1>0, <3>2 DEF HandleElection, TypeOK
        <5>2. metadata'[s].flagged = {}
          BY <5>1 DEF Remove
        <5>. QED
          BY <3>2, <5>2 DEF Marked
      <4>. QED
        BY <2>0, <3>2, <4>2, <4>3
    <3>3. CASE ElNext(s) /\ el[s].pc = "next"
               /\ IsNext(el'[s].next, s, metadata[s].servers)
               /\ el'[s].pc = (IF el[s].who = s THEN "set_elected"
                               ELSE "send_election")
               /\ el'[s].who = (IF Outranks(s, el[s].who) THEN s
                                ELSE el[s].who)
               /\ el'[s].next \in Server
      <4>1. s \notin Marked /\ Passed(c, el[s].who, s)
        BY <1>0, <3>0, <3>3 DEF TokenAt, Candidates
      <4>2. CASE el[s].who = s
        BY <2>0, <3>3, <4>1, <4>2
      <4>3. CASE el[s].who # s
        <5>. DEFINE n == el'[s].next
                    w == el'[s].who
        <5>1. n \in Server /\ w \in Server /\ (w = s \/ Passed(c, w, s))
              /\ IsNext(n, s, metadata[s].servers)
          BY <1>0, <3>3, <4>1 DEF ElState
        <5>. HIDE DEF n, w
        <5>2. Passed(c, w, n)
          BY <1>0, <3>0, <4>1, <5>1, ElectionPassed
        <5>3. StillPassed(c, w, n)
          BY <2>0, <5>2
        <5>. QED
          BY <3>3, <4>3, <5>3 DEF n, w
      <4>. QED
        BY <4>2, <4>3
    <3>. QED
      <4>1. ElMove(s) \/ el'[s] = el[s]
        BY <1>0, ElMoves
      <4>2. CASE el'[s].pc = el[s].pc /\ el'[s] # el[s]
        BY <1>0, <3>0, <4>1, <4>2, ElAfter
      <4>. QED
        BY <1>0, <3>0, <3>1, <3>2, <3>3, <4>1, ElAfter
  <2>2. ASSUME s \in Starters'
        PROVE  /\ s \in Initiators
               /\ hb'[s].pc = "send" => StillPassed(c, s, hb'[s].next)
    <3>0. Up(s)' /\ Up(s) /\ s \in Backups /\ hb'[s].pc \in {"next", "send"}
      BY <1>0, <2>0, <2>2, UpBefore, WhoRuns DEF Starters
    <3>1. CASE hb'[s] = hb[s]
      <4>1. s \in Starters
        BY <3>0, <3>1 DEF Starters
      <4>. QED
        BY <1>0, <2>0, <3>0, <3>1, <4>1 DEF TokenAt
    <3>2. CASE HbFilter(s) /\ hb[s].who \in metadata[s].servers
               /\ hb'[s].pc = "next"
      BY <3>2, Starting
    <3>3. CASE HbNext(s) /\ hb[s].pc = "next"
               /\ hb'[s].pc = "send" /\ hb'[s].next \in Server
               /\ IsNext(hb'[s].next, s, metadata[s].servers)
      <4>1. s \in Starters /\ s \in Initiators
        BY <1>0, <3>0, <3>3 DEF TokenAt, Starters
      <4>2. Election
        <5>1. <<s, "hb">> \in Tokens
          BY <4>1 DEF Tokens
        <5>. QED
          BY <5>1 DEF Election
      <4>3. c \notin metadata[s].servers /\ el[s].pc # "store"
        BY <1>0, <4>1, <4>2 DEF Reign, Electing
      <4>4. metadata[s].flagged \subseteq {c}
            /\ metadata[s].flagged \subseteq metadata[s].servers
        BY <1>0, <3>0, OnlyMark DEF Quietly
      <4>5. s \notin Marked
        BY <4>3, <4>4 DEF Marked
      <4>. DEFINE n == hb'[s].next
      <4>6. n \in Server /\ IsNext(n, s, metadata[s].servers)
        BY <3>3
      <4>. HIDE DEF n
      <4>7. Passed(c, s, n)
        BY <1>0, <3>0, <4>5, <4>6, ElectionPassed
      <4>8. StillPassed(c, s, n)
        BY <2>0, <4>7
      <4>. QED
        BY <4>1, <4>8 DEF n
    <3>. QED
      BY <1>0, <3>0, <3>1, <3>2, <3>3, HbMoves, HbAfter
  <2>3. ASSUME NEW i \in 1 .. Len(inbox'[s]), inbox'[s][i].type = "election"
        PROVE  StillPassed(c, inbox'[s][i].who, s)
    <3>0. \A k \in 1 .. Len(inbox[s]) :
            inbox[s][k].type = "election" => Passed(c, inbox[s][k].who, s)
      BY <1>0 DEF TokenAt
    <3>1. CASE inbox'[s] = inbox[s]
      BY <2>0, <2>3, <3>0, <3>1
    <3>2. CASE inbox'[s] = << >>
      BY <2>3, <3>2
    <3>3. CASE inbox[s] # << >> /\ inbox'[s] = Tail(inbox[s])
      <4>1. i + 1 \in 1 .. Len(inbox[s]) /\ inbox'[s][i] = inbox[s][i + 1]
        BY <1>0, <2>3, <3>3
      <4>. QED
        BY <2>0, <2>3, <3>0, <4>1
    <3>4. ASSUME NEW m \in Message, Arrives(m, s),
                 inbox'[s] = Append(inbox[s], m)
          PROVE  StillPassed(c, inbox'[s][i].who, s)
      <4>1. Len(inbox[s]) \in Nat /\ Len(inbox'[s]) = Len(inbox[s]) + 1
            /\ inbox'[s][Len(inbox[s]) + 1] = m
            /\ \A k \in 1 .. Len(inbox[s]) : inbox'[s][k] = inbox[s][k]
        BY <1>0, <3>4
      <4>2. CASE i \in 1 .. Len(inbox[s])
        BY <2>0, <2>3, <3>0, <4>1, <4>2
      <4>3. CASE i \notin 1 .. Len(inbox[s])
        <5>1. inbox'[s][i] = m /\ m.type = "election"
          BY <2>3, <4>1, <4>3
        <5>2. PICK t \in Server :
                \/ SendElection(t) /\ el[t].next = s /\ m.who = el[t].who
                \/ HbSend(t) /\ hb[t].next = s /\ m.who = t
          BY <3>4, <5>1 DEF Arrives
        <5>3. TokenAt(t, c)
          BY <1>0 DEF Reign
        <5>4. Passed(c, m.who, s)
          BY <5>2, <5>3
             DEF TokenAt, SendElection, HbSend, Candidates, Starters
        <5>. QED
          BY <2>0, <5>1, <5>4
      <4>. QED
        BY <4>2, <4>3
    <3>. QED
      BY <1>0, <3>1, <3>2, <3>3, <3>4, MailMoves
  <2>. QED
    BY <2>1, <2>2, <2>3 DEF TokenAt, StillPassed, Passed, Between
<1>. QED
  BY <1>1, <1>2

-----------------------------------------------------------------------------
(* What does not depend on who was elected last *)

LEMMA QuietAnnouncesPrimary ==
  ASSUME NEW c \in Server, Quietly(c), NEW s \in Server
  PROVE  AnnouncesPrimary(s)'
<1>0. /\ TypeOK /\ [Next]_vars /\ Backups' = Backups
      /\ AnnouncesPrimary(s) /\ ~SetElected(s)
      /\ el \in [Server -> ElState] /\ el[s] \in ElState
      /\ inbox \in [Server -> Seq(Message)] /\ inbox[s] \in Seq(Message)
      /\ Backups \subseteq metadata[s].servers
  BY SameRoles DEF Quietly, IInv, TypeOK, ListsGood, GoodList
<1>1. /\ el'[s].pc \in {"register", "fetch", "store", "next_elected",
                        "send_elected"} => el'[s].who \notin Backups
      /\ el'[s].pc \in {"set_elected", "register"} => el'[s].who = s
      /\ el'[s].pc \in {"fetch", "store", "next_elected"} => el'[s].who # s
      /\ el'[s].pc = "set_elected" => Backups \cap Between(s, el'[s].next) = {}
  <2>1. CASE el'[s] = el[s]
    BY <1>0, <2>1 DEF AnnouncesPrimary
  <2>2. CASE HandleElected(s) /\ inbox[s] # << >>
             /\ Head(inbox[s]).type = "elected" /\ Head(inbox[s]).who # s
             /\ el'[s].pc = "fetch" /\ el'[s].who = Head(inbox[s]).who
    <3>1. 1 \in 1 .. Len(inbox[s]) /\ inbox[s][1] = Head(inbox[s])
      BY <1>0, <2>2
    <3>. QED
      BY <1>0, <2>2, <3>1 DEF AnnouncesPrimary
  <2>3. CASE ElNext(s) /\ IsNext(el'[s].next, s, metadata[s].servers)
             /\ el'[s].pc = (IF el[s].who = s THEN "set_elected"
                             ELSE "send_election")
             /\ el'[s].who = (IF Outranks(s, el[s].who) THEN s
                              ELSE el[s].who)
    BY <1>0, <2>3 DEF IsNext
  <2>4. CASE /\ el[s].pc \in {"register", "fetch", "store", "next_elected"}
             /\ el'[s].pc \in {"store", "next_elected", "send_elected"}
             /\ el'[s].who = el[s].who
             /\ el'[s].pc = "send_elected" \/ el[s].pc \in {"fetch", "store"}
    BY <1>0, <2>4 DEF AnnouncesPrimary
  <2>5. CASE el'[s].pc \in {"accept", "next"}
    BY <2>5
  <2>. QED
    BY <1>0, <2>1, <2>2, <2>3, <2>4, <2>5, ElMoves, ElAfter
<1>2. ASSUME NEW i \in 1 .. Len(inbox'[s]), inbox'[s][i].type = "elected"
      PROVE  inbox'[s][i].who \notin Backups
  <2>0. \A k \in 1 .. Len(inbox[s]) :
          inbox[s][k].type = "elected" => inbox[s][k].who \notin Backups
    BY <1>0 DEF AnnouncesPrimary
  <2>1. CASE inbox'[s] = inbox[s]
    BY <1>2, <2>0, <2>1
  <2>2. CASE inbox'[s] = << >>
    BY <1>2, <2>2
  <2>3. CASE inbox[s] # << >> /\ inbox'[s] = Tail(inbox[s])
    <3>1. i + 1 \in 1 .. Len(inbox[s]) /\ inbox'[s][i] = inbox[s][i + 1]
      BY <1>0, <1>2, <2>3
    <3>. QED
      BY <1>2, <2>0, <3>1
  <2>4. ASSUME NEW m \in Message, Arrives(m, s),
               inbox'[s] = Append(inbox[s], m)
        PROVE  inbox'[s][i].who \notin Backups
    <3>1. Len(inbox[s]) \in Nat /\ Len(inbox'[s]) = Len(inbox[s]) + 1
          /\ inbox'[s][Len(inbox[s]) + 1] = m
          /\ \A k \in 1 .. Len(inbox[s]) : inbox'[s][k] = inbox[s][k]
      BY <1>0, <2>4
    <3>2. CASE i \in 1 .. Len(inbox[s])
      BY <1>2, <2>0, <3>1, <3>2
    <3>3. CASE i \notin 1 .. Len(inbox[s])
      <4>1. inbox'[s][i] = m /\ m.type = "elected"
        BY <1>2, <3>1, <3>3
      <4>2. PICK t \in Server : SendElected(t) /\ m.who = el[t].who
        BY <2>4, <4>1 DEF Arrives
      <4>3. AnnouncesPrimary(t)
        BY DEF Quietly
      <4>. QED
        BY <4>1, <4>2, <4>3 DEF AnnouncesPrimary, SendElected
    <3>. QED
      BY <3>2, <3>3
  <2>. QED
    BY <1>0, <2>1, <2>2, <2>3, <2>4, MailMoves
<1>. QED
  BY <1>0, <1>1, <1>2 DEF AnnouncesPrimary, Between

LEMMA QuietDetecting ==
  ASSUME NEW c \in Server, Quietly(c), NEW s \in Server
  PROVE  Detecting(s)'
<1>0. /\ TypeOK /\ IInv /\ [Next]_vars /\ Backups' = Backups /\ Reign(c)
      /\ Detecting(s) /\ hb \in [Server -> HbState] /\ hb[s] \in HbState
      /\ hb[s].who \in Server \ Backups
  BY SameRoles DEF Quietly, IInv, TypeOK, WatchedPrimary, HbState
<1>1. SUFFICES ASSUME hb'[s].pc \in {"check", "filter"}
               PROVE  /\ ~Up(hb[s].who)' /\ hb'[s].who = hb[s].who
                      /\ \/ s \in Initiators
                         \/ hb[s].who \notin metadata'[s].servers
  BY DEF Detecting, Up
<1>2. CASE hb'[s] = hb[s]
  <2>1. /\ ~Up(hb[s].who)
        /\ s \in Initiators \/ hb[s].who \notin metadata[s].servers
    BY <1>0, <1>1, <1>2 DEF Detecting
  <2>2. ASSUME hb[s].who \notin metadata[s].servers
        PROVE  hb[s].who \notin metadata'[s].servers
    <3>1. ASSUME NEW S, metadata'[s] = Remove(metadata[s], S)
          PROVE  hb[s].who \notin metadata'[s].servers
      BY <2>2, <3>1 DEF Remove
    <3>2. CASE s \in Backups /\ el[s].pc = "store" /\ metadata'[s] = el[s].reply
      <4>1. hb[s].who # c
        BY <1>0, <2>2, <3>2 DEF Reign, Storing, Unaware
      <4>. QED
        BY <1>0, <3>2, <4>1 DEF Reign, Storing
    <3>. QED
      BY <2>2, <3>1, <3>2, ListChanges
  <2>. QED
    BY <1>0, <1>2, <2>1, <2>2, UpBefore
<1>3. CASE HbDetect(s) /\ hb'[s].who = hb[s].who /\ ~Up(hb[s].who)
           /\ (s \in Initiators \/ hb[s].who \notin metadata[s].servers)
  <2>1. UNCHANGED metadata
    BY <1>3 DEF HbDetect
  <2>. QED
    BY <1>0, <1>3, <2>1, UpBefore
<1>4. CASE HbCheckType(s) /\ hb[s].pc = "check" /\ hb'[s].who = hb[s].who
  <2>1. UNCHANGED metadata
    BY <1>4 DEF HbCheckType
  <2>. QED
    BY <1>0, <1>4, <2>1, UpBefore DEF Detecting
<1>. QED
  BY <1>0, <1>1, <1>2, <1>3, <1>4, HbMoves, HbAfter

LEMMA QuietComsIdle ==
  ASSUME NEW c \in Server, Quietly(c), NEW s \in Server
  PROVE  ComsIdle(s)'
<1>0. /\ TypeOK /\ IInv /\ [Next]_vars /\ Backups' = Backups /\ Reign(c)
      /\ \A t \in Server : ComsIdle(t)
      /\ coms \in [Server -> ComsState] /\ coms[s] \in ComsState
      /\ c \in Server \ Backups
  BY SameRoles DEF Quietly, IInv, TypeOK, Reign
<1>1. ASSUME NEW t \in Server, ComsFetch(t) PROVE FALSE
  <2>1. Up(t) /\ t \notin Backups
    BY <1>0, <1>1 DEF ComsFetch, ComsIdle
  <2>2. t = c
    BY <1>0, <2>1, WhoRuns
  <2>3. metadata[c].flagged = {c}
    BY <1>0 DEF Quietly, PrimaryLists
  <2>. QED
    BY <1>1, <2>2, <2>3 DEF ComsFetch, FirstFlagged
<1>2. CASE coms'[s] = coms[s]
  BY <1>0, <1>2 DEF ComsIdle
<1>3. CASE ComsMove(s)
  <2>1. ComsSelfConnect(s)
    BY <1>0, <1>1, <1>3 DEF ComsMove, ComsStore, ComsIdle
  <2>2. coms'[s].pc = "wedged" /\ s \notin Backups
    BY <1>0, <2>1 DEF ComsSelfConnect, ComsIdle, ComsState
  <2>. QED
    BY <1>0, <2>2 DEF ComsIdle
<1>4. CASE Serving(s) /\ coms'[s] = Served(coms, s)[s]
  <2>1. s = c /\ coms[s].pc = "accept"
    BY <1>1, <1>4, WhoAnswers DEF Serving
  <2>2. coms'[s].pc # "store"
    BY <1>0, <1>4, <2>1 DEF Served, ComsState
  <2>. QED
    BY <1>0, <2>1, <2>2 DEF ComsIdle
<1>. QED
  BY <1>0, <1>2, <1>3, <1>4, ComsMoves

LEMMA QuietNotYetAnnounced ==
  ASSUME NEW c \in Server, Quietly(c), NEW e \in Server
  PROVE  NotYetAnnounced(e)'
<1>0. /\ TypeOK /\ [Next]_vars /\ NotYetAnnounced(e)
      /\ \A s \in Server : AnnouncesPrimary(s) /\ ~SetElected(s)
      /\ el \in [Server -> ElState]
      /\ inbox \in [Server -> Seq(Message)]
  BY DEF Quietly, IInv, TypeOK
<1>1. SUFFICES ASSUME el'[e].pc = "register"
               PROVE  /\ ~InMail(inbox', Announcement(e))
                      /\ \A s \in Server \ {e} :
                           el'[s].pc \in {"register", "fetch", "store",
                                          "next_elected", "send_elected"}
                             => el'[s].who # e
  BY DEF NotYetAnnounced, InMail, Announcement
<1>2. el[e].pc = "register"
  BY <1>0, <1>1, ElMoves, ElAfter
<1>3. /\ ~InMail(inbox, Announcement(e))
      /\ \A s \in Server \ {e} :
           el[s].pc \in {"register", "fetch", "store", "next_elected",
                         "send_elected"} => el[s].who # e
  BY <1>0, <1>2 DEF NotYetAnnounced
<1>4. ASSUME NEW j \in Server, NEW i \in 1 .. Len(inbox'[j]),
             inbox'[j][i] \in Announcement(e)
      PROVE  FALSE
  <2>0. /\ \A k \in 1 .. Len(inbox[j]) : inbox[j][k] \notin Announcement(e)
        /\ inbox[j] \in Seq(Message)
    BY <1>0, <1>3 DEF InMail
  <2>1. CASE inbox'[j] = inbox[j]
    BY <1>4, <2>0, <2>1
  <2>2. CASE inbox'[j] = << >>
    BY <1>4, <2>2
  <2>3. CASE inbox[j] # << >> /\ inbox'[j] = Tail(inbox[j])
    <3>1. i + 1 \in 1 .. Len(inbox[j]) /\ inbox'[j][i] = inbox[j][i + 1]
      BY <1>4, <2>0, <2>3
    <3>. QED
      BY <1>4, <2>0, <3>1
  <2>4. ASSUME NEW m \in Message, Arrives(m, j),
               inbox'[j] = Append(inbox[j], m)
        PROVE  FALSE
    <3>1. Len(inbox[j]) \in Nat /\ Len(inbox'[j]) = Len(inbox[j]) + 1
          /\ inbox'[j][Len(inbox[j]) + 1] = m
          /\ \A k \in 1 .. Len(inbox[j]) : inbox'[j][k] = inbox[j][k]
      BY <2>0, <2>4
    <3>2. m = [type |-> "elected", who |-> e]
      BY <1>4, <2>0, <3>1 DEF Announcement
    <3>3. PICK t \in Server : SendElected(t) /\ el[t].who = e
      BY <2>4, <3>2 DEF Arrives
    <3>. QED
      BY <1>2, <1>3, <3>3 DEF SendElected
  <2>. QED
    BY <1>0, <2>1, <2>2, <2>3, <2>4, MailMoves
<1>5. ASSUME NEW s \in Server \ {e},
             el'[s].pc \in {"register", "fetch", "store", "next_elected",
                            "send_elected"}
      PROVE  el'[s].who # e
  <2>1. CASE HandleElected(s) /\ inbox[s] # << >>
             /\ Head(inbox[s]).type = "elected"
             /\ el'[s].who = Head(inbox[s]).who
    <3>1. inbox[s] \in Seq(Message)
      BY <1>0
    <3>2. 1 \in 1 .. Len(inbox[s]) /\ inbox[s][1] = Head(inbox[s])
          /\ inbox[s][1] \in Message
      BY <2>1, <3>1
    <3>3. inbox[s][1] \notin Announcement(e)
      BY <1>3, <3>2 DEF InMail
    <3>. QED
      BY <2>1, <3>2, <3>3 DEF Announcement, Message
  <2>2. CASE el'[s] = el[s]
    BY <1>3, <1>5, <2>2
  <2>3. CASE el'[s].who = el[s].who
             /\ el[s].pc \in {"register", "fetch", "store", "next_elected"}
    BY <1>3, <2>3
  <2>. QED
    BY <1>0, <1>5, <2>1, <2>2, <2>3, ElMoves, ElAfter
<1>. QED
  BY <1>4, <1>5 DEF InMail

-----------------------------------------------------------------------------
(* The step that elects s, in a state in which c reigns *)

Succeeds(s, c) ==
  /\ IInv /\ SetElected(s)
  /\ PrimaryLists
  /\ \A t \in Server : /\ AnnouncesPrimary(t) /\ Detecting(t)
                       /\ ComsIdle(t) /\ NotYetAnnounced(t)
  /\ Reign(c)

\* The election has been all around the ring when s takes over.
LEMMA RoundOver ==
  ASSUME NEW c \in Server, NEW s \in Server, Succeeds(s, c)
  PROVE  /\ s \in Backups /\ c \notin Backups /\ ~Up(c)
         /\ Tokens = {<<s, "el">>} /\ ~InMail(inbox, ElectionMail)
         /\ Marked = {} /\ Unaware(c) = {}
         /\ el[s].pc = "set_elected" /\ el[s].who = s
<1>0. /\ Reign(c) /\ Up(s) /\ el[s].pc = "set_elected" /\ c \notin Backups
      /\ AnnouncesPrimary(s) /\ TokenAt(s, c)
  BY DEF Succeeds, SetElected, Reign
<1>1. s \in Candidates
  BY <1>0 DEF Candidates
<1>2. <<s, "el">> \in Tokens
  BY <1>1 DEF Tokens
<1>3. Tokens = {<<s, "el">>} /\ ~InMail(inbox, ElectionMail)
  BY <1>0, <1>2 DEF Reign, Single
<1>4. ~Up(c)
  BY <1>0, <1>2 DEF Reign, Electing, Election
<1>5. s \in Backups /\ s # c
  BY <1>0, <1>4, WhoRuns
<1>6. el[s].who = s
  BY <1>0 DEF AnnouncesPrimary
<1>7. s \notin Marked /\ Passed(c, s, s)
  BY <1>0, <1>1, <1>6 DEF TokenAt
<1>8. \A b \in Server : b # s => b \in Between(s, s)
  BY FirstServer DEF Between
<1>9. Marked = {} /\ Unaware(c) = {}
  BY <1>5, <1>7, <1>8 DEF Passed, Marked, Backups
<1>. QED
  BY <1>0, <1>3, <1>4, <1>5, <1>6, <1>9

LEMMA NewPrimary ==
  ASSUME NEW c \in Server, NEW s \in Server, Succeeds(s, c)
  PROVE  /\ UNCHANGED <<status, inbox, hb, coms>>
         /\ Backups' = Backups \ {s}
         /\ el'[s].pc = "register" /\ el'[s].who = s
         /\ el'[s].next = el[s].next
         /\ \A t \in Server : t # s => el'[t] = el[t]
         /\ \A t \in Server : metadata'[t].servers = metadata[t].servers
         /\ \A t \in Server : t # s => metadata'[t] = metadata[t]
         /\ metadata'[s].flagged = {s}
<1>0. /\ TypeOK /\ el \in [Server -> ElState] /\ el[s] \in ElState
      /\ metadata \in [Server -> Metadata] /\ metadata[s] \in Metadata
      /\ serverType \in [Server -> {"primary", "backup"}]
      /\ s \in metadata[s].servers
  BY RoundOver DEF Succeeds, IInv, TypeOK, ListsGood, GoodList
<1>1. Backups' = Backups \ {s}
  BY <1>0 DEF Succeeds, SetElected, Backups
<1>2. /\ el'[s].pc = "register" /\ el'[s].who = el[s].who
      /\ el'[s].next = el[s].next
      /\ \A t \in Server : t # s => el'[t] = el[t]
  BY <1>0 DEF Succeeds, SetElected, ElGoto, ElState
<1>3. metadata[s].flagged = {}
  BY RoundOver DEF Marked
<1>4. /\ metadata'[s].servers = metadata[s].servers
      /\ metadata'[s].flagged = metadata[s].flagged \cup ({s} \cap metadata[s].servers)
      /\ \A t \in Server : t # s => metadata'[t] = metadata[t]
  BY <1>0 DEF Succeeds, SetElected, Metadata
<1>5. metadata'[s].flagged = {s}
  BY <1>0, <1>3, <1>4
<1>6. UNCHANGED <<status, inbox, hb, coms>>
  BY DEF Succeeds, SetElected
<1>. QED
  BY <1>1, <1>2, <1>4, <1>5, <1>6, RoundOver

\* Nobody has the news of s yet, and no message bears it.
LEMMA NewsOfNobody ==
  ASSUME NEW c \in Server, NEW s \in Server, Succeeds(s, c)
  PROVE  /\ Unaware(s)' = Backups' /\ Aware(s)' = {}
         /\ ~InMail(inbox', Announcement(s))
         /\ \A t \in Server \ {s} :
              el'[t].pc \in {"register", "fetch", "store", "next_elected",
                             "send_elected"} => el'[t].who # s
<1>1. s \in Backups /\ Marked = {} /\ UNCHANGED inbox
  BY RoundOver, NewPrimary
<1>2. \A b \in Backups' : /\ b \in Server /\ b \in Backups /\ b # s
                          /\ metadata'[b] = metadata[b]
                          /\ metadata[b].flagged = {}
                          /\ s \in metadata[b].servers
  BY <1>1, NewPrimary DEF Succeeds, IInv, ListsGood, GoodList, Marked, Backups
<1>3. Unaware(s)' = Backups'
  BY <1>2 DEF Unaware
<1>4. \A j \in Server : AnnouncesPrimary(j)
  BY DEF Succeeds
<1>5. ~InMail(inbox, Announcement(s))
  BY <1>1, <1>4 DEF InMail, Announcement, AnnouncesPrimary
<1>6. \A t \in Server \ {s} :
        el'[t].pc \in {"register", "fetch", "store", "next_elected",
                       "send_elected"} => el'[t].who # s
  BY <1>1, <1>4, NewPrimary DEF AnnouncesPrimary
<1>. QED
  BY <1>1, <1>3, <1>5, <1>6 DEF Aware

LEMMA NewReign ==
  ASSUME NEW c \in Server, NEW s \in Server, Succeeds(s, c)
  PROVE  Reign(s)'
<1>0. /\ Backups' = Backups \ {s} /\ s \in Backups /\ c \notin Backups
      /\ Reign(c) /\ Backups \subseteq Server
  BY RoundOver, NewPrimary DEF Succeeds, Backups
<1>1. OthersGone(s)'
  <2>1. SUFFICES ASSUME NEW p \in Server \ Backups', p # s
                 PROVE  /\ ~Up(p)'
                        /\ \A b \in Backups' \cup {s} :
                             p \notin metadata'[b].servers
    BY DEF OthersGone
  <2>2. p \in Server \ Backups
    BY <1>0, <2>1
  <2>3. ~Up(p)
    BY <1>0, <2>2, RoundOver DEF Reign, OthersGone
  <2>4. ASSUME NEW b \in Backups PROVE p \notin metadata[b].servers
    BY <1>0, <2>2, RoundOver DEF Reign, OthersGone, Unaware, Marked
  <2>. QED
    BY <1>0, <2>3, <2>4, NewPrimary DEF Up
<1>2. StillListed(s)'
  BY NewsOfNobody DEF StillListed, Unaware
<1>3. InOrder(s)'
  <2>1. \A b \in Server : ~Watches(b, s)'
    BY <1>0, NewPrimary DEF Succeeds, IInv, WatchedPrimary, Watches
  <2>2. Backups' \subseteq Server
    BY <1>0
  <2>. QED
    BY <2>1, <2>2, NewsOfNobody DEF InOrder, Between, Watches
<1>4. Storing(s)'
  <2>1. \A x \in Backups' : el'[x].pc # "store"
    BY <1>0, RoundOver, NewPrimary DEF Marked
  <2>. QED
    BY <2>1, NewPrimary DEF Storing
<1>5. Announced(s)'
  <2>1. Announcers(s)' \subseteq {s}
    BY NewsOfNobody DEF Announcers
  <2>2. Single(Announcers(s)', inbox', Announcement(s))
    BY <2>1, NewsOfNobody, SingleBorn
  <2>3. ASSUME NEW t \in Server PROVE AnnouncedAt(t, s)'
    <3>1. \A i \in 1 .. Len(inbox'[t]) : inbox'[t][i] \notin Announcement(s)
      BY NewsOfNobody DEF InMail
    <3>2. CASE t # s
      <4>1. t \notin Announcers(s)'
        BY <2>1, <3>2
      <4>. QED
        BY <3>1, <4>1 DEF AnnouncedAt, Announcement
    <3>3. CASE t = s
      <4>1. Backups \cap Between(s, el[s].next) = {}
        BY RoundOver DEF Succeeds, AnnouncesPrimary
      <4>2. /\ Unaware(s)' \cap Between(s, el'[s].next) = {}
            /\ Aware(s)' = {} /\ el'[s].pc = "register"
        BY <1>0, <4>1, NewPrimary, NewsOfNobody
      <4>. QED
        BY <3>1, <3>3, <4>2
           DEF AnnouncedAt, Reaches, Reached, NotBeyond, Between, Announcement
    <3>. QED
      BY <3>2, <3>3
  <2>. QED
    BY <2>2, <2>3 DEF Announced, Single, InMail, Announcement
<1>6. Tokens' = {} /\ ~InMail(inbox', ElectionMail)
  <2>1. Candidates' = {} /\ Starters' = {}
    <3>1. Candidates \subseteq {s} /\ Starters = {}
      <4>1. \A t \in Candidates : <<t, "el">> \in Tokens
        BY DEF Tokens
      <4>2. \A t \in Starters : <<t, "hb">> \in Tokens
        BY DEF Tokens
      <4>. QED
        BY <4>1, <4>2, RoundOver
    <3>. QED
      BY <3>1, NewPrimary DEF Candidates, Starters, Up
  <2>. QED
    BY <2>1, RoundOver, NewPrimary DEF Tokens, InMail
<1>7. Single(Tokens', inbox', ElectionMail)
  BY <1>6 DEF Single, InMail
<1>8. ~Election'
  BY <1>6 DEF Election, InMail, ElectionMail
<1>9. ASSUME NEW t \in Server PROVE TokenAt(t, s)'
  <2>1. t \notin Candidates' /\ t \notin Starters'
    <3>1. ASSUME t \in Candidates' PROVE <<t, "el">> \in Tokens'
      BY <3>1 DEF Tokens
    <3>2. ASSUME t \in Starters' PROVE <<t, "hb">> \in Tokens'
      BY <3>2 DEF Tokens
    <3>. QED
      BY <1>6, <3>1, <3>2
  <2>2. \A i \in 1 .. Len(inbox'[t]) : inbox'[t][i].type # "election"
    <3>1. inbox'[t] \in Seq(Message)
      BY NewPrimary DEF Succeeds, IInv, TypeOK
    <3>2. \A i \in 1 .. Len(inbox'[t]) : inbox'[t][i] \notin ElectionMail
      BY <1>6 DEF InMail
    <3>. QED
      BY <3>1, <3>2 DEF ElectionMail
  <2>. QED
    BY <2>1, <2>2 DEF TokenAt
<1>. QED
  BY <1>0, <1>1, <1>2, <1>3, <1>4, <1>5, <1>7, <1>8, <1>9
     DEF Reign, Electing, Single, InMail, ElectionMail

LEMMA SuccessionKeeps ==
  ASSUME NEW c \in Server, NEW s \in Server, Succeeds(s, c)
  PROVE  OneDetectorInv'
<1>0. Backups' = Backups \ {s} /\ s \in Backups
  BY RoundOver, NewPrimary
<1>1. PrimaryLists'
  BY <1>0, NewPrimary DEF Succeeds, PrimaryLists
<1>2. ASSUME NEW t \in Server PROVE AnnouncesPrimary(t)'
  BY <1>0, NewPrimary DEF Succeeds, AnnouncesPrimary, Between
<1>3. ASSUME NEW t \in Server PROVE Detecting(t)'
  BY <1>0, NewPrimary DEF Succeeds, Detecting, Up
<1>4. ASSUME NEW t \in Server PROVE ComsIdle(t)'
  BY <1>0, NewPrimary DEF Succeeds, ComsIdle
<1>5. ASSUME NEW e \in Server PROVE NotYetAnnounced(e)'
  <2>1. CASE e = s
    BY <2>1, NewsOfNobody DEF NotYetAnnounced, InMail, Announcement
  <2>2. CASE e # s
    BY <2>2, NewPrimary DEF Succeeds, NotYetAnnounced, InMail, Announcement
  <2>. QED
    BY <2>1, <2>2
<1>. QED
  BY <1>1, <1>2, <1>3, <1>4, <1>5, NewReign DEF OneDetectorInv

-----------------------------------------------------------------------------
(* The invariant *)

LEMMA OneDetectorInit == ASSUME BusyComs = {} PROVE Init => OneDetectorInv
<1>1. SUFFICES ASSUME Init PROVE OneDetectorInv
  OBVIOUS
<1>2. /\ 1 \in Server /\ Backups = Server \ {1}
      /\ \A s \in Server :
           /\ metadata[s] = Everybody /\ inbox[s] = << >>
           /\ el[s].pc = "accept" /\ hb[s].pc \in {"stopped", "lookup"}
           /\ Up(s)
  BY <1>1, FirstServer DEF Init, Backups, Up
<1>3. \A s \in Server : coms[s].pc = "accept"
  BY <1>1, FirstServer DEF Init
<1>4. /\ Unaware(1) = {} /\ Announcers(1) = {} /\ Candidates = {}
      /\ Starters = {}
  BY <1>2 DEF Unaware, Announcers, Candidates, Starters, Everybody
<1>5. Tokens = {} /\ \A K : ~InMail(inbox, K)
  BY <1>2, <1>4 DEF Tokens, InMail
<1>6. ~Election /\ Single(Tokens, inbox, ElectionMail)
      /\ Single(Announcers(1), inbox, Announcement(1))
  BY <1>4, <1>5 DEF Election, Single, InMail
<1>7. OthersGone(1) /\ StillListed(1) /\ InOrder(1) /\ Storing(1)
  BY <1>2, <1>4 DEF OthersGone, StillListed, InOrder, Storing, Everybody
<1>8. \A s \in Server : AnnouncedAt(s, 1) /\ TokenAt(s, 1)
  BY <1>2, <1>4 DEF AnnouncedAt, TokenAt
<1>9. Reign(1)
  BY <1>2, <1>6, <1>7, <1>8 DEF Reign, Announced, Electing
<1>10. PrimaryLists
  BY <1>2 DEF PrimaryLists, Everybody
<1>11. \A s \in Server : /\ AnnouncesPrimary(s) /\ Detecting(s)
                         /\ ComsIdle(s) /\ NotYetAnnounced(s)
  BY <1>2, <1>3 DEF AnnouncesPrimary, Detecting, ComsIdle, NotYetAnnounced
<1>. QED
  BY <1>2, <1>9, <1>10, <1>11 DEF OneDetectorInv

LEMMA QuietReign ==
  ASSUME NEW c \in Server, Quietly(c), \A a, b \in Initiators : a = b
  PROVE  Reign(c)'
<1>1. Backups' = Backups /\ c \in Server \ Backups
  BY SameRoles DEF Quietly, Reign
<1>2. Announced(c)'
  <2>1. CASE ~Up(c)'
    BY <2>1 DEF Announced
  <2>2. CASE Up(c)'
    BY <2>2, QuietOnce, QuietAnnounced
       DEF Announced, Single, InMail, Announcement
  <2>. QED
    BY <2>1, <2>2
<1>3. /\ Single(Tokens', inbox', ElectionMail) /\ Electing(c)'
      /\ \A s \in Server : TokenAt(s, c)'
  BY QuietToken, QuietElecting, QuietTokenAt
<1>. QED
  BY <1>1, <1>2, <1>3, QuietOthers, QuietListed, QuietOrder, QuietStoring
     DEF Reign, Single, InMail, ElectionMail

LEMMA OneDetectorStep ==
  ASSUME IInv, Forgetting, OneDetectorInv, [Next]_vars,
         \A a, b \in Initiators : a = b
  PROVE  OneDetectorInv'
<1>1. PICK c \in Server : Reign(c)
  BY DEF OneDetectorInv
<1>2. ASSUME NEW s \in Server, SetElected(s) PROVE OneDetectorInv'
  BY <1>1, <1>2, SuccessionKeeps DEF Succeeds, OneDetectorInv
<1>3. CASE \A s \in Server : ~SetElected(s)
  <2>1. Quietly(c)
    BY <1>1, <1>3 DEF Quietly, OneDetectorInv
  <2>. QED
    BY <2>1, QuietReign, QuietPrimaryLists, QuietAnnouncesPrimary,
       QuietDetecting, QuietComsIdle, QuietNotYetAnnounced
       DEF OneDetectorInv
<1>. QED
  BY <1>2, <1>3

LEMMA OneDetector ==
  ASSUME BusyComs = {}, \A a, b \in Initiators : a = b
  PROVE  Spec => [](IInv /\ Forgetting /\ OneDetectorInv)
<1>1. Init => IInv /\ Forgetting /\ OneDetectorInv
  BY IInvInit, ForgettingInit, OneDetectorInit
<1>2. IInv /\ Forgetting /\ OneDetectorInv /\ [Next]_vars
        => (IInv /\ Forgetting /\ OneDetectorInv)'
  BY IInvStep, ForgettingStep, OneDetectorStep
<1>. QED
  BY <1>1, <1>2, PTL DEF Spec

\* Why a process has ended.
LEMMA EndMoves ==
  ASSUME TypeOK, [Next]_vars, NEW s \in Server
  PROVE  \/ status'[s] = status[s]
         \/ status'[s] \in {"read_failed", "no_dns", "crashed"}
         \/ InconsistentList(s) /\ status'[s] = "inconsistent"
         \/ /\ HbNoPrimary(s) \/ ComsNoPrimary(s)
            /\ status'[s] = "null_primary"
<1>0. status \in [Server -> {"up", "crashed", "read_failed", "inconsistent",
                             "null_primary", "no_dns"}]
  BY DEF TypeOK
<1>1. ASSUME NEW t \in Server, NEW why, End(t, why)
      PROVE  IF t = s THEN status'[s] = why ELSE status'[s] = status[s]
  BY <1>0, <1>1 DEF End
<1>2. ASSUME NEW t \in Server, ElMove(t) \/ HbMove(t) \/ ComsMove(t)
      PROVE  UNCHANGED status
  BY <1>2 DEF ElMove, HandleElection, ElNext, SendElection, SetElected,
     RegisterWithDns, SendElected, HandleElected, FetchFromElected,
     FetchFails, StoreElected, ElNextElected, HbMove, HbLookup, HbConnect,
     HbFirstBeat, HbDetect, HbCheckType, HbFilter, HbNext, HbSend, ComsMove,
     ComsSelfConnect, ComsFetch, ComsStore
<1>3. UNCHANGED vars => UNCHANGED status
  BY DEF vars
<1>4. ASSUME NEW t \in Server,
             \/ ReadTorn(t) \/ DnsUnreachable(t) \/ HeartbeatReadFails(t)
             \/ Crash(t)
      PROVE  \/ status'[s] = status[s]
             \/ status'[s] \in {"read_failed", "no_dns", "crashed"}
  BY <1>1, <1>4 DEF ReadTorn, DnsUnreachable, HeartbeatReadFails, Crash
<1>5. ASSUME NEW t \in Server, InconsistentList(t)
      PROVE  \/ status'[s] = status[s]
             \/ InconsistentList(s) /\ status'[s] = "inconsistent"
  <2>1. End(t, "inconsistent")
    BY <1>5 DEF InconsistentList
  <2>. QED
    BY <1>1, <1>5, <2>1
<1>6. ASSUME NEW t \in Server, HbNoPrimary(t) \/ ComsNoPrimary(t)
      PROVE  \/ status'[s] = status[s]
             \/ /\ HbNoPrimary(s) \/ ComsNoPrimary(s)
                /\ status'[s] = "null_primary"
  <2>1. End(t, "null_primary")
    BY <1>6 DEF HbNoPrimary, ComsNoPrimary
  <2>. QED
    BY <1>1, <1>6, <2>1
<1>. QED
  BY <1>2, <1>3, <1>4, <1>5, <1>6 DEF Next, ElThread, HbThread, ComsThread,
     ElMove, HbMove, ComsMove, ElInconsistent, HbInconsistent

\* Who lists what while c reigns.
LEMMA ListsNow ==
  ASSUME IInv, Forgetting, PrimaryLists, NEW c \in Server, Reign(c),
         NEW s \in Server
  PROVE  /\ Cardinality(metadata[s].flagged) <= 1
         /\ Up(s) => s \in metadata[s].servers
<1>1. c \in Server \ Backups
  BY DEF Reign
<1>2. \E p \in Server : metadata[s].flagged \subseteq {p}
  BY <1>1, OnlyMark DEF PrimaryLists
<1>3. \A p : Cardinality({p}) = 1 /\ Cardinality({}) = 0
  BY FS_Singleton, FS_EmptySet
<1>4. Cardinality(metadata[s].flagged) <= 1
  <2>1. PICK p \in Server : metadata[s].flagged \subseteq {p}
    BY <1>2
  <2>2. metadata[s].flagged = {} \/ metadata[s].flagged = {p}
    BY <2>1
  <2>. QED
    BY <1>3, <2>2
<1>5. ASSUME Up(s) PROVE s \in metadata[s].servers
  <2>1. CASE s \in Backups
    BY <2>1 DEF IInv, ListsGood, GoodList
  <2>2. CASE s = c
    BY <1>1, <2>2, OnlyMark DEF PrimaryLists
  <2>. QED
    BY <1>5, <2>1, <2>2, WhoRuns
<1>. QED
  BY <1>4, <1>5

\* Two running processes never both hold the role of primary, when one server
\* alone can start an election: whoever takes over does so after the election
\* went all around the ring, past a primary that had ended (setElected).
THEOREM OneLivePrimary ==
  ASSUME BusyComs = {}, \A a, b \in Initiators : a = b
  PROVE  Spec => []AtMostOneLivePrimary
<1>1. IInv /\ Forgetting /\ OneDetectorInv => AtMostOneLivePrimary
  BY WhoRuns DEF OneDetectorInv, AtMostOneLivePrimary
<1>. QED
  BY <1>1, OneDetector, PTL

\* Then no list names two primaries either: what a server marks, stores or
\* keeps marked is the last elected, and a former primary only lists itself
\* (get_primary_server stops at the first).
THEOREM OneFlagged ==
  ASSUME BusyComs = {}, \A a, b \in Initiators : a = b
  PROVE  Spec => []AtMostOneFlagged
<1>1. IInv /\ Forgetting /\ OneDetectorInv => AtMostOneFlagged
  BY ListsNow DEF OneDetectorInv, AtMostOneFlagged
<1>. QED
  BY <1>1, OneDetector, PTL

\* And no <elected, e> is on its way while e has still to write to the DNS:
\* there is no second announcement of e that could be older than its write
\* (setElected, then sendElectedMessage).
THEOREM RegisteredFirst ==
  ASSUME BusyComs = {}, \A a, b \in Initiators : a = b
  PROVE  Spec => []AnnouncedAfterRegistered
<1>1. IInv /\ Forgetting /\ OneDetectorInv => AnnouncedAfterRegistered
  BY DEF OneDetectorInv, NotYetAnnounced, InMail, Announcement,
     AnnouncedAfterRegistered
<1>. QED
  BY <1>1, OneDetector, PTL

\* The consistency check of getNextServer (election.cpp:98) never fails: a
\* running backup is in its own list, and so is the running primary.
THEOREM ListsConsistent ==
  ASSUME BusyComs = {}, \A a, b \in Initiators : a = b
  PROVE  Spec => []NoInconsistentList
<1>1. Init => NoInconsistentList
  BY DEF Init, NoInconsistentList
<1>2. IInv /\ Forgetting /\ OneDetectorInv /\ NoInconsistentList
        /\ [Next]_vars => NoInconsistentList'
  <2>1. SUFFICES ASSUME IInv, Forgetting, OneDetectorInv, NoInconsistentList,
                        [Next]_vars, NEW s \in Server
                 PROVE  status'[s] # "inconsistent"
    BY DEF NoInconsistentList
  <2>2. ~InconsistentList(s)
    BY <2>1, ListsNow DEF OneDetectorInv, InconsistentList
  <2>3. TypeOK
    BY <2>1 DEF IInv
  <2>. QED
    BY <2>1, <2>2, <2>3, EndMoves DEF NoInconsistentList
<1>. QED
  BY <1>1, <1>2, OneDetector, PTL DEF Spec

-----------------------------------------------------------------------------
(* Nothing is lost while no server but the old primary has ended           *)

Lossless(c) ==
  ~Disturbed =>
    /\ c = 1 /\ ~Election => \A b \in Backups : metadata[b].flagged # {}
    /\ c # 1 /\ Unaware(c) # {} =>
         Announcers(c) # {} \/ InMail(inbox, Announcement(c))

LosslessInv ==
  /\ status[1] # "null_primary"
  /\ \E c \in Server : Reign(c) /\ Lossless(c)

\* A message waits until it is handled.
LEMMA MailStays ==
  ASSUME TypeOK, [Next]_vars, NEW j \in Server, Up(j)',
         NEW i \in 1 .. Len(inbox[j])
  PROVE  \/ \E k \in 1 .. Len(inbox'[j]) : inbox'[j][k] = inbox[j][i]
         \/ /\ inbox[j] # << >> /\ inbox[j][i] = Head(inbox[j])
            /\ HandleElection(j) \/ HandleElected(j)
<1>0. inbox[j] \in Seq(Message)
  BY DEF TypeOK
<1>1. CASE inbox'[j] = inbox[j]
  BY <1>1
<1>2. CASE inbox[j] # << >> /\ inbox'[j] = Tail(inbox[j]) /\ i # 1
  <2>1. i - 1 \in 1 .. Len(inbox'[j]) /\ inbox'[j][i - 1] = inbox[j][i]
    BY <1>0, <1>2
  <2>. QED
    BY <2>1
<1>3. CASE inbox[j] # << >> /\ i = 1
           /\ (HandleElection(j) \/ HandleElected(j))
  BY <1>0, <1>3
<1>4. ASSUME NEW m \in Message, inbox'[j] = Append(inbox[j], m)
      PROVE  \E k \in 1 .. Len(inbox'[j]) : inbox'[j][k] = inbox[j][i]
  <2>1. i \in 1 .. Len(inbox'[j]) /\ inbox'[j][i] = inbox[j][i]
    BY <1>0, <1>4
  <2>. QED
    BY <2>1
<1>. QED
  BY <1>1, <1>2, <1>3, <1>4, MailMoves

\* A message to a process that runs arrives.
LEMMA Delivered ==
  ASSUME TypeOK, NEW n \in Server, Up(n), NEW m \in Message, Deliver(n, m),
         NEW K, m \in K
  PROVE  InMail(inbox', K)
<1>1. inbox[n] \in Seq(Message) /\ inbox'[n] = Append(inbox[n], m)
  BY DEF Deliver, TypeOK
<1>2. Len(inbox[n]) + 1 \in 1 .. Len(inbox'[n])
      /\ inbox'[n][Len(inbox[n]) + 1] = m
  BY <1>1
<1>. QED
  BY <1>2 DEF InMail

\* The step after which still nobody but the old primary has ended.
Peacefully(c) == Quietly(c) /\ ~Disturbed'

LEMMA Peace ==
  ASSUME NEW c \in Server, Peacefully(c)
  PROVE  /\ ~Disturbed
         /\ \A s \in Server \ {1} : Up(s) /\ Up(s)' /\ ~Ends(s)
         /\ \A s \in Server : s \in Candidates \/ s \in Starters
              \/ s \in Announcers(c) => s # 1
         /\ inbox[1] = << >>
<1>0. TypeOK /\ [Next]_vars /\ Forgetting /\ FirstIdle /\ Reign(c)
  BY DEF Peacefully, Quietly, IInv, Forgetting
<1>1. \A s \in Server \ {1} : Up(s)' /\ Up(s)
  BY <1>0, UpBefore DEF Peacefully, Disturbed, Up
<1>2. \A s \in Server \ {1} : ~Ends(s)
  BY <1>0, <1>1 DEF Ends, End, TypeOK, Up
<1>3. ~Disturbed
  BY <1>1 DEF Disturbed
<1>4. 1 \notin Candidates /\ 1 \notin Starters /\ 1 \notin Announcers(c)
      /\ inbox[1] = << >>
  BY <1>0 DEF FirstIdle, Candidates, Starters, Announcers
<1>. QED
  BY <1>1, <1>2, <1>3, <1>4

LEMMA ElectionStays ==
  ASSUME NEW c \in Server, Peacefully(c), Election
  PROVE  Election'
<1>0. /\ TypeOK /\ [Next]_vars /\ Forgetting
      /\ \A s \in Server : ~SetElected(s)
      /\ el \in [Server -> ElState] /\ hb \in [Server -> HbState]
      /\ inbox \in [Server -> Seq(Message)]
      /\ \A s \in Server \ {1} : ElOld(s) /\ HbOld(s)
  BY DEF Peacefully, Quietly, IInv, TypeOK, Forgetting
<1>1. /\ \A s \in Server : s \in Candidates' \/ s \in Starters' => Election'
      /\ InMail(inbox', ElectionMail) => Election'
  <2>1. ASSUME NEW s \in Server, s \in Candidates' PROVE Tokens' # {}
    <3>1. <<s, "el">> \in Tokens'
      BY <2>1 DEF Tokens
    <3>. QED
      BY <3>1
  <2>2. ASSUME NEW s \in Server, s \in Starters' PROVE Tokens' # {}
    <3>1. <<s, "hb">> \in Tokens'
      BY <2>2 DEF Tokens
    <3>. QED
      BY <3>1
  <2>. QED
    BY <2>1, <2>2 DEF Election, InMail, ElectionMail
<1>2. ASSUME NEW s \in Server, s \in Candidates PROVE Election'
  <2>0. s # 1 /\ Up(s)' /\ el[s].pc \in {"next", "set_elected", "send_election"}
    BY <1>2, Peace DEF Candidates
  <2>1. CASE el'[s].pc \in {"next", "set_elected", "send_election"}
    BY <1>1, <2>0, <2>1 DEF Candidates
  <2>2. CASE SendElection(s)
    <3>. DEFINE m == [type |-> "election", who |-> el[s].who]
    <3>1. el[s].next \in Server /\ el[s].next # 1 /\ el[s].who \in Server
      BY <1>0, <2>0, <2>2 DEF SendElection, ElOld, ElState
    <3>2. m \in Message /\ m \in ElectionMail /\ Deliver(el[s].next, m)
      BY <2>2, <3>1 DEF Message, ElectionMail, SendElection
    <3>. HIDE DEF m
    <3>3. InMail(inbox', ElectionMail)
      BY <1>0, <3>1, <3>2, Peace, Delivered
    <3>. QED
      BY <1>1, <3>3
  <2>. QED
    BY <1>0, <2>0, <2>1, <2>2, ElMoves, ElAfter
<1>3. ASSUME NEW s \in Server, s \in Starters PROVE Election'
  <2>0. s # 1 /\ Up(s)' /\ hb[s].pc \in {"next", "send"}
    BY <1>3, Peace DEF Starters
  <2>1. CASE hb'[s] = hb[s] \/ hb'[s].pc = "send"
    <3>1. hb'[s].pc \in {"next", "send"}
      BY <2>0, <2>1
    <3>. QED
      BY <1>1, <2>0, <3>1 DEF Starters
  <2>2. CASE HbSend(s)
    <3>. DEFINE m == [type |-> "election", who |-> s]
    <3>1. hb[s].next \in Server /\ hb[s].next # 1
      BY <1>0, <2>0, <2>2 DEF HbSend, HbOld, HbState
    <3>2. m \in Message /\ m \in ElectionMail /\ Deliver(hb[s].next, m)
      BY <2>2, <3>1 DEF Message, ElectionMail, HbSend
    <3>. HIDE DEF m
    <3>3. InMail(inbox', ElectionMail)
      BY <1>0, <3>1, <3>2, Peace, Delivered
    <3>. QED
      BY <1>1, <3>3
  <2>. QED
    BY <1>0, <2>0, <2>1, <2>2, HbMoves, HbAfter DEF HbLookup, HbWakes
<1>4. ASSUME NEW j \in Server, NEW i \in 1 .. Len(inbox[j]),
             inbox[j][i] \in ElectionMail
      PROVE  Election'
  <2>0. j # 1 /\ Up(j)' /\ inbox[j][i].type = "election"
    BY <1>4, Peace DEF ElectionMail
  <2>1. CASE \E k \in 1 .. Len(inbox'[j]) : inbox'[j][k] = inbox[j][i]
    BY <1>1, <1>4, <2>1 DEF InMail
  <2>2. CASE inbox[j][i] = Head(inbox[j])
             /\ (HandleElection(j) \/ HandleElected(j))
    <3>1. HandleElection(j)
      BY <2>0, <2>2 DEF HandleElected, ElRead
    <3>2. el'[j].pc = "next"
      BY <1>0, <3>1 DEF HandleElection, ElState
    <3>. QED
      BY <1>1, <2>0, <3>2 DEF Candidates
  <2>. QED
    BY <1>0, <2>0, <2>1, <2>2, MailStays
<1>5. CASE InMail(inbox, ElectionMail)
  BY <1>4, <1>5 DEF InMail
<1>6. CASE Tokens # {}
  <2>1. (\E s \in Server : s \in Candidates) \/ (\E s \in Server : s \in Starters)
    BY <1>6 DEF Tokens, Candidates, Starters
  <2>. QED
    BY <1>2, <1>3, <2>1
<1>. QED
  BY <1>5, <1>6 DEF Election

\* Before the first takeover a list without a primary is one in an election.
LEMMA FlaggedStays ==
  ASSUME NEW c \in Server, Peacefully(c), Lossless(c), c = 1, ~Election',
         NEW b \in Backups'
  PROVE  metadata'[b].flagged # {}
<1>0. /\ TypeOK /\ [Next]_vars /\ Reign(c) /\ Backups' = Backups
      /\ IInv /\ Forgetting /\ PrimaryLists /\ b \in Server /\ b # c
      /\ hb \in [Server -> HbState] /\ b \in Backups
  BY SameRoles DEF Peacefully, Quietly, IInv, TypeOK, Reign, Backups
<1>1. ~Election /\ metadata[b].flagged # {} /\ Up(b)'
  BY <1>0, ElectionStays, Peace DEF Lossless
<1>2. CASE HbFilter(b) /\ metadata'[b] = Remove(metadata[b], {hb[b].who})
  <2>1. CASE hb[b].who \in metadata[b].servers
    <3>1. b \in Starters'
      BY <1>0, <1>1, <1>2, <2>1 DEF HbFilter, HbGoto, Starters, HbState
    <3>2. <<b, "hb">> \in Tokens'
      BY <3>1 DEF Tokens
    <3>. QED
      BY <3>2 DEF Election
  <2>2. CASE hb[b].who \notin metadata[b].servers
    <3>1. metadata[b].flagged \subseteq metadata[b].servers
      BY <1>0, OnlyMark
    <3>2. metadata'[b].flagged = metadata[b].flagged
      BY <1>2, <2>2, <3>1 DEF Remove
    <3>. QED
      BY <1>1, <3>2
  <2>. QED
    BY <2>1, <2>2
<1>3. CASE el[b].pc = "store" /\ metadata'[b] = el[b].reply
  BY <1>0, <1>3 DEF Reign, Storing
<1>. QED
  BY <1>0, <1>1, <1>2, <1>3, ListChanges DEF Peacefully

\* After one the news of it goes on as long as somebody has not heard it.
LEMMA NewsStays ==
  ASSUME NEW c \in Server, Peacefully(c), Lossless(c), c # 1,
         Unaware(c)' # {}
  PROVE  Announcers(c)' # {} \/ InMail(inbox', Announcement(c))
<1>0. /\ TypeOK /\ [Next]_vars /\ Reign(c) /\ Forgetting
      /\ \A s \in Server : ~SetElected(s)
      /\ el \in [Server -> ElState]
      /\ inbox \in [Server -> Seq(Message)]
      /\ \A s \in Server : ElOld(s)
      /\ Up(c) /\ c \in Server \ Backups
  BY Peace DEF Peacefully, Quietly, IInv, TypeOK, Forgetting, Reign
<1>1. Unaware(c) # {} /\ (Announcers(c) # {} \/ InMail(inbox, Announcement(c)))
  <2>1. Unaware(c) # {}
    BY Learning DEF Peacefully
  <2>. QED
    BY <2>1, Peace DEF Lossless
<1>2. ASSUME NEW s \in Announcers(c)
      PROVE  Announcers(c)' # {} \/ InMail(inbox', Announcement(c))
  <2>0. /\ s \in Server /\ s # 1 /\ Up(s)' /\ el[s].who = c
        /\ el[s].pc \in {"register", "fetch", "store", "next_elected",
                         "send_elected"}
    BY <1>2, Peace DEF Announcers
  <2>1. CASE /\ el'[s].who = c
             /\ el'[s].pc \in {"register", "fetch", "store", "next_elected",
                               "send_elected"}
    BY <2>0, <2>1 DEF Announcers
  <2>2. CASE SendElected(s)
    <3>. DEFINE m == [type |-> "elected", who |-> el[s].who]
    <3>1. el[s].next \in Server /\ el[s].next # 1
      BY <1>0, <2>0, <2>2 DEF SendElected, ElOld, ElState
    <3>2. m \in Message /\ m \in Announcement(c) /\ Deliver(el[s].next, m)
      BY <2>0, <2>2 DEF Message, Announcement, SendElected
    <3>. HIDE DEF m
    <3>. QED
      BY <1>0, <3>1, <3>2, Peace, Delivered
  <2>. QED
    BY <1>0, <2>0, <2>1, <2>2, ElMoves, ElAfter
<1>3. ASSUME NEW j \in Server, NEW i \in 1 .. Len(inbox[j]),
             inbox[j][i] \in Announcement(c)
      PROVE  Announcers(c)' # {} \/ InMail(inbox', Announcement(c))
  <2>0. /\ j # 1 /\ Up(j)' /\ inbox[j][i] = [type |-> "elected", who |-> c]
    BY <1>3, Peace DEF Announcement
  <2>1. CASE \E k \in 1 .. Len(inbox'[j]) : inbox'[j][k] = inbox[j][i]
    BY <1>3, <2>1 DEF InMail
  <2>2. CASE inbox[j][i] = Head(inbox[j])
             /\ (HandleElection(j) \/ HandleElected(j))
    <3>1. HandleElected(j) /\ Head(inbox[j]).who = c
      BY <2>0, <2>2 DEF HandleElection, ElRead
    <3>2. j # c
      <4>1. Reaches(c, j)
        BY <1>0, <1>3 DEF Reign, Announced, AnnouncedAt
      <4>2. \A b \in Unaware(c) : b \in Server /\ b # c
        BY <1>0 DEF Unaware, Backups
      <4>3. \A b \in Unaware(c) : b \in Between(c, c)
        BY <4>2, FirstServer DEF Between
      <4>. QED
        BY <1>1, <4>1, <4>3 DEF Reaches, Reached
    <3>3. el'[j].pc = "fetch" /\ el'[j].who = c
      BY <1>0, <3>1, <3>2 DEF HandleElected, ElState
    <3>. QED
      BY <2>0, <3>3 DEF Announcers
  <2>. QED
    BY <1>0, <2>0, <2>1, <2>2, MailStays
<1>. QED
  BY <1>1, <1>2, <1>3 DEF InMail

LEMMA LosslessStep ==
  ASSUME IInv, Forgetting, OneDetectorInv, LosslessInv, [Next]_vars,
         \A a, b \in Initiators : a = b
  PROVE  LosslessInv'
<1>0. TypeOK /\ FirstIdle /\ 1 \in Server
  BY FirstServer DEF IInv, Forgetting
<1>1. status'[1] # "null_primary"
  <2>1. ~HbNoPrimary(1) /\ ~ComsNoPrimary(1)
    BY <1>0 DEF FirstIdle, HbNoPrimary, HbWakes, ComsNoPrimary
  <2>. QED
    BY <1>0, <2>1, EndMoves DEF LosslessInv
<1>2. PICK c \in Server : Reign(c) /\ Lossless(c)
  BY DEF LosslessInv
<1>3. ASSUME NEW s \in Server, SetElected(s)
      PROVE  Reign(s)' /\ Lossless(s)'
  <2>1. Succeeds(s, c)
    BY <1>2, <1>3 DEF Succeeds, OneDetectorInv
  <2>2. Reign(s)'
    BY <2>1, NewReign
  <2>3. s # 1
    BY <1>0, <1>3 DEF FirstIdle, SetElected
  <2>4. Up(s)'
    BY <1>3 DEF SetElected, Up
  <2>5. s \in Announcers(s)'
    BY <2>1, <2>4, NewPrimary DEF Announcers
  <2>. QED
    BY <2>2, <2>3, <2>5 DEF Lossless
<1>4. CASE \A s \in Server : ~SetElected(s)
  <2>1. Quietly(c)
    BY <1>2, <1>4 DEF Quietly, OneDetectorInv
  <2>2. Reign(c)'
    BY <2>1, QuietReign
  <2>3. ASSUME ~Disturbed' PROVE Peacefully(c)
    BY <2>1, <2>3 DEF Peacefully
  <2>4. Lossless(c)'
    BY <1>2, <2>3, FlaggedStays, NewsStays
       DEF Lossless, InMail, Announcement
  <2>. QED
    BY <1>1, <2>2, <2>4 DEF LosslessInv
<1>. QED
  BY <1>1, <1>3, <1>4 DEF LosslessInv

LEMMA LosslessInit == ASSUME BusyComs = {} PROVE Init => LosslessInv
<1>1. SUFFICES ASSUME Init PROVE LosslessInv
  OBVIOUS
<1>2. 1 \in Server /\ Backups = Server \ {1} /\ status[1] = "up"
      /\ \A s \in Server : metadata[s].flagged = {1}
  BY <1>1, FirstServer DEF Init, Backups, Everybody
<1>3. OneDetectorInv
  BY <1>1, OneDetectorInit
<1>4. PICK c \in Server : Reign(c)
  BY <1>3 DEF OneDetectorInv
<1>5. c = 1
  BY <1>2, <1>4 DEF Reign
<1>6. Lossless(c)
  BY <1>2, <1>5 DEF Lossless, Backups
<1>. QED
  BY <1>2, <1>4, <1>6 DEF LosslessInv

\* While nobody but the old primary has ended, a server finds a primary in
\* its list whenever no election is running.
LEMMA AlwaysPrimary ==
  ASSUME IInv, Forgetting, OneDetectorInv, LosslessInv, ~Disturbed,
         ElectionQuiet, NEW s \in Server \ {1}
  PROVE  metadata[s].flagged # {}
<1>0. TypeOK /\ FirstIdle /\ Up(s) /\ PrimaryLists
      /\ inbox \in [Server -> Seq(Message)]
  BY DEF IInv, TypeOK, Forgetting, Disturbed, OneDetectorInv
<1>1. PICK c \in Server : Reign(c) /\ Lossless(c)
  BY DEF LosslessInv
<1>2. \A j \in Server : inbox[j] = << >>
  BY <1>0 DEF ElectionQuiet, Disturbed, FirstIdle
<1>3. \A K : ~InMail(inbox, K)
  BY <1>2 DEF InMail
<1>4. Candidates = {} /\ Starters = {} /\ Announcers(c) = {}
  BY DEF ElectionQuiet, Candidates, Starters, Announcers
<1>5. Tokens = {}
  BY <1>4 DEF Tokens
<1>6. ~Election
  BY <1>3, <1>5 DEF Election
<1>7. CASE s = c
  BY <1>0, <1>1, <1>7 DEF PrimaryLists, Reign
<1>8. CASE s # c
  <2>1. s \in Backups
    BY <1>0, <1>1, <1>8, WhoRuns
  <2>2. CASE c = 1
    BY <1>1, <1>6, <2>1, <2>2 DEF Lossless
  <2>3. CASE c # 1
    <3>1. Unaware(c) = {}
      BY <1>1, <1>3, <1>4, <2>3 DEF Lossless
    <3>2. c \in metadata[s].servers
      BY <1>1, <2>1, <2>3 DEF Reign, StillListed, Disturbed
    <3>. QED
      BY <2>1, <3>1, <3>2 DEF Unaware
  <2>. QED
    BY <2>2, <2>3
<1>. QED
  BY <1>7, <1>8

\* Only an election that is still running leaves a server without a primary
\* to look up (get_primary_server in heartbeat_writer_thread), as long as no
\* server but the old primary has ended.
THEOREM LookupSafe ==
  ASSUME BusyComs = {}, \A a, b \in Initiators : a = b
  PROVE  Spec => PrimaryLookupSafe
<1>. DEFINE A == \A s \in Server :
                   ~Disturbed /\ status'[s] = "null_primary" => ~ElectionQuiet
            J == IInv /\ Forgetting /\ OneDetectorInv
<1>1. Init => LosslessInv
  BY LosslessInit
<1>2. J /\ LosslessInv /\ [Next]_vars => LosslessInv'
  BY LosslessStep
<1>3. J /\ LosslessInv /\ [Next]_vars => A
  <2>1. SUFFICES ASSUME J, LosslessInv, [Next]_vars, NEW s \in Server,
                        ~Disturbed, status'[s] = "null_primary", ElectionQuiet
                 PROVE  FALSE
    OBVIOUS
  <2>2. TypeOK /\ FirstIdle /\ 1 \in Server
    BY <2>1, FirstServer DEF IInv, Forgetting
  <2>3. s # 1
    <3>1. ~HbNoPrimary(1) /\ ~ComsNoPrimary(1)
      BY <2>2 DEF FirstIdle, HbNoPrimary, HbWakes, ComsNoPrimary
    <3>. QED
      BY <2>1, <2>2, <3>1, EndMoves DEF LosslessInv
  <2>4. HbNoPrimary(s) \/ ComsNoPrimary(s)
    BY <2>1, <2>2, <2>3, EndMoves DEF Disturbed, Up
  <2>5. metadata[s].flagged # {}
    BY <2>1, <2>3, AlwaysPrimary
  <2>. QED
    BY <2>4, <2>5 DEF HbNoPrimary, ComsNoPrimary, ListsPrimary
<1>4. Spec => []J
  BY OneDetector
<1>. HIDE DEF J
<1>5. Spec => [][A]_vars
  <2>1. [Next]_vars /\ J /\ LosslessInv => [A]_vars
    BY <1>3
  <2>. QED
    BY <1>1, <1>2, <1>4, <2>1, PTL DEF Spec
<1>. QED
  BY <1>5 DEF PrimaryLookupSafe

=============================================================================
