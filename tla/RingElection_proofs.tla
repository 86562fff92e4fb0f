------------------------ MODULE RingElection_proofs ------------------------
(***************************************************************************)
(* Proofs about RingElection for any number of servers, any ranking, any   *)
(* set of crashes and initiators.                                          *)
(***************************************************************************)
EXTENDS RingElection, TLAPS

-----------------------------------------------------------------------------
(* Type correctness *)

\* The end of a process changes nothing but its status and the inboxes.
LEMMA EndType ==
  ASSUME TypeOK, NEW s \in Server,
         NEW why \in {"crashed", "read_failed", "inconsistent",
                      "null_primary", "no_dns"},
         End(s, why)
  PROVE  TypeOK'
<1>1. status' \in [Server -> {"up", "crashed", "read_failed", "inconsistent",
                              "null_primary", "no_dns"}]
  BY DEF TypeOK, End
<1>2. inbox' \in [Server -> Seq(Message)]
  <2>1. [type |-> "torn", who |-> s] \in Message
    BY DEF Message
  <2>. QED
    BY <2>1 DEF TypeOK, End
<1>. QED
  BY <1>1, <1>2 DEF TypeOK, End

LEMMA RemoveType ==
  ASSUME NEW l \in Metadata, NEW S PROVE Remove(l, S) \in Metadata
BY DEF Remove, Metadata

LEMMA TransmittedType ==
  ASSUME NEW l \in Metadata PROVE Transmitted(l) \in Metadata
BY DEF Transmitted, FirstFlagged, Metadata

LEMMA DeliverType ==
  ASSUME TypeOK, NEW j \in Server, NEW m \in Message, Deliver(j, m)
  PROVE  inbox' \in [Server -> Seq(Message)]
BY DEF TypeOK, Deliver

\* Reading a message from an inbox that is not empty.
LEMMA ReadType ==
  ASSUME TypeOK, NEW s \in Server, inbox[s] # << >>,
         inbox' = [inbox EXCEPT ![s] = Tail(@)]
  PROVE  /\ Head(inbox[s]) \in Message
         /\ Head(inbox[s]).who \in Server
         /\ inbox' \in [Server -> Seq(Message)]
<1>1. inbox[s] \in Seq(Message) /\ inbox \in [Server -> Seq(Message)]
  BY DEF TypeOK
<1>2. Head(inbox[s]) \in Message /\ Tail(inbox[s]) \in Seq(Message)
  BY <1>1
<1>3. Head(inbox[s]).who \in Server
  BY <1>2 DEF Message
<1>. QED
  BY <1>1, <1>2, <1>3

LEMMA MetadataUpdate ==
  ASSUME TypeOK, NEW s \in Server, NEW l \in Metadata,
         metadata' = [metadata EXCEPT ![s] = l]
  PROVE  metadata' \in [Server -> Metadata]
BY DEF TypeOK

\* The election thread moves to p, with a candidate w.
LEMMA ElUpdate ==
  ASSUME TypeOK, NEW s \in Server, NEW w \in Server,
         NEW p \in {"accept", "next", "set_elected", "register",
                    "send_election", "send_elected", "fetch", "store",
                    "next_elected"}
  PROVE  /\ [el EXCEPT ![s].pc = p, ![s].who = w] \in [Server -> ElState]
         /\ \A n \in Server :
              [el EXCEPT ![s].next = n, ![s].pc = p, ![s].who = w]
                \in [Server -> ElState]
<1>1. [el EXCEPT ![s].pc = p, ![s].who = w] \in [Server -> ElState]
  BY ZenonT(60) DEF TypeOK, ElState
<1>2. ASSUME NEW n \in Server
      PROVE  [el EXCEPT ![s].next = n, ![s].pc = p, ![s].who = w]
               \in [Server -> ElState]
  <2>1. el[s] \in ElState /\ el \in [Server -> ElState]
    BY DEF TypeOK
  <2>2. [el[s] EXCEPT !.next = n, !.pc = p, !.who = w] \in ElState
    BY <2>1 DEF ElState
  <2>. QED
    BY <2>1, <2>2
<1>. QED
  BY <1>1, <1>2

LEMMA HbUpdate ==
  ASSUME TypeOK, NEW s \in Server, NEW w \in Server,
         NEW p \in {"stopped", "lookup", "connect", "connected", "beating",
                    "check", "filter", "next", "send"}
  PROVE  /\ [hb EXCEPT ![s].pc = p, ![s].who = w] \in [Server -> HbState]
         /\ [hb EXCEPT ![s].pc = p, ![s].next = w] \in [Server -> HbState]
BY ZenonT(60) DEF TypeOK, HbState

LEMMA ServedType ==
  ASSUME NEW c \in [Server -> ComsState], NEW e \in Server
  PROVE  Served(c, e) \in [Server -> ComsState]
<1>1. Deferred(e) \in 0 .. N
  BY NAssumption DEF Deferred, Server
<1>2. CASE Deferred(e) = 0
  BY <1>2 DEF Served
<1>3. CASE Deferred(e) # 0
  BY <1>1, <1>3 DEF Served, ComsState
<1>. QED
  BY <1>2, <1>3

LEMMA NextDeferredType ==
  ASSUME TypeOK, NEW s \in Server
  PROVE  NextDeferred(s) \in [Server -> ComsState]
<1>. DEFINE p == IF coms[s].left > 1 THEN "deferred" ELSE "accept"
            k == IF coms[s].left > 1 THEN coms[s].left - 1 ELSE 0
<1>1. coms[s].left \in 0 .. N /\ coms \in [Server -> ComsState]
  BY DEF TypeOK, ComsState
<1>2. p \in {"accept", "deferred", "store", "wedged"} /\ k \in 0 .. N
  BY <1>1, NAssumption
<1>3. NextDeferred(s) = [coms EXCEPT ![s].pc = p, ![s].left = k]
  BY <1>1 DEF NextDeferred, ComsState
<1>. HIDE DEF p, k
<1>. QED
  BY <1>1, <1>2, <1>3 DEF ComsState

LEMMA TypeStep == TypeOK /\ [Next]_vars => TypeOK'
<1>. SUFFICES ASSUME TypeOK, [Next]_vars PROVE TypeOK'
  OBVIOUS
<1>. USE NAssumption
<1>1. ASSUME NEW s \in Server, ReadTorn(s) PROVE TypeOK'
  BY <1>1, EndType DEF ReadTorn
<1>2. ASSUME NEW s \in Server, HandleElection(s) PROVE TypeOK'
  <2>1. Head(inbox[s]).who \in Server /\ inbox' \in [Server -> Seq(Message)]
    BY <1>2, ReadType DEF HandleElection, ElRead
  <2>2. metadata' \in [Server -> Metadata]
    <3>1. Remove(metadata[s], metadata[s].flagged) \in Metadata
      BY RemoveType DEF TypeOK
    <3>. QED
      BY <1>2, <3>1, MetadataUpdate DEF HandleElection
  <2>. QED
    BY <1>2, <2>1, <2>2, ElUpdate DEF HandleElection, TypeOK
<1>3. ASSUME NEW s \in Server, ElInconsistent(s) PROVE TypeOK'
  BY <1>3, EndType DEF ElInconsistent, InconsistentList
<1>4. ASSUME NEW s \in Server, ElNext(s) PROVE TypeOK'
  <2>. DEFINE p == IF el[s].who = s THEN "set_elected" ELSE "send_election"
              w == IF Outranks(s, el[s].who) THEN s ELSE el[s].who
  <2>1. w \in Server
    BY DEF TypeOK, ElState
  <2>2. PICK n \in Server :
          el' = [el EXCEPT ![s].next = n, ![s].pc = p, ![s].who = w]
    BY <1>4 DEF ElNext
  <2>3. el' \in [Server -> ElState]
    BY ZenonT(60), <2>1, <2>2, ElUpdate
  <2>. QED
    BY <1>4, <2>3 DEF TypeOK, ElNext
<1>5. ASSUME NEW s \in Server, SendElection(s) PROVE TypeOK'
  <2>1. [type |-> "election", who |-> el[s].who] \in Message
    BY DEF TypeOK, ElState, Message
  <2>2. inbox' \in [Server -> Seq(Message)]
    BY <1>5, <2>1, DeliverType DEF TypeOK, SendElection, ElState
  <2>. QED
    BY ZenonT(60), <1>5, <2>2 DEF TypeOK, SendElection, ElGoto, ElState
<1>6. ASSUME NEW s \in Server, SetElected(s) PROVE TypeOK'
  <2>1. metadata' \in [Server -> Metadata]
    BY <1>6 DEF TypeOK, SetElected, Metadata
  <2>2. serverType' \in [Server -> {"primary", "backup"}]
    BY <1>6 DEF TypeOK, SetElected
  <2>3. el' \in [Server -> ElState]
    BY ZenonT(60), <1>6 DEF TypeOK, SetElected, ElGoto, ElState
  <2>. QED
    BY <1>6, <2>1, <2>2, <2>3 DEF TypeOK, SetElected
<1>7. ASSUME NEW s \in Server, RegisterWithDns(s) PROVE TypeOK'
  BY ZenonT(60), <1>7 DEF TypeOK, RegisterWithDns, ElGoto, ElState
<1>8. ASSUME NEW s \in Server, DnsUnreachable(s) PROVE TypeOK'
  BY <1>8, EndType DEF DnsUnreachable
<1>9. ASSUME NEW s \in Server, SendElected(s) PROVE TypeOK'
  <2>1. [type |-> "elected", who |-> el[s].who] \in Message
    BY DEF TypeOK, ElState, Message
  <2>2. inbox' \in [Server -> Seq(Message)]
    BY <1>9, <2>1, DeliverType DEF TypeOK, SendElected, ElState
  <2>. QED
    BY ZenonT(60), <1>9, <2>2 DEF TypeOK, SendElected, ElGoto, ElState
<1>10. ASSUME NEW s \in Server, HandleElected(s) PROVE TypeOK'
  <2>1. Head(inbox[s]).who \in Server /\ inbox' \in [Server -> Seq(Message)]
    BY <1>10, ReadType DEF HandleElected, ElRead
  <2>2. el' \in [Server -> ElState]
    BY <1>10, <2>1, ElUpdate DEF HandleElected, TypeOK
  <2>. QED
    BY <1>10, <2>1, <2>2 DEF HandleElected, TypeOK
<1>11. ASSUME NEW s \in Server, FetchFromElected(s) PROVE TypeOK'
  <2>. DEFINE e == el[s].who
  <2>1. e \in Server
    BY DEF TypeOK, ElState
  <2>2. Transmitted(metadata[e]) \in Metadata
    BY <2>1, TransmittedType DEF TypeOK
  <2>3. el' \in [Server -> ElState]
    <3>1. el' = [el EXCEPT ![s].pc = "store",
                           ![s].reply = Transmitted(metadata[e])]
      BY <1>11 DEF FetchFromElected
    <3>. QED
      BY ZenonT(60), <2>2, <3>1 DEF TypeOK, ElState
  <2>4. coms' \in [Server -> ComsState]
    BY <1>11, <2>1, ServedType DEF FetchFromElected, TypeOK
  <2>. QED
    BY <1>11, <2>3, <2>4 DEF FetchFromElected, TypeOK
<1>12. ASSUME NEW s \in Server, FetchFails(s) PROVE TypeOK'
  BY ZenonT(60), <1>12 DEF TypeOK, FetchFails, ElGoto, ElState
<1>13. ASSUME NEW s \in Server, StoreElected(s) PROVE TypeOK'
  BY ZenonT(60), <1>13 DEF TypeOK, StoreElected, ElGoto, ElState
<1>14. ASSUME NEW s \in Server, ElNextElected(s) PROVE TypeOK'
  <2>1. PICK n \in Server :
          el' = [el EXCEPT ![s].next = n, ![s].pc = "send_elected"]
    BY <1>14 DEF ElNextElected
  <2>2. el' \in [Server -> ElState]
    BY ZenonT(60), <2>1 DEF TypeOK, ElState
  <2>. QED
    BY <1>14, <2>2 DEF TypeOK, ElNextElected
<1>15. ASSUME NEW s \in Server, HbLookup(s) PROVE TypeOK'
  <2>1. PICK p \in FirstFlagged(metadata[s]) :
          hb' = [hb EXCEPT ![s].pc = IF p = s THEN "stopped" ELSE "connect",
                           ![s].who = p]
    BY <1>15 DEF HbLookup
  <2>2. p \in Server
    BY DEF FirstFlagged, TypeOK, Metadata
  <2>3. hb' \in [Server -> HbState]
    BY <2>1, <2>2, HbUpdate
  <2>. QED
    BY <1>15, <2>3 DEF TypeOK, HbLookup
<1>16. ASSUME NEW s \in Server, HbNoPrimary(s) PROVE TypeOK'
  BY <1>16, EndType DEF HbNoPrimary
<1>17. ASSUME NEW s \in Server, HbConnect(s) PROVE TypeOK'
  BY <1>17 DEF TypeOK, HbConnect, HbGoto, HbState
<1>18. ASSUME NEW s \in Server, HbFirstBeat(s) PROVE TypeOK'
  BY <1>18, ZenonT(60) DEF TypeOK, HbFirstBeat, HbGoto, HbState
<1>19. ASSUME NEW s \in Server, HbDetect(s) PROVE TypeOK'
  BY <1>19, ZenonT(60) DEF TypeOK, HbDetect, HbGoto, HbState
<1>20. ASSUME NEW s \in Server, HbCheckType(s) PROVE TypeOK'
  BY ZenonT(60), <1>20 DEF TypeOK, HbCheckType, HbGoto, HbState
<1>21. ASSUME NEW s \in Server, HbFilter(s) PROVE TypeOK'
  BY ZenonT(60), <1>21 DEF TypeOK, HbFilter, HbGoto, HbState, Remove, Metadata
<1>22. ASSUME NEW s \in Server, HbNext(s) PROVE TypeOK'
  <2>1. PICK n \in Server :
          hb' = [hb EXCEPT ![s].pc = "send", ![s].next = n]
    BY <1>22 DEF HbNext
  <2>2. hb' \in [Server -> HbState]
    BY <2>1, HbUpdate
  <2>. QED
    BY <1>22, <2>2 DEF TypeOK, HbNext
<1>23. ASSUME NEW s \in Server, HbInconsistent(s) PROVE TypeOK'
  BY <1>23, EndType DEF HbInconsistent, InconsistentList
<1>24. ASSUME NEW s \in Server, HbSend(s) PROVE TypeOK'
  <2>1. [type |-> "election", who |-> s] \in Message
    BY DEF Message
  <2>2. inbox' \in [Server -> Seq(Message)]
    BY <1>24, <2>1, DeliverType DEF TypeOK, HbSend, HbState
  <2>3. hb' \in [Server -> HbState]
    <3>1. hb' = [hb EXCEPT ![s].pc = "lookup"]
      BY <1>24 DEF HbSend, HbGoto
    <3>. QED
      BY ZenonT(60), <3>1 DEF TypeOK, HbState
  <2>. QED
    BY <1>24, <2>2, <2>3 DEF TypeOK, HbSend
<1>25. ASSUME NEW s \in Server, HeartbeatReadFails(s) PROVE TypeOK'
  BY <1>25, EndType DEF HeartbeatReadFails
<1>26. ASSUME NEW s \in Server, ComsNoPrimary(s) PROVE TypeOK'
  BY <1>26, EndType DEF ComsNoPrimary
<1>27. ASSUME NEW s \in Server, ComsSelfConnect(s) PROVE TypeOK'
  BY <1>27 DEF TypeOK, ComsSelfConnect, ComsState
<1>28. ASSUME NEW s \in Server, ComsFetch(s) PROVE TypeOK'
  <2>1. PICK p \in FirstFlagged(metadata[s]) \ {s} :
          \/ coms' = [Served(coms, p) EXCEPT
                ![s].pc = "store", ![s].reply = Transmitted(metadata[p])]
          \/ coms' = NextDeferred(s)
    BY <1>28 DEF ComsFetch
  <2>2. p \in Server
    BY DEF FirstFlagged, TypeOK, Metadata
  <2>3. Transmitted(metadata[p]) \in Metadata
    BY <2>2, TransmittedType DEF TypeOK
  <2>4. Served(coms, p) \in [Server -> ComsState]
    BY <2>2, ServedType DEF TypeOK
  <2>5. [Served(coms, p) EXCEPT
           ![s].pc = "store", ![s].reply = Transmitted(metadata[p])]
          \in [Server -> ComsState]
    BY <2>3, <2>4 DEF ComsState
  <2>6. coms' \in [Server -> ComsState]
    BY <2>1, <2>5, NextDeferredType
  <2>. QED
    BY <1>28, <2>6 DEF ComsFetch, TypeOK
<1>29. ASSUME NEW s \in Server, ComsStore(s) PROVE TypeOK'
  <2>1. coms[s].reply \in Metadata
    BY DEF TypeOK, ComsState
  <2>2. metadata' \in [Server -> Metadata]
    BY <1>29, <2>1, MetadataUpdate DEF ComsStore
  <2>3. coms' \in [Server -> ComsState]
    BY <1>29, NextDeferredType DEF ComsStore
  <2>. QED
    BY <1>29, <2>2, <2>3 DEF ComsStore, TypeOK
<1>30. ASSUME NEW s \in Server, Crash(s) PROVE TypeOK'
  BY <1>30, EndType DEF Crash
<1>31. CASE UNCHANGED vars
  BY <1>31 DEF vars, TypeOK
<1>. QED
  BY <1>1, <1>2, <1>3, <1>4, <1>5, <1>6, <1>7, <1>8, <1>9, <1>10, <1>11, <1>12, <1>13, <1>14, <1>15, <1>16, <1>17, <1>18, <1>19, <1>20, <1>21, <1>22, <1>23, <1>24, <1>25, <1>26, <1>27, <1>28, <1>29, <1>30, <1>31
     DEF Next, ElThread, HbThread, ComsThread

LEMMA TypeInit == Init => TypeOK
<1>1. ASSUME Init PROVE TypeOK
  <2>1. 1 \in Server /\ Everybody \in Metadata
    BY NAssumption DEF Server, Everybody, Metadata
  <2>2. coms \in [Server -> ComsState]
    <3>1. PICK left \in [Server -> 0 .. N] :
            coms = [s \in Server |->
                      [pc |-> IF left[s] = 0 THEN "accept" ELSE "deferred",
                       left |-> left[s], reply |-> Everybody]]
      BY <1>1 DEF Init
    <3>. QED
      BY <2>1, <3>1 DEF ComsState
  <2>. QED
    BY <1>1, <2>1, <2>2 DEF Init, TypeOK, ElState, HbState
<1>. QED
  BY <1>1

\* Every variable keeps its type in every behaviour.
THEOREM TypeCorrect == Spec => []TypeOK
BY TypeInit, TypeStep, PTL DEF Spec

-----------------------------------------------------------------------------
(* The inductive invariant                                                 *)
(*                                                                         *)
(* A candidate w travels with the promise that it outranks every backup    *)
(* the message has passed on its way from w; when the message is back at   *)
(* w it has passed all of them.  The promise is kept because the successor *)
(* is taken from a list that contains every backup.                        *)

GoodList(l) == Backups \subseteq l.servers /\ l.flagged \cap Backups = {}

Covered(w, j) == \A b \in Backups : b \in Between(w, j) => Outranks(w, b)

ListsGood == \A s \in Server : GoodList(metadata[s])
ElRepliesGood == \A s \in Server : GoodList(el[s].reply)
ComsRepliesGood == \A s \in Server : GoodList(coms[s].reply)
WatchedPrimary == \A s \in Server : hb[s].who \notin Backups
HbCovered ==
  \A s \in Server : hb[s].pc = "send" => Covered(s, hb[s].next)
ElCovered ==
  \A s \in Server :
    /\ el[s].pc = "next" => Covered(el[s].who, s)
    /\ el[s].pc = "send_election" => Covered(el[s].who, el[s].next)
    /\ el[s].pc = "set_elected" => Covered(s, s)
    /\ el[s].pc = "register" => s \notin Backups
MailCovered ==
  \A j \in Server : \A i \in 1 .. Len(inbox[j]) :
    inbox[j][i].type = "election" => Covered(inbox[j][i].who, j)

IInv ==
  /\ TypeOK
  /\ ListsGood /\ ElRepliesGood /\ ComsRepliesGood
  /\ WatchedPrimary /\ HbCovered /\ ElCovered /\ MailCovered
  /\ ElectedOutranksBackups

-----------------------------------------------------------------------------
(* The ring *)

\* A forwarded candidate has passed the server that forwards it.
LEMMA RingForward ==
  ASSUME NEW w \in Server, NEW s \in Server, NEW n \in Server, NEW S,
         w # s, IsNext(n, s, S), Backups \subseteq S,
         Covered(w, s), ~Outranks(s, w)
  PROVE  Covered(w, n)
<1>1. Outranks(w, s)
  <2>1. Rank[w] \in Nat /\ Rank[s] \in Nat /\ Rank[w] # Rank[s]
    BY RankAssumption
  <2>. QED
    BY <2>1 DEF Outranks
<1>2. SUFFICES ASSUME NEW b \in Backups, b \in Between(w, n)
               PROVE  Outranks(w, b)
  BY DEF Covered
<1>3. b \notin Between(s, n)
  BY DEF IsNext
<1>4. b \in Server /\ w \in Int /\ s \in Int /\ n \in Int /\ b \in Int
  BY NAssumption DEF Backups, Server
<1>5. b = s \/ b \in Between(w, s)
  BY <1>2, <1>3, <1>4 DEF Between
<1>. QED
  BY <1>1, <1>5 DEF Covered

\* A server that proposes itself to its successor has passed nobody.
LEMMA RingStart ==
  ASSUME NEW s \in Server, NEW n \in Server, NEW S,
         IsNext(n, s, S), Backups \subseteq S
  PROVE  Covered(s, n)
BY DEF Covered, IsNext

\* A candidate that is back home has passed everybody.
LEMMA RingComplete ==
  ASSUME NEW s \in Server, Covered(s, s), NEW b \in Backups, b # s
  PROVE  Outranks(s, b)
<1>1. b \in Server /\ b \in Int /\ s \in Int
  BY NAssumption DEF Backups, Server
<1>2. b \in Between(s, s)
  BY <1>1 DEF Between
<1>. QED
  BY <1>2 DEF Covered

\* What is removed from a good list must not be a backup.
LEMMA RemoveGood ==
  ASSUME NEW l, GoodList(l), NEW S, S \cap Backups = {}
  PROVE  GoodList(Remove(l, S))
BY DEF GoodList, Remove

LEMMA TransmittedGood ==
  ASSUME NEW l, GoodList(l)
  PROVE  GoodList(Transmitted(l))
BY DEF GoodList, Transmitted, FirstFlagged

-----------------------------------------------------------------------------
(* What a step that changes no server_type leaves intact *)

LEMMA Keep ==
  ASSUME IInv, UNCHANGED serverType
  PROVE  /\ Backups' = Backups
         /\ \A l : GoodList(l)' = GoodList(l)
         /\ \A w, j : Covered(w, j)' = Covered(w, j)
         /\ ElectedOutranksBackups'
         /\ UNCHANGED metadata => ListsGood'
         /\ UNCHANGED el => ElRepliesGood' /\ ElCovered'
         /\ UNCHANGED coms => ComsRepliesGood'
         /\ UNCHANGED hb => WatchedPrimary' /\ HbCovered'
         /\ UNCHANGED inbox => MailCovered'
<1>1. Backups' = Backups
  BY DEF Backups
<1>2. ElectedOutranksBackups'
  BY <1>1 DEF IInv, ElectedOutranksBackups
<1>3. ASSUME UNCHANGED metadata PROVE ListsGood'
  BY <1>1, <1>3 DEF IInv, ListsGood, GoodList
<1>4. ASSUME UNCHANGED el PROVE ElRepliesGood' /\ ElCovered'
  BY <1>1, <1>4 DEF IInv, ElRepliesGood, ElCovered, GoodList, Covered
<1>5. ASSUME UNCHANGED coms PROVE ComsRepliesGood'
  BY <1>1, <1>5 DEF IInv, ComsRepliesGood, GoodList
<1>6. ASSUME UNCHANGED hb PROVE WatchedPrimary' /\ HbCovered'
  BY <1>1, <1>6 DEF IInv, WatchedPrimary, HbCovered, Covered
<1>7. ASSUME UNCHANGED inbox PROVE MailCovered'
  BY <1>1, <1>7 DEF IInv, MailCovered, Covered
<1>8. \A l : GoodList(l)' = GoodList(l)
  BY <1>1 DEF GoodList
<1>9. \A w, j : Covered(w, j)' = Covered(w, j)
  BY <1>1 DEF Covered
<1>. QED
  BY <1>1, <1>2, <1>3, <1>4, <1>5, <1>6, <1>7, <1>8, <1>9

-----------------------------------------------------------------------------
(* The kinds of updates the actions are made of *)

\* Only the election thread of s moves, and what it now carries is good.
LEMMA ElChange ==
  ASSUME IInv, UNCHANGED serverType, NEW s \in Server,
         \A t \in Server \ {s} : el'[t] = el[t],
         el'[s].pc = "next" => Covered(el'[s].who, s),
         el'[s].pc = "send_election" => Covered(el'[s].who, el'[s].next),
         el'[s].pc = "set_elected" => Covered(s, s),
         el'[s].pc # "register"
  PROVE  ElCovered'
<1>1. Backups' = Backups
  BY Keep
<1>2. ASSUME NEW t \in Server
      PROVE  /\ el'[t].pc = "next" => Covered(el'[t].who, t)
             /\ el'[t].pc = "send_election" => Covered(el'[t].who, el'[t].next)
             /\ el'[t].pc = "set_elected" => Covered(t, t)
             /\ el'[t].pc = "register" => t \notin Backups
  BY DEF IInv, ElCovered
<1>. QED
  BY <1>1, <1>2 DEF ElCovered, Covered

LEMMA HbChange ==
  ASSUME IInv, UNCHANGED serverType, NEW s \in Server,
         \A t \in Server \ {s} : hb'[t] = hb[t],
         hb'[s].pc = "send" => Covered(s, hb'[s].next)
  PROVE  HbCovered'
<1>1. Backups' = Backups
  BY Keep
<1>2. ASSUME NEW t \in Server, hb'[t].pc = "send"
      PROVE  Covered(t, hb'[t].next)
  BY <1>2 DEF IInv, HbCovered
<1>. QED
  BY <1>1, <1>2 DEF HbCovered, Covered

LEMMA MailChange ==
  ASSUME IInv, UNCHANGED serverType,
         \A k \in Server : \A i \in 1 .. Len(inbox'[k]) :
           inbox'[k][i].type = "election" => Covered(inbox'[k][i].who, k)
  PROVE  MailCovered'
<1>1. Backups' = Backups
  BY Keep
<1>. QED
  BY <1>1 DEF MailCovered, Covered

LEMMA DeliverGood ==
  ASSUME IInv, UNCHANGED serverType, NEW j \in Server, NEW m \in Message,
         Deliver(j, m), m.type = "election" => Covered(m.who, j)
  PROVE  MailCovered'
<1>1. inbox \in [Server -> Seq(Message)]
  BY DEF IInv, TypeOK
<1>2. CASE ~Up(j)
  BY <1>2, Keep DEF Deliver
<1>3. CASE Up(j)
  <2>1. inbox' = [inbox EXCEPT ![j] = Append(@, m)]
    BY <1>3 DEF Deliver
  <2>2. SUFFICES ASSUME NEW k \in Server, NEW i \in 1 .. Len(inbox'[k]),
                        inbox'[k][i].type = "election"
                 PROVE  Covered(inbox'[k][i].who, k)
    BY MailChange
  <2>3. CASE k # j
    BY <1>1, <2>1, <2>2, <2>3 DEF IInv, MailCovered
  <2>4. CASE k = j
    <3>1. inbox'[j] = Append(inbox[j], m) /\ inbox[j] \in Seq(Message)
      BY <1>1, <2>1
    <3>2. CASE i = Len(inbox[j]) + 1
      BY <2>2, <2>4, <3>1, <3>2
    <3>3. CASE i # Len(inbox[j]) + 1
      <4>1. i \in 1 .. Len(inbox[j]) /\ inbox'[j][i] = inbox[j][i]
        BY <2>4, <3>1, <3>3
      <4>. QED
        BY <2>2, <2>4, <4>1 DEF IInv, MailCovered
    <3>. QED
      BY <3>2, <3>3
  <2>. QED
    BY <2>3, <2>4
<1>. QED
  BY <1>2, <1>3

LEMMA ReadGood ==
  ASSUME IInv, UNCHANGED serverType, NEW s \in Server, inbox[s] # << >>,
         inbox' = [inbox EXCEPT ![s] = Tail(@)]
  PROVE  /\ MailCovered'
         /\ Head(inbox[s]).type = "election"
              => Covered(Head(inbox[s]).who, s)
<1>1. inbox \in [Server -> Seq(Message)] /\ inbox[s] \in Seq(Message)
  BY DEF IInv, TypeOK
<1>2. Head(inbox[s]) = inbox[s][1] /\ 1 \in 1 .. Len(inbox[s])
  BY <1>1
<1>3. Head(inbox[s]).type = "election" => Covered(Head(inbox[s]).who, s)
  BY <1>2 DEF IInv, MailCovered
<1>4. ASSUME NEW k \in Server, NEW i \in 1 .. Len(inbox'[k]),
             inbox'[k][i].type = "election"
      PROVE  Covered(inbox'[k][i].who, k)
  <2>1. CASE k # s
    BY <1>1, <1>4, <2>1 DEF IInv, MailCovered
  <2>2. CASE k = s
    <3>1. inbox'[s] = Tail(inbox[s])
      BY <1>1
    <3>2. i + 1 \in 1 .. Len(inbox[s]) /\ inbox'[s][i] = inbox[s][i + 1]
      BY <1>1, <2>2, <3>1
    <3>. QED
      BY <1>4, <2>2, <3>2 DEF IInv, MailCovered
  <2>. QED
    BY <2>1, <2>2
<1>5. MailCovered'
  BY <1>4, MailChange
<1>. QED
  BY <1>3, <1>5

LEMMA EndGood ==
  ASSUME IInv, NEW s \in Server, NEW why, End(s, why)
  PROVE  /\ ListsGood' /\ ElRepliesGood' /\ ComsRepliesGood'
         /\ WatchedPrimary' /\ HbCovered' /\ ElCovered' /\ MailCovered'
         /\ ElectedOutranksBackups'
<1>1. UNCHANGED <<serverType, metadata, el, hb, coms, dns>>
  BY DEF End
<1>2. inbox \in [Server -> Seq(Message)]
  BY DEF IInv, TypeOK
<1>3. PICK torn \in SUBSET Sending(s) :
        inbox' = [j \in Server |->
                   IF j = s THEN << >>
                   ELSE IF j \in torn /\ Up(j)
                        THEN Append(inbox[j], [type |-> "torn", who |-> s])
                        ELSE inbox[j]]
  BY DEF End
<1>4. SUFFICES ASSUME NEW k \in Server, NEW i \in 1 .. Len(inbox'[k]),
                      inbox'[k][i].type = "election"
               PROVE  Covered(inbox'[k][i].who, k)
  BY <1>1, Keep, MailChange
<1>5. k # s
  <2>1. SUFFICES ASSUME k = s PROVE FALSE
    OBVIOUS
  <2>2. inbox'[k] = << >>
    BY <1>3, <2>1
  <2>. QED
    BY <2>2
<1>6. CASE k \in torn /\ Up(k)
  <2>1. inbox'[k] = Append(inbox[k], [type |-> "torn", who |-> s])
    BY <1>3, <1>5, <1>6
  <2>2. inbox[k] \in Seq(Message)
    BY <1>2
  <2>3. CASE i = Len(inbox[k]) + 1
    <3>1. inbox'[k][i] = [type |-> "torn", who |-> s]
      BY <2>1, <2>2, <2>3
    <3>. QED
      BY <1>4, <3>1
  <2>4. CASE i # Len(inbox[k]) + 1
    <3>1. i \in 1 .. Len(inbox[k]) /\ inbox'[k][i] = inbox[k][i]
      BY <2>1, <2>2, <2>4
    <3>. QED
      BY <1>4, <3>1 DEF IInv, MailCovered
  <2>. QED
    BY <2>3, <2>4
<1>7. CASE ~(k \in torn /\ Up(k))
  <2>1. inbox'[k] = inbox[k]
    BY <1>3, <1>5, <1>7
  <2>. QED
    BY <1>4, <2>1 DEF IInv, MailCovered
<1>. QED
  BY <1>6, <1>7

\* The election thread moves on without touching what it carries.
LEMMA ElGotoGood ==
  ASSUME IInv, UNCHANGED serverType, NEW s \in Server,
         NEW p \in {"accept", "send_elected", "store", "next_elected"},
         ElGoto(s, p)
  PROVE  ElRepliesGood' /\ ElCovered'
<1>1. /\ el'[s].pc = p /\ el'[s].reply = el[s].reply
      /\ \A t \in Server \ {s} : el'[t] = el[t]
  BY DEF IInv, TypeOK, ElState, ElGoto
<1>2. ElRepliesGood'
  BY <1>1, Keep DEF IInv, ElRepliesGood
<1>3. ElCovered'
  BY <1>1, ElChange
<1>. QED
  BY <1>2, <1>3

LEMMA HbGotoGood ==
  ASSUME IInv, UNCHANGED serverType, NEW s \in Server,
         NEW p \in {"stopped", "lookup", "connect", "connected", "beating",
                    "check", "filter", "next"},
         HbGoto(s, p)
  PROVE  WatchedPrimary' /\ HbCovered'
<1>1. /\ hb'[s].pc = p /\ hb'[s].who = hb[s].who
      /\ \A t \in Server \ {s} : hb'[t] = hb[t]
  BY DEF IInv, TypeOK, HbState, HbGoto
<1>2. HbCovered'
  BY <1>1, HbChange
<1>3. WatchedPrimary'
  BY <1>1, Keep DEF IInv, WatchedPrimary
<1>. QED
  BY <1>2, <1>3

LEMMA MetadataGood ==
  ASSUME IInv, UNCHANGED serverType, NEW s \in Server, NEW l, GoodList(l),
         metadata' = [metadata EXCEPT ![s] = l]
  PROVE  ListsGood'
<1>1. metadata'[s] = l /\ \A t \in Server \ {s} : metadata'[t] = metadata[t]
  BY DEF IInv, TypeOK
<1>. QED
  BY <1>1, Keep DEF IInv, ListsGood

\* Neither a served connection nor the next deferred update changes a reply.
LEMMA ServedReplies ==
  ASSUME TypeOK, NEW e \in Server, NEW t \in Server
  PROVE  /\ Served(coms, e)[t].reply = coms[t].reply
         /\ NextDeferred(e)[t].reply = coms[t].reply
<1>1. coms \in [Server -> ComsState]
  BY DEF TypeOK
<1>2. Served(coms, e)[t].reply = coms[t].reply
  BY <1>1 DEF Served, ComsState
<1>3. NextDeferred(e)[t].reply = coms[t].reply
  BY <1>1 DEF NextDeferred, ComsState
<1>. QED
  BY <1>2, <1>3

-----------------------------------------------------------------------------
(* Every action preserves the invariant *)

LEMMA IInvStep == IInv /\ [Next]_vars => IInv'
<1>. DEFINE Good == /\ ListsGood /\ ElRepliesGood /\ ComsRepliesGood
                    /\ WatchedPrimary /\ HbCovered /\ ElCovered
                    /\ MailCovered /\ ElectedOutranksBackups
<1>. SUFFICES ASSUME IInv, [Next]_vars PROVE Good'
  BY TypeStep DEF IInv
<1>. HIDE DEF Good
<1>1. ASSUME NEW s \in Server, ReadTorn(s) PROVE Good'
  BY <1>1, EndGood DEF ReadTorn, Good
<1>2. ASSUME NEW s \in Server, HandleElection(s) PROVE Good'
  <2>1. MailCovered' /\ Covered(Head(inbox[s]).who, s)
    BY <1>2, ReadGood DEF HandleElection, ElRead
  <2>2. ListsGood'
    <3>1. GoodList(Remove(metadata[s], metadata[s].flagged))
      BY RemoveGood DEF IInv, ListsGood, GoodList
    <3>. QED
      BY <1>2, <3>1, MetadataGood DEF HandleElection
  <2>3. /\ el'[s].pc = "next" /\ el'[s].who = Head(inbox[s]).who
        /\ el'[s].reply = el[s].reply
        /\ \A t \in Server \ {s} : el'[t] = el[t]
    BY <1>2 DEF HandleElection, IInv, TypeOK, ElState
  <2>4. ElRepliesGood'
    BY <1>2, <2>3, Keep DEF HandleElection, IInv, ElRepliesGood
  <2>5. ElCovered'
    BY <1>2, <2>1, <2>3, ElChange DEF HandleElection
  <2>. QED
    BY <1>2, <2>1, <2>2, <2>4, <2>5, Keep DEF HandleElection, Good
<1>3. ASSUME NEW s \in Server, ElInconsistent(s) PROVE Good'
  BY <1>3, EndGood DEF ElInconsistent, InconsistentList, Good
<1>4. ASSUME NEW s \in Server, ElNext(s) PROVE Good'
  <2>1. PICK n \in Server :
          /\ IsNext(n, s, metadata[s].servers)
          /\ el' = [el EXCEPT
               ![s].next = n,
               ![s].pc = IF el[s].who = s THEN "set_elected"
                         ELSE "send_election",
               ![s].who = IF Outranks(s, el[s].who) THEN s ELSE el[s].who]
    BY <1>4 DEF ElNext
  <2>. DEFINE w == el[s].who
  <2>2. /\ el'[s].next = n /\ el'[s].reply = el[s].reply
        /\ el'[s].pc = IF w = s THEN "set_elected" ELSE "send_election"
        /\ el'[s].who = IF Outranks(s, w) THEN s ELSE w
        /\ \A t \in Server \ {s} : el'[t] = el[t]
    BY <2>1 DEF IInv, TypeOK, ElState
  <2>3. w \in Server /\ Covered(w, s) /\ Backups \subseteq metadata[s].servers
    BY <1>4 DEF ElNext, IInv, TypeOK, ElState, ElCovered, ListsGood, GoodList
  <2>4. w # s => Covered(el'[s].who, n)
    <3>1. CASE w # s /\ Outranks(s, w)
      BY <2>1, <2>2, <2>3, <3>1, RingStart
    <3>2. CASE w # s /\ ~Outranks(s, w)
      BY <2>1, <2>2, <2>3, <3>2, RingForward
    <3>. QED
      BY <3>1, <3>2
  <2>5. ElRepliesGood'
    BY <1>4, <2>2, Keep DEF ElNext, IInv, ElRepliesGood
  <2>6. ElCovered'
    <3>1. CASE w = s
      BY <1>4, <2>2, <2>3, <3>1, ElChange DEF ElNext
    <3>2. CASE w # s
      BY <1>4, <2>2, <2>4, <3>2, ElChange DEF ElNext
    <3>. QED
      BY <3>1, <3>2
  <2>. QED
    BY <1>4, <2>5, <2>6, Keep DEF ElNext, Good
<1>5. ASSUME NEW s \in Server, SendElection(s) PROVE Good'
  <2>1. /\ [type |-> "election", who |-> el[s].who] \in Message
        /\ el[s].next \in Server
        /\ Covered(el[s].who, el[s].next)
    BY <1>5 DEF SendElection, IInv, TypeOK, ElState, Message, ElCovered
  <2>2. MailCovered'
    BY <1>5, <2>1, DeliverGood DEF SendElection
  <2>3. ElRepliesGood' /\ ElCovered'
    BY <1>5, ElGotoGood DEF SendElection
  <2>. QED
    BY <1>5, <2>2, <2>3, Keep DEF SendElection, Good
<1>6. ASSUME NEW s \in Server, SetElected(s) PROVE Good'
  <2>1. Backups' \subseteq Backups /\ s \notin Backups'
        /\ Backups' = Backups \ {s}
    BY <1>6 DEF SetElected, Backups, IInv, TypeOK
  <2>2. Covered(s, s)
    BY <1>6 DEF SetElected, IInv, ElCovered
  <2>3. ElectedOutranksBackups'
    <3>1. ASSUME NEW e \in Server \ {1}, NEW b \in Backups',
                 serverType'[e] = "primary"
          PROVE  Outranks(e, b)
      <4>1. b \in Backups /\ b # s
        BY <2>1
      <4>2. CASE e = s
        BY <2>2, <4>1, <4>2, RingComplete
      <4>3. CASE e # s
        <5>1. serverType[e] = "primary"
          BY <1>6, <3>1, <4>3 DEF SetElected, IInv, TypeOK
        <5>. QED
          BY <4>1, <5>1 DEF IInv, ElectedOutranksBackups
      <4>. QED
        BY <4>2, <4>3
    <3>. QED
      BY <3>1 DEF ElectedOutranksBackups
  <2>4. ListsGood'
    <3>1. /\ metadata'[s].servers = metadata[s].servers
          /\ metadata'[s].flagged \subseteq metadata[s].flagged \cup {s}
          /\ \A t \in Server \ {s} : metadata'[t] = metadata[t]
      BY <1>6 DEF SetElected, IInv, TypeOK, Metadata
    <3>. QED
      BY <2>1, <3>1 DEF IInv, ListsGood, GoodList
  <2>5. /\ el'[s].pc = "register" /\ el'[s].reply = el[s].reply
        /\ \A t \in Server \ {s} : el'[t] = el[t]
    BY <1>6 DEF SetElected, ElGoto, IInv, TypeOK, ElState
  <2>6. ElRepliesGood'
    BY <2>1, <2>5 DEF IInv, ElRepliesGood, GoodList
  <2>7. ElCovered'
    BY <2>1, <2>5 DEF IInv, ElCovered, Covered
  <2>8. ComsRepliesGood'
    BY <1>6, <2>1 DEF SetElected, IInv, ComsRepliesGood, GoodList
  <2>9. WatchedPrimary' /\ HbCovered'
    BY <1>6, <2>1 DEF SetElected, IInv, WatchedPrimary, HbCovered, Covered
  <2>10. MailCovered'
    BY <1>6, <2>1 DEF SetElected, IInv, MailCovered, Covered
  <2>. QED
    BY <2>3, <2>4, <2>6, <2>7, <2>8, <2>9, <2>10 DEF Good
<1>7. ASSUME NEW s \in Server, RegisterWithDns(s) PROVE Good'
  BY <1>7, ElGotoGood, Keep DEF RegisterWithDns, Good
<1>8. ASSUME NEW s \in Server, DnsUnreachable(s) PROVE Good'
  BY <1>8, EndGood DEF DnsUnreachable, Good
<1>9. ASSUME NEW s \in Server, SendElected(s) PROVE Good'
  <2>1. /\ [type |-> "elected", who |-> el[s].who] \in Message
        /\ el[s].next \in Server
    BY DEF IInv, TypeOK, ElState, Message
  <2>2. MailCovered'
    BY <1>9, <2>1, DeliverGood DEF SendElected
  <2>3. ElRepliesGood' /\ ElCovered'
    BY <1>9, ElGotoGood DEF SendElected
  <2>. QED
    BY <1>9, <2>2, <2>3, Keep DEF SendElected, Good
<1>10. ASSUME NEW s \in Server, HandleElected(s) PROVE Good'
  <2>1. MailCovered'
    BY <1>10, ReadGood DEF HandleElected, ElRead
  <2>2. /\ el'[s].pc \in {"accept", "fetch"} /\ el'[s].reply = el[s].reply
        /\ \A t \in Server \ {s} : el'[t] = el[t]
    BY <1>10 DEF HandleElected, ElRead, IInv, TypeOK, ElState
  <2>3. ElRepliesGood'
    BY <1>10, <2>2, Keep DEF HandleElected, IInv, ElRepliesGood
  <2>4. ElCovered'
    <3>1. CASE el' = el
      BY <1>10, <3>1, Keep DEF HandleElected
    <3>2. CASE el'[s].pc = "fetch"
      BY <1>10, <2>2, <3>2, ElChange DEF HandleElected
    <3>. QED
      BY <1>10, <3>1, <3>2 DEF HandleElected, IInv, TypeOK, ElState
  <2>. QED
    BY <1>10, <2>1, <2>3, <2>4, Keep DEF HandleElected, Good
<1>11. ASSUME NEW s \in Server, FetchFromElected(s) PROVE Good'
  <2>. DEFINE e == el[s].who
  <2>1. e \in Server
    BY DEF IInv, TypeOK, ElState
  <2>2. GoodList(Transmitted(metadata[e]))
    BY <2>1, TransmittedGood DEF IInv, ListsGood
  <2>3. /\ el'[s].pc = "store" /\ el'[s].reply = Transmitted(metadata[e])
        /\ \A t \in Server \ {s} : el'[t] = el[t]
    BY <1>11 DEF FetchFromElected, IInv, TypeOK, ElState
  <2>4. ElRepliesGood'
    BY <1>11, <2>2, <2>3, Keep DEF FetchFromElected, IInv, ElRepliesGood
  <2>5. ElCovered'
    BY <1>11, <2>3, ElChange DEF FetchFromElected
  <2>6. ComsRepliesGood'
    BY <1>11, <2>1, ServedReplies, Keep
       DEF FetchFromElected, IInv, ComsRepliesGood
  <2>. QED
    BY <1>11, <2>4, <2>5, <2>6, Keep DEF FetchFromElected, Good
<1>12. ASSUME NEW s \in Server, FetchFails(s) PROVE Good'
  BY <1>12, ElGotoGood, Keep DEF FetchFails, Good
<1>13. ASSUME NEW s \in Server, StoreElected(s) PROVE Good'
  <2>1. ListsGood'
    BY <1>13, MetadataGood DEF StoreElected, IInv, ElRepliesGood
  <2>2. ElRepliesGood' /\ ElCovered'
    BY <1>13, ElGotoGood DEF StoreElected
  <2>. QED
    BY <1>13, <2>1, <2>2, Keep DEF StoreElected, Good
<1>14. ASSUME NEW s \in Server, ElNextElected(s) PROVE Good'
  <2>1. /\ el'[s].pc = "send_elected" /\ el'[s].reply = el[s].reply
        /\ \A t \in Server \ {s} : el'[t] = el[t]
    BY <1>14 DEF ElNextElected, IInv, TypeOK, ElState
  <2>2. ElRepliesGood'
    BY <1>14, <2>1, Keep DEF ElNextElected, IInv, ElRepliesGood
  <2>3. ElCovered'
    BY <1>14, <2>1, ElChange DEF ElNextElected
  <2>. QED
    BY <1>14, <2>2, <2>3, Keep DEF ElNextElected, Good
<1>15. ASSUME NEW s \in Server, HbLookup(s) PROVE Good'
  <2>1. PICK p \in FirstFlagged(metadata[s]) :
          hb' = [hb EXCEPT ![s].pc = IF p = s THEN "stopped" ELSE "connect",
                           ![s].who = p]
    BY <1>15 DEF HbLookup
  <2>2. p \notin Backups
    BY DEF FirstFlagged, IInv, ListsGood, GoodList
  <2>3. /\ hb'[s].pc \in {"stopped", "connect"} /\ hb'[s].who = p
        /\ \A t \in Server \ {s} : hb'[t] = hb[t]
    BY <2>1 DEF IInv, TypeOK, HbState
  <2>4. WatchedPrimary'
    BY <1>15, <2>2, <2>3, Keep DEF HbLookup, IInv, WatchedPrimary
  <2>5. HbCovered'
    BY <1>15, <2>3, HbChange DEF HbLookup
  <2>. QED
    BY <1>15, <2>4, <2>5, Keep DEF HbLookup, Good
<1>16. ASSUME NEW s \in Server, HbNoPrimary(s) PROVE Good'
  BY <1>16, EndGood DEF HbNoPrimary, Good
<1>17. ASSUME NEW s \in Server, HbConnect(s) PROVE Good'
  BY <1>17, HbGotoGood, Keep DEF HbConnect, Good
<1>18. ASSUME NEW s \in Server, HbFirstBeat(s) PROVE Good'
  BY <1>18, HbGotoGood, Keep DEF HbFirstBeat, Good
<1>19. ASSUME NEW s \in Server, HbDetect(s) PROVE Good'
  BY <1>19, HbGotoGood, Keep DEF HbDetect, Good
<1>20. ASSUME NEW s \in Server, HbCheckType(s) PROVE Good'
  BY <1>20, HbGotoGood, Keep DEF HbCheckType, Good
<1>21. ASSUME NEW s \in Server, HbFilter(s) PROVE Good'
  <2>1. {hb[s].who} \cap Backups = {}
    BY DEF IInv, WatchedPrimary
  <2>2. GoodList(Remove(metadata[s], {hb[s].who}))
    BY <2>1, RemoveGood DEF IInv, ListsGood
  <2>3. ListsGood'
    BY <1>21, <2>2, MetadataGood DEF HbFilter
  <2>4. WatchedPrimary' /\ HbCovered'
    BY <1>21, HbGotoGood DEF HbFilter
  <2>. QED
    BY <1>21, <2>3, <2>4, Keep DEF HbFilter, Good
<1>22. ASSUME NEW s \in Server, HbNext(s) PROVE Good'
  <2>1. PICK n \in Server :
          /\ IsNext(n, s, metadata[s].servers)
          /\ hb' = [hb EXCEPT ![s].pc = "send", ![s].next = n]
    BY <1>22 DEF HbNext
  <2>2. Covered(s, n)
    BY <2>1, RingStart DEF IInv, ListsGood, GoodList
  <2>3. /\ hb'[s].pc = "send" /\ hb'[s].next = n /\ hb'[s].who = hb[s].who
        /\ \A t \in Server \ {s} : hb'[t] = hb[t]
    BY <2>1 DEF IInv, TypeOK, HbState
  <2>4. WatchedPrimary'
    BY <1>22, <2>3, Keep DEF HbNext, IInv, WatchedPrimary
  <2>5. HbCovered'
    BY <1>22, <2>2, <2>3, HbChange DEF HbNext
  <2>. QED
    BY <1>22, <2>4, <2>5, Keep DEF HbNext, Good
<1>23. ASSUME NEW s \in Server, HbInconsistent(s) PROVE Good'
  BY <1>23, EndGood DEF HbInconsistent, InconsistentList, Good
<1>24. ASSUME NEW s \in Server, HbSend(s) PROVE Good'
  <2>1. /\ [type |-> "election", who |-> s] \in Message
        /\ hb[s].next \in Server
        /\ Covered(s, hb[s].next)
    BY <1>24 DEF HbSend, IInv, TypeOK, HbState, Message, HbCovered
  <2>2. MailCovered'
    BY <1>24, <2>1, DeliverGood DEF HbSend
  <2>3. WatchedPrimary' /\ HbCovered'
    BY <1>24, HbGotoGood DEF HbSend
  <2>. QED
    BY <1>24, <2>2, <2>3, Keep DEF HbSend, Good
<1>25. ASSUME NEW s \in Server, HeartbeatReadFails(s) PROVE Good'
  BY <1>25, EndGood DEF HeartbeatReadFails, Good
<1>26. ASSUME NEW s \in Server, ComsNoPrimary(s) PROVE Good'
  BY <1>26, EndGood DEF ComsNoPrimary, Good
<1>27. ASSUME NEW s \in Server, ComsSelfConnect(s) PROVE Good'
  <2>1. \A t \in Server : coms'[t].reply = coms[t].reply
    BY <1>27 DEF ComsSelfConnect, IInv, TypeOK, ComsState
  <2>2. ComsRepliesGood'
    BY <1>27, <2>1, Keep DEF ComsSelfConnect, IInv, ComsRepliesGood
  <2>. QED
    BY <1>27, <2>2, Keep DEF ComsSelfConnect, Good
<1>28. ASSUME NEW s \in Server, ComsFetch(s) PROVE Good'
  <2>1. PICK p \in FirstFlagged(metadata[s]) \ {s} :
          \/ coms' = [Served(coms, p) EXCEPT
                ![s].pc = "store", ![s].reply = Transmitted(metadata[p])]
          \/ coms' = NextDeferred(s)
    BY <1>28 DEF ComsFetch
  <2>2. p \in Server
    BY DEF FirstFlagged, IInv, TypeOK, Metadata
  <2>3. GoodList(Transmitted(metadata[p]))
    BY <2>2, TransmittedGood DEF IInv, ListsGood
  <2>4. Served(coms, p) \in [Server -> ComsState]
    BY <2>2, ServedType DEF IInv, TypeOK
  <2>5. ASSUME NEW t \in Server PROVE GoodList(coms'[t].reply)
    <3>1. CASE coms' = NextDeferred(s)
      BY <3>1, ServedReplies DEF IInv, ComsRepliesGood
    <3>2. CASE coms' = [Served(coms, p) EXCEPT
                ![s].pc = "store", ![s].reply = Transmitted(metadata[p])]
      <4>1. t # s => coms'[t].reply = Served(coms, p)[t].reply
        BY <3>2, <2>4
      <4>2. t = s => coms'[t].reply = Transmitted(metadata[p])
        BY <3>2, <2>4 DEF ComsState
      <4>. QED
        BY <2>2, <2>3, <4>1, <4>2, ServedReplies DEF IInv, ComsRepliesGood
    <3>. QED
      BY <2>1, <3>1, <3>2
  <2>6. ComsRepliesGood'
    BY <1>28, <2>5, Keep DEF ComsFetch, ComsRepliesGood
  <2>. QED
    BY <1>28, <2>6, Keep DEF ComsFetch, Good
<1>29. ASSUME NEW s \in Server, ComsStore(s) PROVE Good'
  <2>1. ListsGood'
    BY <1>29, MetadataGood DEF ComsStore, IInv, ComsRepliesGood
  <2>2. \A t \in Server : coms'[t].reply = coms[t].reply
    BY <1>29, ServedReplies DEF ComsStore, IInv
  <2>3. ComsRepliesGood'
    BY <1>29, <2>2, Keep DEF ComsStore, IInv, ComsRepliesGood
  <2>. QED
    BY <1>29, <2>1, <2>3, Keep DEF ComsStore, Good
<1>30. ASSUME NEW s \in Server, Crash(s) PROVE Good'
  BY <1>30, EndGood DEF Crash, Good
<1>31. CASE UNCHANGED vars
  BY <1>31, Keep DEF vars, Good
<1>. QED
  BY <1>1, <1>2, <1>3, <1>4, <1>5, <1>6, <1>7, <1>8, <1>9, <1>10,
     <1>11, <1>12, <1>13, <1>14, <1>15, <1>16, <1>17, <1>18, <1>19, <1>20,
     <1>21, <1>22, <1>23, <1>24, <1>25, <1>26, <1>27, <1>28, <1>29, <1>30,
     <1>31
     DEF Next, ElThread, HbThread, ComsThread

LEMMA IInvInit == Init => IInv
<1>. SUFFICES ASSUME Init PROVE IInv
  OBVIOUS
<1>1. TypeOK
  BY TypeInit
<1>2. GoodList(Everybody) /\ Backups \subseteq Server \ {1}
  BY DEF Init, GoodList, Everybody, Backups
<1>3. ListsGood /\ ElRepliesGood
  BY <1>2 DEF Init, ListsGood, ElRepliesGood
<1>4. ComsRepliesGood
  <2>1. \A s \in Server : coms[s].reply = Everybody
    BY DEF Init
  <2>. QED
    BY <1>2, <2>1 DEF ComsRepliesGood
<1>5. WatchedPrimary /\ HbCovered
  BY <1>2 DEF Init, WatchedPrimary, HbCovered
<1>6. ElCovered /\ MailCovered
  BY DEF Init, ElCovered, MailCovered
<1>7. ElectedOutranksBackups
  BY DEF Init, ElectedOutranksBackups
<1>. QED
  BY <1>1, <1>3, <1>4, <1>5, <1>6, <1>7 DEF IInv

LEMMA Invariance == Spec => []IInv
BY IInvInit, IInvStep, PTL DEF Spec

\* Whatever servers crash and whoever starts elections, a server that won one
\* outranks every server that is still a backup.
THEOREM ElectedOutranks == Spec => []ElectedOutranksBackups
<1>1. IInv => ElectedOutranksBackups
  BY DEF IInv
<1>. QED
  BY <1>1, Invariance, PTL

\* No list ever loses a backup.
THEOREM BackupsStayListed == Spec => []BackupsNeverForgotten
<1>1. IInv => BackupsNeverForgotten
  BY DEF IInv, ListsGood, GoodList, BackupsNeverForgotten
<1>. QED
  BY <1>1, Invariance, PTL

\* No list ever marks a backup as primary.
THEOREM FlaggedTookRole == Spec => []FlaggedArePrimaries
<1>1. IInv => FlaggedArePrimaries
  BY DEF IInv, ListsGood, GoodList, FlaggedArePrimaries
<1>. QED
  BY <1>1, Invariance, PTL

-----------------------------------------------------------------------------
(* The election implements the succession                                  *)

Primaries == {s \in Server : serverType[s] = "primary"}

LEMMA NotBackup ==
  ASSUME TypeOK PROVE Primaries = Server \ Backups
BY DEF TypeOK, Primaries, Backups

LEMMA SuccessionInit == Init => Succession!Init
<1>. SUFFICES ASSUME Init PROVE Succession!Init
  OBVIOUS
<1>1. Primaries = {1} /\ dns = 1
  BY NAssumption DEF Init, Primaries, Server
<1>. QED
  BY <1>1 DEF Succession!Init, Primaries

\* The critical section of setElected: a takeover, or a repetition of one.
LEMMA SetElectedTakesOver ==
  ASSUME IInv, NEW s \in Server, SetElected(s)
  PROVE  Succession!TakeOver(s) \/ UNCHANGED <<Primaries, dns>>
<1>1. dns' = dns /\ serverType' = [serverType EXCEPT ![s] = "primary"]
  BY DEF SetElected
<1>2. Primaries' = Primaries \cup {s}
  BY <1>1 DEF IInv, TypeOK, Primaries
<1>3. CASE s \in Primaries
  BY <1>1, <1>2, <1>3
<1>4. CASE s \notin Primaries
  <2>1. Covered(s, s)
    BY DEF SetElected, IInv, ElCovered
  <2>2. ASSUME NEW b \in Server \ (Primaries \cup {s})
        PROVE  Rank[s] > Rank[b]
    <3>1. b \in Backups /\ b # s
      BY NotBackup DEF IInv
    <3>. QED
      BY <2>1, <3>1, RingComplete DEF Outranks
  <2>. QED
    BY <1>1, <1>2, <1>4, <2>2
       DEF Succession!TakeOver, Succession!Server, Server, Primaries
<1>. QED
  BY <1>3, <1>4

LEMMA RegisterRegisters ==
  ASSUME IInv, NEW s \in Server, RegisterWithDns(s)
  PROVE  Succession!Register(s)
<1>1. s \in Primaries
  BY NotBackup DEF RegisterWithDns, IInv, ElCovered
<1>. QED
  BY <1>1 DEF RegisterWithDns, Succession!Register, Primaries

\* No other step touches a role or the DNS.
LEMMA OtherStepsStutter ==
  ASSUME Next, ~\E s \in Server : SetElected(s) \/ RegisterWithDns(s)
  PROVE  UNCHANGED <<Primaries, dns>>
<1>1. UNCHANGED <<serverType, dns>>
  BY ZenonT(60) DEF Next, ElThread, HbThread, ComsThread, End, InconsistentList,
         ReadTorn, HandleElection, ElInconsistent, ElNext, SendElection,
         DnsUnreachable, SendElected, HandleElected, FetchFromElected,
         FetchFails, StoreElected, ElNextElected, HbLookup, HbNoPrimary,
         HbConnect, HbFirstBeat, HbDetect, HbCheckType, HbFilter, HbNext,
         HbInconsistent, HbSend, HeartbeatReadFails, ComsNoPrimary,
         ComsSelfConnect, ComsFetch, ComsStore, Crash
<1>. QED
  BY <1>1 DEF Primaries

LEMMA SuccessionStep ==
  IInv /\ [Next]_vars
    => [Succession!Next]_<<Primaries, dns>>
<1>. SUFFICES ASSUME IInv, [Next]_vars
             PROVE  [Succession!Next]_<<Primaries, dns>>
  OBVIOUS
<1>1. CASE UNCHANGED vars
  BY <1>1 DEF vars, Primaries
<1>2. ASSUME NEW s \in Server, SetElected(s)
      PROVE  [Succession!Next]_<<Primaries, dns>>
  BY <1>2, SetElectedTakesOver DEF Succession!Next, Succession!Server, Server
<1>3. ASSUME NEW s \in Server, RegisterWithDns(s)
      PROVE  [Succession!Next]_<<Primaries, dns>>
  BY <1>3, RegisterRegisters DEF Succession!Next, Succession!Server, Server
<1>. QED
  BY <1>1, <1>2, <1>3, OtherStepsStutter

\* A takeover is always by a server that outranks every backup, and the DNS
\* only ever names a server that has taken over: the ring of election.cpp
\* implements PrimarySuccession.
THEOREM ImplementsSuccession == Spec => RefinesSuccession
<1>1. IInv /\ [Next]_vars
        => [Succession!Next]_<<{s \in Server : serverType[s] = "primary"}, dns>>
  BY SuccessionStep DEF Primaries
<1>. QED
  BY <1>1, SuccessionInit, Invariance, PTL
     DEF Spec, RefinesSuccession, Succession!Spec

-----------------------------------------------------------------------------
(* Who takes which step *)

ElMove(s) ==
  \/ HandleElection(s) \/ ElNext(s) \/ SendElection(s) \/ SetElected(s)
  \/ RegisterWithDns(s) \/ SendElected(s) \/ HandleElected(s)
  \/ FetchFromElected(s) \/ FetchFails(s) \/ StoreElected(s)
  \/ ElNextElected(s)

HbMove(s) ==
  \/ HbLookup(s) \/ HbConnect(s) \/ HbFirstBeat(s) \/ HbDetect(s)
  \/ HbCheckType(s) \/ HbFilter(s) \/ HbNext(s) \/ HbSend(s)

ComsMove(s) == ComsSelfConnect(s) \/ ComsFetch(s) \/ ComsStore(s)

Ends(s) == Up(s) /\ \E why : why # "up" /\ End(s, why)

LEMMA Moves ==
  ASSUME [Next]_vars
  PROVE  \/ UNCHANGED vars
         \/ \E s \in Server : ElMove(s) \/ HbMove(s) \/ ComsMove(s) \/ Ends(s)
<1>1. ASSUME NEW s \in Server, ElThread(s) PROVE ElMove(s) \/ Ends(s)
  BY <1>1 DEF ElThread, ElMove, Ends, ReadTorn, ElRead, DnsUnreachable,
     ElInconsistent, InconsistentList
<1>2. ASSUME NEW s \in Server, HbThread(s) PROVE HbMove(s) \/ Ends(s)
  BY <1>2 DEF HbThread, HbMove, Ends, HbNoPrimary, HbWakes, HbInconsistent,
     InconsistentList
<1>3. ASSUME NEW s \in Server, ComsThread(s) PROVE ComsMove(s) \/ Ends(s)
  BY <1>3 DEF ComsThread, ComsMove, Ends, ComsNoPrimary
<1>4. ASSUME NEW s \in Server, HeartbeatReadFails(s) \/ Crash(s) PROVE Ends(s)
  BY <1>4 DEF HeartbeatReadFails, Crash, Ends
<1>. QED
  BY <1>1, <1>2, <1>3, <1>4 DEF Next

LEMMA RoleMoves ==
  ASSUME TypeOK, [Next]_vars, NEW s \in Server
  PROVE  \/ serverType'[s] = serverType[s]
         \/ SetElected(s) /\ serverType'[s] = "primary"
<1>1. ASSUME NEW t \in Server, ElMove(t)
      PROVE  SetElected(t) \/ UNCHANGED serverType
  BY <1>1 DEF ElMove, HandleElection, ElNext, SendElection, RegisterWithDns,
     SendElected, HandleElected, FetchFromElected, FetchFails, StoreElected,
     ElNextElected
<1>2. ASSUME NEW t \in Server, HbMove(t) \/ ComsMove(t) \/ Ends(t)
      PROVE  UNCHANGED serverType
  BY <1>2 DEF HbMove, HbLookup, HbConnect, HbFirstBeat, HbDetect,
     HbCheckType, HbFilter, HbNext, HbSend, ComsMove, ComsSelfConnect,
     ComsFetch, ComsStore, Ends, End
<1>3. ASSUME NEW t \in Server, SetElected(t)
      PROVE  IF t = s THEN serverType'[s] = "primary"
                      ELSE serverType'[s] = serverType[s]
  BY <1>3 DEF SetElected, TypeOK
<1>. QED
  BY <1>1, <1>2, <1>3, Moves DEF vars

LEMMA ElMoves ==
  ASSUME TypeOK, [Next]_vars, NEW s \in Server
  PROVE  el'[s] = el[s] \/ ElMove(s)
<1>1. ASSUME NEW t \in Server, ElMove(t), t # s
      PROVE  el'[s] = el[s]
  BY <1>1 DEF ElMove, HandleElection, ElNext, SendElection, SetElected,
     RegisterWithDns, SendElected, HandleElected, FetchFromElected,
     FetchFails, StoreElected, ElNextElected, ElGoto, TypeOK
<1>2. ASSUME NEW t \in Server, HbMove(t) \/ ComsMove(t) \/ Ends(t)
      PROVE  UNCHANGED el
  BY <1>2 DEF HbMove, HbLookup, HbConnect, HbFirstBeat, HbDetect,
     HbCheckType, HbFilter, HbNext, HbSend, ComsMove, ComsSelfConnect,
     ComsFetch, ComsStore, Ends, End
<1>. QED
  BY <1>1, <1>2, Moves DEF vars

LEMMA HbMoves ==
  ASSUME TypeOK, [Next]_vars, NEW s \in Server
  PROVE  hb'[s] = hb[s] \/ HbMove(s)
<1>1. ASSUME NEW t \in Server, HbMove(t), t # s
      PROVE  hb'[s] = hb[s]
  BY <1>1 DEF HbMove, HbLookup, HbConnect, HbFirstBeat, HbDetect,
     HbCheckType, HbFilter, HbNext, HbSend, HbGoto, TypeOK
<1>2. ASSUME NEW t \in Server, ElMove(t) \/ ComsMove(t) \/ Ends(t)
      PROVE  UNCHANGED hb
  BY <1>2 DEF ElMove, HandleElection, ElNext, SendElection, SetElected,
     RegisterWithDns, SendElected, HandleElected, FetchFromElected,
     FetchFails, StoreElected, ElNextElected, ComsMove, ComsSelfConnect,
     ComsFetch, ComsStore, Ends, End
<1>. QED
  BY <1>1, <1>2, Moves DEF vars

\* s answers a fetch of somebody else.
Serving(s) ==
  /\ coms[s].pc = "accept"
  /\ \E t \in Server :
       \/ FetchFromElected(t) /\ s = el[t].who
       \/ ComsFetch(t) /\ s # t /\ s \in FirstFlagged(metadata[t])

LEMMA ComsMoves ==
  ASSUME TypeOK, [Next]_vars, NEW s \in Server
  PROVE  \/ coms'[s] = coms[s]
         \/ ComsMove(s)
         \/ Serving(s) /\ coms'[s] = Served(coms, s)[s]
<1>0. coms \in [Server -> ComsState]
  BY DEF TypeOK
<1>1. ASSUME NEW t \in Server, FetchFromElected(t)
      PROVE  \/ coms'[s] = coms[s]
             \/ Serving(s) /\ coms'[s] = Served(coms, s)[s]
  <2>1. coms' = Served(coms, el[t].who) /\ coms[el[t].who].pc = "accept"
    BY <1>1 DEF FetchFromElected
  <2>2. el[t].who # s => coms'[s] = coms[s]
    BY <1>0, <2>1 DEF Served
  <2>. QED
    BY <1>1, <2>1, <2>2 DEF Serving
<1>2. ASSUME NEW t \in Server, ComsFetch(t), t # s
      PROVE  \/ coms'[s] = coms[s]
             \/ Serving(s) /\ coms'[s] = Served(coms, s)[s]
  <2>1. CASE coms' = NextDeferred(t)
    BY <1>0, <1>2, <2>1 DEF NextDeferred
  <2>2. ASSUME NEW p \in FirstFlagged(metadata[t]) \ {t},
               coms[p].pc = "accept",
               coms' = [Served(coms, p) EXCEPT
                          ![t].pc = "store",
                          ![t].reply = Transmitted(metadata[p])]
        PROVE  \/ coms'[s] = coms[s]
               \/ Serving(s) /\ coms'[s] = Served(coms, s)[s]
    <3>1. p \in Server
      BY DEF FirstFlagged, TypeOK, Metadata
    <3>2. Served(coms, p) \in [Server -> ComsState]
      BY <1>0, <3>1, ServedType
    <3>3. coms'[s] = Served(coms, p)[s]
      BY <1>2, <2>2, <3>2
    <3>4. p # s => coms'[s] = coms[s]
      BY <1>0, <3>3 DEF Served
    <3>. QED
      BY <1>2, <2>2, <3>3, <3>4 DEF Serving
  <2>. QED
    BY <1>2, <2>1, <2>2 DEF ComsFetch
<1>3. ASSUME NEW t \in Server, ComsSelfConnect(t) \/ ComsStore(t), t # s
      PROVE  coms'[s] = coms[s]
  BY <1>0, <1>3 DEF ComsSelfConnect, ComsStore, NextDeferred
<1>4. ASSUME NEW t \in Server, ElMove(t), ~FetchFromElected(t)
      PROVE  UNCHANGED coms
  BY <1>4 DEF ElMove, HandleElection, ElNext, SendElection, SetElected,
     RegisterWithDns, SendElected, HandleElected, FetchFails, StoreElected,
     ElNextElected
<1>5. ASSUME NEW t \in Server, HbMove(t) \/ Ends(t)
      PROVE  UNCHANGED coms
  BY <1>5 DEF HbMove, HbLookup, HbConnect, HbFirstBeat, HbDetect,
     HbCheckType, HbFilter, HbNext, HbSend, Ends, End
<1>6. UNCHANGED vars => UNCHANGED coms
  BY DEF vars
<1>. QED
  BY <1>1, <1>2, <1>3, <1>4, <1>5, <1>6, Moves DEF ComsMove

LEMMA ListMoves ==
  ASSUME TypeOK, [Next]_vars, NEW s \in Server
  PROVE  \/ metadata'[s] = metadata[s]
         \/ /\ HandleElection(s)
            /\ metadata'[s] = Remove(metadata[s], metadata[s].flagged)
         \/ /\ SetElected(s)
            /\ metadata'[s] = [metadata[s] EXCEPT
                 !.flagged = @ \cup ({s} \cap metadata[s].servers)]
         \/ HbFilter(s) /\ metadata'[s] = Remove(metadata[s], {hb[s].who})
         \/ StoreElected(s) /\ metadata'[s] = el[s].reply
         \/ ComsStore(s) /\ metadata'[s] = coms[s].reply
<1>0. metadata \in [Server -> Metadata]
  BY DEF TypeOK
<1>1. ASSUME NEW t \in Server, ElMove(t), ~HandleElection(t),
             ~SetElected(t), ~StoreElected(t)
      PROVE  UNCHANGED metadata
  BY <1>1 DEF ElMove, ElNext, SendElection, RegisterWithDns, SendElected,
     HandleElected, FetchFromElected, FetchFails, ElNextElected
<1>2. ASSUME NEW t \in Server, HbMove(t), ~HbFilter(t)
      PROVE  UNCHANGED metadata
  BY <1>2 DEF HbMove, HbLookup, HbConnect, HbFirstBeat, HbDetect,
     HbCheckType, HbNext, HbSend
<1>3. ASSUME NEW t \in Server, Ends(t) \/ ComsMove(t), ~ComsStore(t)
      PROVE  UNCHANGED metadata
  BY <1>3 DEF Ends, End, ComsMove, ComsSelfConnect, ComsFetch
<1>4. UNCHANGED vars => UNCHANGED metadata
  BY DEF vars
<1>5. ASSUME NEW t \in Server, HandleElection(t)
      PROVE  IF t = s
             THEN metadata'[s] = Remove(metadata[s], metadata[s].flagged)
             ELSE metadata'[s] = metadata[s]
  BY <1>0, <1>5 DEF HandleElection
<1>6. ASSUME NEW t \in Server, SetElected(t)
      PROVE  IF t = s
             THEN metadata'[s] = [metadata[s] EXCEPT
                    !.flagged = @ \cup ({s} \cap metadata[s].servers)]
             ELSE metadata'[s] = metadata[s]
  BY <1>0, <1>6 DEF SetElected
<1>7. ASSUME NEW t \in Server, HbFilter(t)
      PROVE  IF t = s THEN metadata'[s] = Remove(metadata[s], {hb[s].who})
                      ELSE metadata'[s] = metadata[s]
  BY <1>0, <1>7 DEF HbFilter
<1>8. ASSUME NEW t \in Server, StoreElected(t)
      PROVE  IF t = s THEN metadata'[s] = el[s].reply
                      ELSE metadata'[s] = metadata[s]
  BY <1>0, <1>8 DEF StoreElected
<1>9. ASSUME NEW t \in Server, ComsStore(t)
      PROVE  IF t = s THEN metadata'[s] = coms[s].reply
                      ELSE metadata'[s] = metadata[s]
  BY <1>0, <1>9 DEF ComsStore
<1>. QED
  BY <1>1, <1>2, <1>3, <1>4, <1>5, <1>6, <1>7, <1>8, <1>9, Moves

\* A message m arrives at j.
Arrives(m, j) ==
  \E s \in Server :
    \/ SendElection(s) /\ el[s].next = j
       /\ m = [type |-> "election", who |-> el[s].who]
    \/ SendElected(s) /\ el[s].next = j
       /\ m = [type |-> "elected", who |-> el[s].who]
    \/ HbSend(s) /\ hb[s].next = j /\ m = [type |-> "election", who |-> s]
    \/ Ends(s) /\ j \in Sending(s) /\ m = [type |-> "torn", who |-> s]

LEMMA MailMoves ==
  ASSUME TypeOK, [Next]_vars, NEW j \in Server
  PROVE  \/ inbox'[j] = inbox[j]
         \/ inbox'[j] = << >> /\ ~Up(j)'
         \/ /\ HandleElection(j) \/ HandleElected(j)
            /\ inbox[j] # << >> /\ inbox'[j] = Tail(inbox[j])
         \/ \E m \in Message :
              Arrives(m, j) /\ inbox'[j] = Append(inbox[j], m)
<1>0. inbox \in [Server -> Seq(Message)]
  BY DEF TypeOK
<1>1. ASSUME NEW t \in Server, HandleElection(t) \/ HandleElected(t)
      PROVE  \/ inbox'[j] = inbox[j]
             \/ t = j /\ inbox[j] # << >> /\ inbox'[j] = Tail(inbox[j])
  BY <1>0, <1>1 DEF HandleElection, HandleElected, ElRead
<1>2. ASSUME NEW m \in Message, NEW n \in Server, Deliver(n, m)
      PROVE  \/ inbox'[j] = inbox[j]
             \/ n = j /\ inbox'[j] = Append(inbox[j], m)
  BY <1>0, <1>2 DEF Deliver
<1>3. ASSUME NEW t \in Server, SendElection(t) \/ SendElected(t) \/ HbSend(t)
      PROVE  inbox'[j] = inbox[j]
             \/ \E m \in Message :
                  Arrives(m, j) /\ inbox'[j] = Append(inbox[j], m)
  <2>1. el[t].who \in Server /\ el[t].next \in Server /\ hb[t].next \in Server
    BY DEF TypeOK, ElState, HbState
  <2>2. CASE SendElection(t)
    <3>. DEFINE m == [type |-> "election", who |-> el[t].who]
    <3>1. m \in Message /\ Deliver(el[t].next, m)
      BY <2>1, <2>2 DEF Message, SendElection
    <3>. QED
      BY <1>2, <2>1, <2>2, <3>1 DEF Arrives
  <2>3. CASE SendElected(t)
    <3>. DEFINE m == [type |-> "elected", who |-> el[t].who]
    <3>1. m \in Message /\ Deliver(el[t].next, m)
      BY <2>1, <2>3 DEF Message, SendElected
    <3>. QED
      BY <1>2, <2>1, <2>3, <3>1 DEF Arrives
  <2>4. CASE HbSend(t)
    <3>. DEFINE m == [type |-> "election", who |-> t]
    <3>1. m \in Message /\ Deliver(hb[t].next, m)
      BY <2>4 DEF Message, HbSend
    <3>. QED
      BY <1>2, <2>1, <2>4, <3>1 DEF Arrives
  <2>. QED
    BY <1>3, <2>2, <2>3, <2>4
<1>4. ASSUME NEW t \in Server, Ends(t)
      PROVE  \/ inbox'[j] = inbox[j]
             \/ inbox'[j] = << >> /\ ~Up(j)'
             \/ \E m \in Message :
                  Arrives(m, j) /\ inbox'[j] = Append(inbox[j], m)
  <2>. DEFINE m == [type |-> "torn", who |-> t]
  <2>1. m \in Message
    BY DEF Message
  <2>2. \/ inbox'[j] = inbox[j]
        \/ inbox'[j] = << >> /\ j = t
        \/ j \in Sending(t) /\ inbox'[j] = Append(inbox[j], m)
    BY <1>4 DEF Ends, End
  <2>3. ~Up(t)'
    BY <1>4 DEF Ends, End, Up, TypeOK
  <2>. QED
    BY <1>4, <2>1, <2>2, <2>3 DEF Arrives
<1>5. ASSUME NEW t \in Server, ElMove(t), ~HandleElection(t),
             ~HandleElected(t), ~SendElection(t), ~SendElected(t)
      PROVE  UNCHANGED inbox
  BY <1>5 DEF ElMove, ElNext, SetElected, RegisterWithDns, FetchFromElected,
     FetchFails, StoreElected, ElNextElected
<1>6. ASSUME NEW t \in Server, HbMove(t) \/ ComsMove(t), ~HbSend(t)
      PROVE  UNCHANGED inbox
  BY <1>6 DEF HbMove, HbLookup, HbConnect, HbFirstBeat, HbDetect,
     HbCheckType, HbFilter, HbNext, ComsMove, ComsSelfConnect, ComsFetch,
     ComsStore
<1>7. UNCHANGED vars => UNCHANGED inbox
  BY DEF vars
<1>. QED
  BY <1>1, <1>3, <1>4, <1>5, <1>6, <1>7, Moves

-----------------------------------------------------------------------------
(* What becomes of the old primary, server 1, when startup has left no     *)
(* deferred update (BusyComs = {}).                                        *)
(*                                                                         *)
(* The inductive invariant.  Server 1 has left a list for good once the    *)
(* list's owner handled an election message, or noticed itself that 1 is   *)
(* gone; a message has only passed servers whose lists are clean, so when  *)
(* it is back at the winner every backup has forgotten server 1.           *)

Clean(s) == 1 \notin metadata[s].servers
Elected == \E e \in Server \ {1} : serverType[e] = "primary"

CleanUpTo(w, j) ==
  /\ w # 1 /\ Clean(w)
  /\ \A b \in Backups : b \in Between(w, j) => Clean(b)

\* While 1 is listed, it is listed as primary.
ListOld(l) ==
  l.flagged \subseteq l.servers /\ (1 \in l.servers => 1 \in l.flagged)

ReplyOld(l) == l.flagged \subseteq l.servers /\ 1 \notin l.servers

\* No message reaches server 1, and it starts no round.
FirstIdle ==
  /\ serverType[1] = "primary" /\ el[1].pc = "accept" /\ inbox[1] = << >>
  /\ hb[1].pc = "stopped" /\ coms[1].pc = "accept"

ElOld(s) ==
  /\ el[s].pc # "accept" => el[s].who # 1
  /\ el[s].pc \in {"set_elected", "register", "send_election", "send_elected"}
       => el[s].next # 1
  /\ el[s].pc = "next" => Clean(s) /\ CleanUpTo(el[s].who, s)
  /\ el[s].pc = "send_election" => CleanUpTo(el[s].who, el[s].next)
  /\ el[s].pc = "set_elected" => CleanUpTo(s, s)
  /\ el[s].pc \in {"register", "send_elected", "fetch", "store",
                   "next_elected"} => Elected
  /\ el[s].pc = "store" => ReplyOld(el[s].reply)

HbOld(s) ==
  /\ hb[s].pc \in {"connect", "connected", "beating", "check", "filter"}
       => hb[s].who = 1 \/ Clean(s)
  /\ hb[s].pc \in {"next", "send"} => Clean(s)
  /\ hb[s].pc = "send" => hb[s].next # 1 /\ CleanUpTo(s, hb[s].next)

ComsOld(s) ==
  /\ coms[s].pc # "accept" => Elected
  /\ coms[s].pc = "store" => ReplyOld(coms[s].reply)

MailOld(j) ==
  \A i \in 1 .. Len(inbox[j]) :
    /\ inbox[j][i].type = "election" => CleanUpTo(inbox[j][i].who, j)
    /\ inbox[j][i].type = "elected" => Elected /\ inbox[j][i].who # 1

Forgetting ==
  /\ FirstIdle
  /\ \A s \in Server : ListOld(metadata[s])
  /\ \A s \in Server : ElOld(s)
  /\ \A s \in Server \ {1} : HbOld(s)
  /\ \A s \in Server : ComsOld(s)
  /\ \A j \in Server : MailOld(j)
  /\ OldPrimaryForgotten

-----------------------------------------------------------------------------
(* What stays *)

LEMMA FirstServer == 1 \in Server /\ \A s \in Server : s \in Int /\ 1 <= s
BY NAssumption DEF Server

\* Server 1 takes no step but to end.
LEMMA FirstNoStep ==
  ASSUME Forgetting
  PROVE  ~ElMove(1) /\ ~HbMove(1) /\ ~ComsMove(1)
<1>1. FirstIdle
  BY DEF Forgetting
<1>2. ~ElMove(1)
  BY <1>1 DEF FirstIdle, ElMove, HandleElection, ElNext, SendElection,
     SetElected, RegisterWithDns, SendElected, HandleElected,
     FetchFromElected, FetchFails, StoreElected, ElNextElected, ElRead
<1>3. ~HbMove(1)
  BY <1>1 DEF FirstIdle, HbMove, HbLookup, HbConnect, HbFirstBeat, HbDetect,
     HbCheckType, HbFilter, HbNext, HbSend, HbWakes
<1>4. ~ComsMove(1)
  BY <1>1 DEF FirstIdle, ComsMove, ComsSelfConnect, ComsFetch, ComsStore
<1>. QED
  BY <1>2, <1>3, <1>4

LEMMA CleanStays ==
  ASSUME TypeOK, Forgetting, [Next]_vars, NEW s \in Server, Clean(s)
  PROVE  Clean(s)'
<1>1. CASE metadata'[s] = metadata[s]
  BY <1>1 DEF Clean
<1>2. ASSUME NEW S, metadata'[s] = Remove(metadata[s], S)
      PROVE  Clean(s)'
  BY <1>2 DEF Clean, Remove
<1>3. CASE SetElected(s) /\ metadata'[s] = [metadata[s] EXCEPT
             !.flagged = @ \cup ({s} \cap metadata[s].servers)]
  BY <1>3 DEF Clean, TypeOK, Metadata
<1>4. CASE StoreElected(s) /\ metadata'[s] = el[s].reply
  BY <1>4 DEF Clean, StoreElected, Forgetting, ElOld, ReplyOld
<1>5. CASE ComsStore(s) /\ metadata'[s] = coms[s].reply
  BY <1>5 DEF Clean, ComsStore, Forgetting, ComsOld, ReplyOld
<1>. QED
  BY <1>1, <1>2, <1>3, <1>4, <1>5, ListMoves

LEMMA ElectedStays ==
  ASSUME TypeOK, [Next]_vars, Elected PROVE Elected'
BY RoleMoves DEF Elected

LEMMA BackupsShrink ==
  ASSUME TypeOK, [Next]_vars PROVE Backups' \subseteq Backups
BY RoleMoves DEF Backups

\* CleanUpTo(w, j) after the step, for the values w and j have now.
StillClean(w, j) ==
  /\ w # 1 /\ 1 \notin metadata'[w].servers
  /\ \A b \in Backups' : b \in Between(w, j) => 1 \notin metadata'[b].servers

LEMMA CleanUpToStays ==
  ASSUME TypeOK, Forgetting, [Next]_vars,
         NEW w \in Server, NEW j, CleanUpTo(w, j)
  PROVE  StillClean(w, j)
<1>1. w # 1 /\ Clean(w)'
  BY CleanStays DEF CleanUpTo
<1>2. ASSUME NEW b \in Backups', b \in Between(w, j) PROVE Clean(b)'
  <2>1. b \in Backups /\ b \in Server
    BY <1>2, BackupsShrink DEF Backups
  <2>. QED
    BY <1>2, <2>1, CleanStays DEF CleanUpTo
<1>. QED
  BY <1>1, <1>2 DEF StillClean, Clean

-----------------------------------------------------------------------------
(* Each part is inductive *)

LEMMA ForgettingFirst ==
  ASSUME TypeOK, Forgetting, [Next]_vars
  PROVE  FirstIdle'
<1>1. 1 \in Server /\ FirstIdle
  BY FirstServer DEF Forgetting
<1>2. serverType'[1] = "primary"
  BY <1>1, RoleMoves DEF FirstIdle
<1>3. el'[1] = el[1] /\ hb'[1] = hb[1]
  BY <1>1, ElMoves, HbMoves, FirstNoStep
<1>4. coms'[1] = coms[1]
  BY <1>1, ComsMoves, FirstNoStep DEF Served, Deferred
<1>5. ASSUME NEW m, Arrives(m, 1) PROVE FALSE
  <2>1. PICK s \in Server :
          \/ SendElection(s) /\ el[s].next = 1
          \/ SendElected(s) /\ el[s].next = 1
          \/ HbSend(s) /\ hb[s].next = 1
          \/ 1 \in Sending(s)
    BY <1>5 DEF Arrives
  <2>2. ~(el[s].pc \in {"send_election", "send_elected"} /\ el[s].next = 1)
    BY DEF Forgetting, ElOld
  <2>3. ~(hb[s].pc = "send" /\ hb[s].next = 1)
    BY <1>1 DEF Forgetting, HbOld, FirstIdle
  <2>. QED
    BY <2>1, <2>2, <2>3 DEF SendElection, SendElected, HbSend, Sending
<1>6. ~HandleElection(1) /\ ~HandleElected(1)
  BY FirstNoStep DEF ElMove
<1>7. inbox'[1] = << >>
  BY <1>1, <1>5, <1>6, MailMoves DEF FirstIdle
<1>. QED
  BY <1>1, <1>2, <1>3, <1>4, <1>7 DEF FirstIdle

LEMMA ForgettingLists ==
  ASSUME TypeOK, Forgetting, [Next]_vars, NEW s \in Server
  PROVE  ListOld(metadata[s])'
<1>1. ListOld(metadata[s])
  BY DEF Forgetting
<1>2. CASE metadata'[s] = metadata[s]
  BY <1>1, <1>2 DEF ListOld
<1>3. ASSUME NEW S, metadata'[s] = Remove(metadata[s], S)
      PROVE  ListOld(metadata[s])'
  BY <1>1, <1>3 DEF ListOld, Remove
<1>4. CASE SetElected(s) /\ metadata'[s] = [metadata[s] EXCEPT
             !.flagged = @ \cup ({s} \cap metadata[s].servers)]
  <2>1. /\ metadata'[s].servers = metadata[s].servers
        /\ metadata'[s].flagged =
             metadata[s].flagged \cup ({s} \cap metadata[s].servers)
    BY <1>4 DEF TypeOK, Metadata
  <2>. QED
    BY <1>1, <2>1 DEF ListOld
<1>5. CASE StoreElected(s) /\ metadata'[s] = el[s].reply
  BY <1>5 DEF ListOld, StoreElected, Forgetting, ElOld, ReplyOld
<1>6. CASE ComsStore(s) /\ metadata'[s] = coms[s].reply
  BY <1>6 DEF ListOld, ComsStore, Forgetting, ComsOld, ReplyOld
<1>. QED
  BY <1>2, <1>3, <1>4, <1>5, <1>6, ListMoves

\* Nobody but server 1 is left out of a list that is clean.
LEMMA ForgettingProperty ==
  ASSUME TypeOK, Forgetting, [Next]_vars
  PROVE  OldPrimaryForgotten'
<1>1. CASE Elected
  BY <1>1, CleanStays DEF Forgetting, OldPrimaryForgotten, Elected, Clean
<1>2. ASSUME ~Elected, Elected', NEW t \in Server \ {1}
      PROVE  Clean(t)'
  <2>1. PICK s \in Server \ {1} : SetElected(s)
    BY <1>2, RoleMoves DEF Elected
  <2>2. CleanUpTo(s, s)
    BY <2>1 DEF SetElected, Forgetting, ElOld
  <2>3. t \in Backups
    BY <1>2 DEF Elected, Backups, TypeOK
  <2>4. t = s \/ t \in Between(s, s)
    BY FirstServer DEF Between
  <2>5. Clean(t)
    BY <2>2, <2>3, <2>4 DEF CleanUpTo
  <2>. QED
    BY <2>5, CleanStays
<1>. QED
  BY <1>1, <1>2 DEF OldPrimaryForgotten, Elected, Clean

\* Whom an accepting thread reads, when somebody has been elected.
LEMMA ReplyFromClean ==
  ASSUME TypeOK, Forgetting, Elected, NEW e \in Server, e # 1
  PROVE  ReplyOld(Transmitted(metadata[e]))
<1>1. Clean(e) /\ ListOld(metadata[e])
  BY DEF Forgetting, OldPrimaryForgotten, Elected, Clean
<1>. QED
  BY <1>1 DEF ListOld, Clean, ReplyOld, Transmitted, FirstFlagged

\* Passing the message on to the next server leaves no backup out.
LEMMA PassedOn ==
  ASSUME NEW w \in Server, NEW s \in Server, NEW n \in Server, NEW S,
         IsNext(n, s, S), Backups \subseteq S, Clean(s),
         w = s \/ CleanUpTo(w, s), w # 1
  PROVE  CleanUpTo(w, n)
<1>1. CASE w = s
  BY <1>1 DEF CleanUpTo, IsNext
<1>2. CASE w # s
  <2>1. SUFFICES ASSUME NEW b \in Backups, b \in Between(w, n)
                 PROVE  Clean(b)
    BY <1>2 DEF CleanUpTo
  <2>2. b \notin Between(s, n)
    BY DEF IsNext
  <2>3. b \in Server /\ w \in Int /\ s \in Int /\ n \in Int /\ b \in Int
    BY FirstServer DEF Backups
  <2>4. b = s \/ b \in Between(w, s)
    BY <1>2, <2>1, <2>2, <2>3 DEF Between
  <2>. QED
    BY <1>2, <2>4 DEF CleanUpTo
<1>. QED
  BY <1>1, <1>2

LEMMA ForgettingElection ==
  ASSUME IInv, Forgetting, [Next]_vars, NEW s \in Server
  PROVE  ElOld(s)'
<1>0. /\ TypeOK /\ ElOld(s) /\ el \in [Server -> ElState]
      /\ el[s].who \in Server /\ Backups \subseteq metadata[s].servers
  BY DEF IInv, TypeOK, ElState, Forgetting, ListsGood, GoodList
<1>1. ASSUME el'[s].pc = "accept" PROVE ElOld(s)'
  BY <1>1 DEF ElOld
<1>2. CASE el'[s] = el[s]
  <2>1. /\ Clean(s) => Clean(s)'
        /\ Elected => Elected'
    BY <1>0, CleanStays, ElectedStays
  <2>2. \A w \in Server : \A j : CleanUpTo(w, j) => StillClean(w, j)
    BY <1>0, CleanUpToStays
  <2>3. /\ el[s].pc = "next" => StillClean(el[s].who, s)
        /\ el[s].pc = "send_election" => StillClean(el[s].who, el[s].next)
        /\ el[s].pc = "set_elected" => StillClean(s, s)
    BY <1>0, <2>2 DEF ElOld
  <2>. QED
    BY <1>0, <1>2, <2>1, <2>3
       DEF ElOld, ReplyOld, CleanUpTo, StillClean, Clean, Between
<1>3. CASE HandleElection(s)
  <2>. DEFINE w == Head(inbox[s]).who
  <2>1. /\ inbox[s] \in Seq(Message) /\ inbox[s] # << >>
        /\ Head(inbox[s]).type = "election"
    BY <1>0, <1>3 DEF HandleElection, ElRead, TypeOK
  <2>2. w \in Server /\ CleanUpTo(w, s)
    <3>1. 1 \in 1 .. Len(inbox[s]) /\ Head(inbox[s]) = inbox[s][1]
      BY <2>1
    <3>2. inbox[s][1] \in Message
      BY <2>1, <3>1
    <3>. QED
      BY <2>1, <3>1, <3>2 DEF Forgetting, MailOld, Message
  <2>3. el'[s].pc = "next" /\ el'[s].who = w
    BY <1>0, <1>3 DEF HandleElection, ElState
  <2>4. Clean(s)'
    <3>1. ListOld(metadata[s])
      BY DEF Forgetting
    <3>2. metadata'[s] = Remove(metadata[s], metadata[s].flagged)
      BY <1>0, <1>3 DEF HandleElection, TypeOK
    <3>. QED
      BY <3>1, <3>2 DEF ListOld, Clean, Remove
  <2>. HIDE DEF w
  <2>5. StillClean(w, s)
    BY <1>0, <2>2, CleanUpToStays
  <2>. QED
    BY <2>3, <2>4, <2>5 DEF ElOld, CleanUpTo, StillClean, Clean, Between
<1>4. CASE ElNext(s)
  <2>1. PICK n \in Server :
          /\ IsNext(n, s, metadata[s].servers)
          /\ el' = [el EXCEPT
               ![s].next = n,
               ![s].pc = IF el[s].who = s THEN "set_elected"
                         ELSE "send_election",
               ![s].who = IF Outranks(s, el[s].who) THEN s ELSE el[s].who]
    BY <1>4 DEF ElNext
  <2>2. /\ el[s].pc = "next" /\ Clean(s) /\ CleanUpTo(el[s].who, s)
        /\ el[s].who # 1
    BY <1>0, <1>4 DEF ElNext, ElOld
  <2>3. s # 1 /\ n # 1
    BY <2>1, <2>2 DEF IsNext, Clean, Forgetting, FirstIdle
  <2>4. /\ el'[s].next = n
        /\ el'[s].who \in {s, el[s].who}
        /\ el'[s].pc = IF el[s].who = s THEN "set_elected"
                       ELSE "send_election"
    BY <1>0, <2>1 DEF ElState
  <2>5. el[s].who = s => StillClean(s, s)
    BY <1>0, <2>2, CleanUpToStays
  <2>6. StillClean(el'[s].who, n)
    <3>1. el'[s].who \in Server /\ CleanUpTo(el'[s].who, n)
      BY <1>0, <2>1, <2>2, <2>3, <2>4, PassedOn
    <3>. QED
      BY <1>0, <3>1, CleanUpToStays
  <2>. QED
    BY <2>2, <2>3, <2>4, <2>5, <2>6
       DEF ElOld, CleanUpTo, StillClean, Clean, Between
<1>5. CASE SendElection(s) \/ SendElected(s)
  BY <1>0, <1>1, <1>5 DEF SendElection, SendElected, ElGoto, ElState
<1>6. CASE SetElected(s)
  <2>1. /\ el'[s].pc = "register" /\ el'[s].who = el[s].who
        /\ el'[s].next = el[s].next /\ el[s].pc = "set_elected"
    BY <1>0, <1>6 DEF SetElected, ElGoto, ElState
  <2>2. s # 1 /\ serverType'[s] = "primary"
    BY <1>0, <1>6, <2>1 DEF SetElected, TypeOK, Forgetting, FirstIdle
  <2>. QED
    BY <1>0, <2>1, <2>2 DEF ElOld, Elected
<1>7. CASE RegisterWithDns(s) \/ FetchFails(s) \/ StoreElected(s)
  <2>1. /\ el'[s].pc \in {"send_elected", "next_elected"}
        /\ el'[s].who = el[s].who /\ el'[s].next = el[s].next
        /\ el[s].pc \in {"register", "fetch", "store"}
        /\ el'[s].pc = "send_elected" => el[s].pc = "register"
    BY <1>0, <1>7 DEF RegisterWithDns, FetchFails, StoreElected, ElGoto,
       ElState
  <2>2. Elected'
    BY <1>0, <2>1, ElectedStays DEF ElOld
  <2>. QED
    BY <1>0, <2>1, <2>2 DEF ElOld
<1>8. CASE HandleElected(s)
  <2>. DEFINE w == Head(inbox[s]).who
  <2>1. /\ inbox[s] \in Seq(Message) /\ inbox[s] # << >>
        /\ Head(inbox[s]).type = "elected" /\ el[s].pc = "accept"
    BY <1>0, <1>8 DEF HandleElected, ElRead, TypeOK
  <2>2. Elected /\ w # 1
    BY <2>1 DEF Forgetting, MailOld
  <2>3. CASE w = s
    BY <1>2, <1>8, <2>3 DEF HandleElected
  <2>4. CASE w # s
    <3>1. el'[s].pc = "fetch" /\ el'[s].who = w
      BY <1>0, <1>8, <2>4 DEF HandleElected, ElState
    <3>. QED
      BY <1>0, <2>2, <3>1, ElectedStays DEF ElOld
  <2>. QED
    BY <2>3, <2>4
<1>9. CASE FetchFromElected(s)
  <2>1. /\ el[s].pc = "fetch" /\ el'[s].pc = "store"
        /\ el'[s].who = el[s].who
        /\ el'[s].reply = Transmitted(metadata[el[s].who])
    BY <1>0, <1>9 DEF FetchFromElected, ElState
  <2>2. Elected /\ el[s].who # 1
    BY <1>0, <2>1 DEF ElOld
  <2>3. ReplyOld(Transmitted(metadata[el[s].who]))
    BY <1>0, <2>2, ReplyFromClean
  <2>4. ReplyOld(el[s].reply)'
    BY <2>1, <2>3 DEF ReplyOld
  <2>. QED
    BY <1>0, <2>1, <2>2, <2>4, ElectedStays DEF ElOld
<1>10. CASE ElNextElected(s)
  <2>1. PICK n \in Server :
          /\ IsNext(n, s, metadata[s].servers)
          /\ el' = [el EXCEPT ![s].next = n, ![s].pc = "send_elected"]
    BY <1>10 DEF ElNextElected
  <2>2. Elected /\ el[s].pc = "next_elected" /\ s # 1
    BY <1>0, <1>10 DEF ElNextElected, ElOld, Forgetting, FirstIdle
  <2>3. n # 1
    BY <2>1, <2>2 DEF IsNext, Forgetting, OldPrimaryForgotten, Elected
  <2>4. /\ el'[s].pc = "send_elected" /\ el'[s].who = el[s].who
        /\ el'[s].next = n
    BY <1>0, <2>1 DEF ElState
  <2>. QED
    BY <1>0, <2>2, <2>3, <2>4, ElectedStays DEF ElOld
<1>. QED
  BY <1>0, <1>2, <1>3, <1>4, <1>5, <1>6, <1>7, <1>8, <1>9, <1>10, ElMoves
     DEF ElMove

LEMMA ForgettingHeartbeat ==
  ASSUME IInv, Forgetting, [Next]_vars, NEW s \in Server \ {1}
  PROVE  HbOld(s)'
<1>0. /\ TypeOK /\ HbOld(s) /\ hb \in [Server -> HbState]
      /\ hb[s].who \in Server /\ Backups \subseteq metadata[s].servers
  BY DEF IInv, TypeOK, HbState, Forgetting, ListsGood, GoodList
<1>1. /\ Clean(s) => Clean(s)'
      /\ CleanUpTo(s, hb[s].next) => StillClean(s, hb[s].next)
  BY <1>0, CleanStays, CleanUpToStays
<1>2. CASE hb'[s] = hb[s]
  <2>1. hb[s].pc = "send" => StillClean(s, hb[s].next)
    BY <1>0, <1>1 DEF HbOld
  <2>. QED
    BY <1>0, <1>1, <1>2, <2>1
       DEF HbOld, CleanUpTo, StillClean, Clean, Between
<1>3. CASE HbLookup(s)
  <2>1. PICK p \in FirstFlagged(metadata[s]) :
          hb' = [hb EXCEPT ![s].pc = IF p = s THEN "stopped" ELSE "connect",
                           ![s].who = p]
    BY <1>3 DEF HbLookup
  <2>2. hb'[s].pc \in {"stopped", "connect"} /\ hb'[s].who = p
    BY <1>0, <2>1 DEF HbState
  <2>3. p = 1 \/ Clean(s)
    <3>1. ListOld(metadata[s]) /\ p \in Server
      BY <1>0, <2>1 DEF Forgetting, FirstFlagged, TypeOK, Metadata
    <3>. QED
      BY <2>1, <3>1, FirstServer DEF ListOld, Clean, FirstFlagged
  <2>. QED
    BY <1>1, <2>2, <2>3 DEF HbOld
<1>4. CASE HbConnect(s) \/ HbFirstBeat(s) \/ HbDetect(s) \/ HbCheckType(s)
  <2>1. /\ hb'[s].who = hb[s].who
        /\ hb'[s].pc \in {"connected", "beating", "check", "filter", "lookup"}
        /\ hb[s].pc \in {"connect", "connected", "beating", "check"}
    BY <1>0, <1>4 DEF HbConnect, HbFirstBeat, HbDetect, HbCheckType, HbGoto,
       HbState
  <2>. QED
    BY <1>0, <1>1, <2>1 DEF HbOld
<1>5. CASE HbFilter(s)
  <2>1. hb'[s].pc \in {"next", "lookup"} /\ hb[s].pc = "filter"
    BY <1>0, <1>5 DEF HbFilter, HbGoto, HbState
  <2>2. metadata'[s] = Remove(metadata[s], {hb[s].who})
    BY <1>0, <1>5 DEF HbFilter, TypeOK
  <2>3. Clean(s)'
    BY <1>0, <1>1, <2>1, <2>2 DEF HbOld, Clean, Remove
  <2>. QED
    BY <2>1, <2>3 DEF HbOld
<1>6. CASE HbNext(s)
  <2>1. PICK n \in Server :
          /\ IsNext(n, s, metadata[s].servers)
          /\ hb' = [hb EXCEPT ![s].pc = "send", ![s].next = n]
    BY <1>6 DEF HbNext
  <2>2. hb[s].pc = "next" /\ Clean(s)
    BY <1>0, <1>6 DEF HbNext, HbOld
  <2>3. n # 1 /\ CleanUpTo(s, n)
    BY <1>0, <2>1, <2>2, PassedOn DEF IsNext, Clean
  <2>4. StillClean(s, n)
    BY <1>0, <2>3, CleanUpToStays
  <2>5. hb'[s].pc = "send" /\ hb'[s].next = n
    BY <1>0, <2>1 DEF HbState
  <2>. QED
    BY <1>1, <2>2, <2>3, <2>4, <2>5
       DEF HbOld, CleanUpTo, StillClean, Clean, Between
<1>7. CASE HbSend(s)
  <2>1. hb'[s].pc = "lookup"
    BY <1>0, <1>7 DEF HbSend, HbGoto, HbState
  <2>. QED
    BY <2>1 DEF HbOld
<1>. QED
  BY <1>0, <1>2, <1>3, <1>4, <1>5, <1>6, <1>7, HbMoves DEF HbMove

LEMMA ForgettingComs ==
  ASSUME TypeOK, Forgetting, [Next]_vars, NEW s \in Server
  PROVE  ComsOld(s)'
<1>0. ComsOld(s) /\ coms \in [Server -> ComsState]
  BY DEF TypeOK, Forgetting
<1>1. CASE coms'[s] = coms[s]
  BY <1>0, <1>1, ElectedStays DEF ComsOld, ReplyOld
<1>2. ASSUME Elected, coms'[s].pc # "store" PROVE ComsOld(s)'
  BY <1>2, ElectedStays DEF ComsOld
<1>3. ASSUME ComsMove(s) PROVE Elected /\ s # 1
  BY <1>0, <1>3 DEF ComsMove, ComsSelfConnect, ComsFetch, ComsStore, ComsOld,
     Forgetting, FirstIdle
<1>4. NextDeferred(s)[s].pc # "store"
  BY <1>0 DEF NextDeferred, ComsState
<1>5. CASE ComsSelfConnect(s)
  BY <1>0, <1>2, <1>3, <1>5 DEF ComsMove, ComsSelfConnect, ComsState
<1>6. CASE ComsStore(s)
  BY <1>2, <1>3, <1>4, <1>6 DEF ComsMove, ComsStore
<1>7. CASE ComsFetch(s)
  <2>1. CASE coms' = NextDeferred(s)
    BY <1>2, <1>3, <1>4, <1>7, <2>1 DEF ComsMove
  <2>2. ASSUME NEW p \in FirstFlagged(metadata[s]) \ {s},
               coms' = [Served(coms, p) EXCEPT
                          ![s].pc = "store",
                          ![s].reply = Transmitted(metadata[p])]
        PROVE  ComsOld(s)'
    <3>1. p \in Server
      BY DEF FirstFlagged, TypeOK, Metadata
    <3>2. Served(coms, p) \in [Server -> ComsState]
      BY <1>0, <3>1, ServedType
    <3>3. /\ coms'[s].pc = "store"
          /\ coms'[s].reply = Transmitted(metadata[p])
      BY <2>2, <3>2 DEF ComsState
    <3>4. Clean(s) /\ ListOld(metadata[s])
      BY <1>3, <1>7 DEF ComsMove, Forgetting, OldPrimaryForgotten, Elected,
         Clean
    <3>5. p # 1
      BY <3>4 DEF FirstFlagged, ListOld, Clean
    <3>6. ReplyOld(coms[s].reply)'
      BY <1>3, <1>7, <3>1, <3>3, <3>5, ReplyFromClean DEF ComsMove, ReplyOld
    <3>. QED
      BY <1>3, <1>7, <3>6, ElectedStays DEF ComsMove, ComsOld
  <2>. QED
    BY <1>7, <2>1, <2>2 DEF ComsFetch
<1>8. CASE Serving(s) /\ coms'[s] = Served(coms, s)[s]
  <2>1. coms'[s].pc # "store"
    BY <1>0, <1>8 DEF Serving, Served, ComsState
  <2>2. Elected
    BY <1>8 DEF Serving, FetchFromElected, ComsFetch, Forgetting, ElOld,
       ComsOld
  <2>. QED
    BY <1>2, <2>1, <2>2
<1>. QED
  BY <1>1, <1>5, <1>6, <1>7, <1>8, ComsMoves DEF ComsMove

LEMMA ForgettingMail ==
  ASSUME TypeOK, Forgetting, [Next]_vars, NEW j \in Server
  PROVE  MailOld(j)'
<1>0. MailOld(j) /\ inbox[j] \in Seq(Message)
  BY DEF TypeOK, Forgetting
<1>. DEFINE Good(m) ==
       /\ m.type = "election" => StillClean(m.who, j)
       /\ m.type = "elected" => Elected' /\ m.who # 1
<1>1. \A i \in 1 .. Len(inbox[j]) : Good(inbox[j][i])
  <2>1. ASSUME NEW i \in 1 .. Len(inbox[j]) PROVE Good(inbox[j][i])
    <3>1. inbox[j][i] \in Message
      BY <1>0
    <3>2. inbox[j][i].who \in Server
      BY <3>1 DEF Message
    <3>3. CleanUpTo(inbox[j][i].who, j) => StillClean(inbox[j][i].who, j)
      BY <3>2, CleanUpToStays
    <3>. QED
      BY <1>0, <3>3, ElectedStays DEF MailOld
  <2>. QED
    BY <2>1
<1>2. ASSUME NEW m \in Message, Arrives(m, j) PROVE Good(m)
  <2>1. PICK s \in Server :
         \/ SendElection(s) /\ el[s].next = j
            /\ m = [type |-> "election", who |-> el[s].who]
         \/ SendElected(s) /\ el[s].next = j
            /\ m = [type |-> "elected", who |-> el[s].who]
         \/ HbSend(s) /\ hb[s].next = j
            /\ m = [type |-> "election", who |-> s]
         \/ m = [type |-> "torn", who |-> s]
    BY <1>2 DEF Arrives
  <2>2. m.who \in Server
    BY DEF Message
  <2>3. CASE SendElection(s) /\ el[s].next = j
              /\ m = [type |-> "election", who |-> el[s].who]
    <3>1. CleanUpTo(m.who, j)
      BY <2>3 DEF SendElection, Forgetting, ElOld
    <3>. QED
      BY <2>2, <2>3, <3>1, CleanUpToStays
  <2>4. CASE SendElected(s) /\ el[s].next = j
              /\ m = [type |-> "elected", who |-> el[s].who]
    BY <2>4, ElectedStays DEF SendElected, Forgetting, ElOld
  <2>5. CASE HbSend(s) /\ hb[s].next = j
              /\ m = [type |-> "election", who |-> s]
    <3>1. CleanUpTo(m.who, j)
      BY <2>5 DEF HbSend, Forgetting, HbOld, FirstIdle
    <3>. QED
      BY <2>2, <2>5, <3>1, CleanUpToStays
  <2>6. CASE m = [type |-> "torn", who |-> s]
    BY <2>6
  <2>. QED
    BY <2>1, <2>3, <2>4, <2>5, <2>6
<1>3. \A i \in 1 .. Len(inbox'[j]) : Good(inbox'[j][i])
  <2>. HIDE DEF Good
  <2>1. CASE inbox'[j] = inbox[j]
    BY <1>1, <2>1
  <2>2. CASE inbox'[j] = << >>
    BY <2>2
  <2>3. CASE inbox[j] # << >> /\ inbox'[j] = Tail(inbox[j])
    BY <1>0, <1>1, <2>3
  <2>4. CASE \E m \in Message :
               Arrives(m, j) /\ inbox'[j] = Append(inbox[j], m)
    BY <1>0, <1>1, <1>2, <2>4
  <2>. QED
    BY <2>1, <2>2, <2>3, <2>4, MailMoves
<1>. QED
  BY <1>3 DEF MailOld, CleanUpTo, StillClean, Clean, Between

-----------------------------------------------------------------------------
(* The theorem *)

LEMMA ForgettingInit == ASSUME BusyComs = {} PROVE Init => Forgetting
<1>1. SUFFICES ASSUME Init PROVE Forgetting
  OBVIOUS
<1>2. /\ \A s \in Server : metadata[s] = Everybody /\ el[s].pc = "accept"
      /\ \A s \in Server : inbox[s] = << >>
      /\ hb[1].pc = "stopped"
      /\ \A s \in Server \ {1} : hb[s].pc = "lookup"
      /\ serverType[1] = "primary"
      /\ \A s \in Server \ {1} : serverType[s] = "backup"
  BY <1>1, FirstServer DEF Init
<1>3. \A s \in Server : coms[s].pc = "accept"
  <2>1. PICK left \in [Server -> 0 .. N] :
          /\ \A s \in Server : left[s] <= 0
          /\ coms = [s \in Server |->
                       [pc |-> IF left[s] = 0 THEN "accept" ELSE "deferred",
                        left |-> left[s], reply |-> Everybody]]
    BY <1>1 DEF Init
  <2>2. \A s \in Server : left[s] = 0
    BY <2>1, NAssumption
  <2>. QED
    BY <2>1, <2>2
<1>4. ~Elected
  BY <1>2 DEF Elected
<1>. QED
  BY <1>2, <1>3, <1>4, FirstServer DEF Forgetting, FirstIdle, ListOld,
     Everybody, ElOld, HbOld, ComsOld, MailOld, OldPrimaryForgotten, Elected

LEMMA ForgettingStep == IInv /\ Forgetting /\ [Next]_vars => Forgetting'
<1>1. SUFFICES ASSUME IInv, Forgetting, [Next]_vars PROVE Forgetting'
  OBVIOUS
<1>2. TypeOK
  BY <1>1 DEF IInv
<1>3. FirstIdle' /\ OldPrimaryForgotten'
  BY <1>1, <1>2, ForgettingFirst, ForgettingProperty
<1>4. \A s \in Server :
        ListOld(metadata[s])' /\ ElOld(s)' /\ ComsOld(s)' /\ MailOld(s)'
  BY <1>1, <1>2, ForgettingLists, ForgettingElection, ForgettingComs,
     ForgettingMail
<1>5. \A s \in Server \ {1} : HbOld(s)'
  BY <1>1, ForgettingHeartbeat
<1>. QED
  BY <1>3, <1>4, <1>5 DEF Forgetting

\* When startup left no deferred update at any server, then from the moment
\* somebody took over no other server lists the old primary: every late
\* detection of its death is ignored (initiateElection), for any number of
\* servers, initiators and crashes.
THEOREM OldPrimaryGone ==
  ASSUME BusyComs = {} PROVE Spec => []OldPrimaryForgotten
<1>1. Init => Forgetting
  BY ForgettingInit
<1>2. IInv /\ Forgetting /\ [Next]_vars => Forgetting'
  BY ForgettingStep
<1>3. Forgetting => OldPrimaryForgotten
  BY DEF Forgetting
<1>4. Spec => []IInv
  BY Invariance
<1>. QED
  BY <1>1, <1>2, <1>3, <1>4, PTL DEF Spec

=============================================================================
