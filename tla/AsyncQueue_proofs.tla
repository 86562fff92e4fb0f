------------------------- MODULE AsyncQueue_proofs -------------------------
(***************************************************************************)
(* Proofs about AsyncQueue for any finite sets of threads, any mix of      *)
(* operations and any number of tasks.                                     *)
(***************************************************************************)
EXTENDS AsyncQueue, FiniteSetTheorems, SequenceTheorems, TLAPS

\* The mutex counts down with every thread inside, and is one too high for
\* every pop that has returned.
MutexCount == mutex + Cardinality(Inside) = 1 + pops

\* Every item has a token: in the semaphore, or with a thread.
TokenCount == awaiting + Cardinality(Tokens) = Len(queue)

\* Only a thread that takes waits for an item.
AwaitTakes == \A t \in Thread : At(t, "await") => Takes(t)

IInv == TypeOK /\ MutexCount /\ TokenCount /\ AwaitTakes /\ OnlyPopBreaks

-----------------------------------------------------------------------------
(* Lemmas *)

LEMMA FiniteThreads ==
  /\ \A S \in SUBSET Thread : IsFiniteSet(S) /\ Cardinality(S) \in Nat
  /\ IsFiniteSet(Inside) /\ Cardinality(Inside) \in Nat
  /\ IsFiniteSet(Tokens) /\ Cardinality(Tokens) \in Nat
<1>1. IsFiniteSet(Thread)
  BY ThreadAssumption, FS_Union DEF Thread
<1>2. \A S \in SUBSET Thread : IsFiniteSet(S) /\ Cardinality(S) \in Nat
  BY <1>1, FS_Subset, FS_CardinalityType
<1>3. Inside \subseteq Thread /\ Tokens \subseteq Thread
  BY DEF Inside, Tokens
<1>. QED
  BY <1>2, <1>3

\* A thread joins a set of threads, or leaves it.
LEMMA CountElement ==
  ASSUME NEW S \in SUBSET Thread, NEW t \in Thread
  PROVE  /\ t \notin S => Cardinality(S \cup {t}) = Cardinality(S) + 1
         /\ t \in S => S \cup {t} = S
         /\ t \in S => Cardinality(S \ {t}) = Cardinality(S) - 1
         /\ t \notin S => S \ {t} = S
<1>1. IsFiniteSet(S)
  BY FiniteThreads
<1>. QED
  BY <1>1, FS_AddElement, FS_RemoveElement

\* One thread changes its state.
LEMMA ThreadStep ==
  ASSUME TypeOK, NEW t \in Thread, NEW r \in ThreadState,
         thread' = [thread EXCEPT ![t] = r]
  PROVE  /\ thread' \in [Thread -> ThreadState]
         /\ r.pc = "inside" => Inside' = Inside \cup {t}
         /\ r.pc # "inside" => Inside' = Inside \ {t}
         /\ r.pc = "signal" => Tokens' = Tokens \cup {t}
         /\ r.op \notin {"push", "size"} /\ r.pc \in {"lock", "inside"}
              => Tokens' = Tokens \cup {t}
         /\ r.pc # "signal"
            /\ (r.op \in {"push", "size"} \/ r.pc \notin {"lock", "inside"})
              => Tokens' = Tokens \ {t}
<1>1. thread \in [Thread -> ThreadState]
  BY DEF TypeOK
<1>2. thread' \in [Thread -> ThreadState]
  BY <1>1
<1>3. \A u \in Thread : thread'[u] = IF u = t THEN r ELSE thread[u]
  BY <1>1
<1>4. Inside' = {u \in Thread : thread'[u].pc = "inside"}
  BY DEF Inside, At
<1>5. Tokens' = {u \in Thread :
                   \/ thread'[u].pc = "signal"
                   \/ /\ thread'[u].op \notin {"push", "size"}
                      /\ thread'[u].pc \in {"lock", "inside"}}
  BY DEF Tokens, At, Takes
<1>6. Inside = {u \in Thread : thread[u].pc = "inside"}
  BY DEF Inside, At
<1>7. Tokens = {u \in Thread :
                   \/ thread[u].pc = "signal"
                   \/ /\ thread[u].op \notin {"push", "size"}
                      /\ thread[u].pc \in {"lock", "inside"}}
  BY DEF Tokens, At, Takes
<1>. QED
  BY <1>2, <1>3, <1>4, <1>5, <1>6, <1>7

\* Goto changes the program counter alone.
LEMMA GotoStep ==
  ASSUME TypeOK, NEW t \in Thread,
         NEW pc \in {"idle", "await", "lock", "inside", "again", "signal"},
         Goto(t, pc)
  PROVE  \E r \in ThreadState :
           /\ r.pc = pc /\ r.op = thread[t].op /\ r.id = thread[t].id
           /\ thread' = [thread EXCEPT ![t] = r]
<1>1. thread \in [Thread -> ThreadState] /\ thread[t] \in ThreadState
  BY DEF TypeOK
<1>2. [thread[t] EXCEPT !.pc = pc] \in ThreadState
  BY <1>1 DEF ThreadState
<1>3. thread' = [thread EXCEPT ![t] = [thread[t] EXCEPT !.pc = pc]]
  BY DEF Goto
<1>4. /\ [thread[t] EXCEPT !.pc = pc].pc = pc
      /\ [thread[t] EXCEPT !.pc = pc].op = thread[t].op
      /\ [thread[t] EXCEPT !.pc = pc].id = thread[t].id
  BY <1>1 DEF ThreadState
<1>. QED
  BY <1>2, <1>3, <1>4

LEMMA AwaitStep ==
  ASSUME TypeOK, AwaitTakes, NEW t \in Thread, NEW r \in ThreadState,
         thread' = [thread EXCEPT ![t] = r],
         r.pc = "await" => r.op \notin {"push", "size"}
  PROVE  AwaitTakes'
<1>1. thread \in [Thread -> ThreadState]
  BY DEF TypeOK
<1>2. \A u \in Thread : thread'[u] = IF u = t THEN r ELSE thread[u]
  BY <1>1
<1>3. \A u \in Thread : thread[u].pc = "await"
                          => thread[u].op \notin {"push", "size"}
  BY DEF AwaitTakes, At, Takes
<1>4. \A u \in Thread : thread'[u].pc = "await"
                          => thread'[u].op \notin {"push", "size"}
  BY <1>2, <1>3
<1>. QED
  BY <1>4 DEF AwaitTakes, At, Takes

\* A thread that is alone inside has the mutex to itself.
LEMMA LeaveStep ==
  ASSUME IInv, NEW t \in Thread, NEW items \in Seq(Id),
         NEW pc \in {"idle", "signal", "again"},
         Alone(t), Leave(t, items, pc),
         \/ pc = "signal" /\ t \in Tokens /\ Len(items) = Len(queue)
         \/ pc = "signal" /\ t \notin Tokens /\ Len(items) = Len(queue) + 1
         \/ pc # "signal" /\ t \in Tokens /\ Len(items) = Len(queue) - 1
         \/ pc # "signal" /\ t \notin Tokens /\ Len(items) = Len(queue)
  PROVE  IInv'
<1>1. PICK r \in ThreadState :
        /\ r.pc = pc /\ r.op = thread[t].op
        /\ thread' = [thread EXCEPT ![t] = r]
  BY GotoStep DEF IInv, Leave
<1>2. thread' \in [Thread -> ThreadState] /\ Inside' = Inside \ {t}
  BY <1>1, ThreadStep DEF IInv
<1>3. t \in Inside /\ At(t, "inside")
  BY DEF Alone, Inside
<1>5. Cardinality(Inside') = Cardinality(Inside) - 1
  <2>1. Inside \in SUBSET Thread
    BY DEF Inside
  <2>. QED
    BY <1>2, <1>3, <2>1, CountElement
<1>6. Cardinality(Tokens') - Cardinality(Tokens) = Len(items) - Len(queue)
  <2>1. Tokens \in SUBSET Thread
    BY DEF Tokens
  <2>2. Cardinality(Tokens) \in Nat /\ Len(items) \in Nat /\ Len(queue) \in Nat
    BY FiniteThreads DEF IInv, TypeOK
  <2>3. CASE pc = "signal"
    <3>1. Tokens' = Tokens \cup {t}
      BY <1>1, <2>3, ThreadStep DEF IInv
    <3>2. CASE t \in Tokens
      <4>1. Tokens' = Tokens /\ Len(items) = Len(queue)
        BY <2>3, <3>1, <3>2
      <4>. QED
        BY <2>2, <4>1
    <3>3. CASE t \notin Tokens
      <4>1. Cardinality(Tokens') = Cardinality(Tokens) + 1
        BY <2>1, <3>1, <3>3, CountElement
      <4>2. Len(items) = Len(queue) + 1
        BY <2>3, <3>3
      <4>. QED
        BY <2>2, <4>1, <4>2
    <3>. QED
      BY <3>2, <3>3
  <2>4. CASE pc # "signal"
    <3>1. Tokens' = Tokens \ {t}
      BY <1>1, <2>4, ThreadStep DEF IInv
    <3>2. CASE t \in Tokens
      <4>1. Cardinality(Tokens') = Cardinality(Tokens) - 1
        BY <2>1, <3>1, <3>2, CountElement
      <4>2. Len(items) = Len(queue) - 1
        BY <2>4, <3>2
      <4>. QED
        BY <2>2, <4>1, <4>2
    <3>3. CASE t \notin Tokens
      <4>1. Tokens' = Tokens /\ Len(items) = Len(queue)
        BY <2>4, <3>1, <3>3
      <4>. QED
        BY <2>2, <4>1
    <3>. QED
      BY <3>2, <3>3
  <2>. QED
    BY <2>3, <2>4
<1>7. TypeOK'
  BY <1>2 DEF IInv, TypeOK, Leave
<1>8. MutexCount'
  BY <1>5, FiniteThreads DEF IInv, TypeOK, MutexCount, Leave
<1>9. TokenCount'
  <2>1. queue' = items /\ Len(items) \in Nat /\ Len(queue) \in Nat
    BY DEF Leave, IInv, TypeOK
  <2>2. Tokens' \in SUBSET Thread
    BY DEF Tokens
  <2>3. Cardinality(Tokens') \in Nat /\ Cardinality(Tokens) \in Nat
    BY <2>2, FiniteThreads
  <2>4. awaiting' = awaiting /\ awaiting \in Nat
    BY DEF Leave, IInv, TypeOK
  <2>5. awaiting + Cardinality(Tokens) = Len(queue)
    BY DEF IInv, TokenCount
  <2>6. awaiting' + Cardinality(Tokens') = Len(queue')
    BY <1>6, <2>1, <2>3, <2>4, <2>5
  <2>. QED
    BY <2>6 DEF TokenCount
<1>10. AwaitTakes'
  BY <1>1, AwaitStep DEF IInv
<1>11. OnlyPopBreaks'
  BY DEF IInv, OnlyPopBreaks, Leave
<1>. QED
  BY <1>7, <1>8, <1>9, <1>10, <1>11 DEF IInv

\* A sequence without its ith element.
LEMMA EraseAt ==
  ASSUME NEW s \in Seq(Id), NEW i \in 1 .. Len(s)
  PROVE  /\ SubSeq(s, 1, i - 1) \o SubSeq(s, i + 1, Len(s)) \in Seq(Id)
         /\ Len(SubSeq(s, 1, i - 1) \o SubSeq(s, i + 1, Len(s)))
              = Len(s) - 1
<1>. DEFINE a == SubSeq(s, 1, i - 1)
            b == SubSeq(s, i + 1, Len(s))
<1>1. a \in Seq(Id) /\ Len(a) = i - 1
  BY SubSeqProperties
<1>2. b \in Seq(Id) /\ Len(b) = Len(s) - i
  <2>1. /\ Len(s) \in Nat /\ i + 1 \in 1 .. Len(s) + 1
        /\ Len(s) \in i .. Len(s)
    OBVIOUS
  <2>. QED
    BY <2>1, SubSeqProperties
<1>. HIDE DEF a, b
<1>3. a \o b \in Seq(Id) /\ Len(a \o b) = Len(a) + Len(b)
  BY <1>1, <1>2, ConcatProperties
<1>4. Len(a \o b) = Len(s) - 1
  BY <1>1, <1>2, <1>3
<1>. QED
  BY <1>3, <1>4 DEF a, b

-----------------------------------------------------------------------------
(* The steps *)

\* A step in which a thread neither enters nor leaves.
LEMMA OutsideStep ==
  ASSUME IInv, NEW t \in Thread, NEW r \in ThreadState,
         thread' = [thread EXCEPT ![t] = r],
         ~At(t, "inside"), r.pc # "inside",
         r.pc = "await" => r.op \notin {"push", "size"},
         mutex' \in Nat, pops' \in Nat, awaiting' \in Nat, lastTaskId' \in Id,
         pops' >= pops, mutex' - mutex = pops' - pops,
         queue' = queue, broken' = broken,
         awaiting' - awaiting = Cardinality(Tokens) - Cardinality(Tokens')
  PROVE  IInv'
<1>1. thread' \in [Thread -> ThreadState] /\ Inside' = Inside \ {t}
  BY ThreadStep DEF IInv
<1>2. Inside' = Inside
  BY <1>1 DEF Inside
<1>3. TypeOK'
  BY <1>1 DEF IInv, TypeOK
<1>4. MutexCount'
  <2>1. Cardinality(Inside) \in Nat /\ mutex \in Nat /\ pops \in Nat
    BY FiniteThreads DEF IInv, TypeOK
  <2>2. mutex + Cardinality(Inside) = 1 + pops
    BY DEF IInv, MutexCount
  <2>3. mutex' + Cardinality(Inside') = 1 + pops'
    BY <1>2, <2>1, <2>2
  <2>. QED
    BY <2>3 DEF MutexCount
<1>5. TokenCount'
  <2>1. Tokens' \in SUBSET Thread
    BY DEF Tokens
  <2>2. Cardinality(Tokens') \in Nat /\ Cardinality(Tokens) \in Nat
    BY <2>1, FiniteThreads
  <2>3. awaiting + Cardinality(Tokens) = Len(queue) /\ awaiting \in Nat
    BY DEF IInv, TokenCount, TypeOK
  <2>4. awaiting' + Cardinality(Tokens') = Len(queue')
    BY <2>2, <2>3
  <2>. QED
    BY <2>4 DEF TokenCount
<1>6. AwaitTakes'
  BY AwaitStep DEF IInv
<1>7. OnlyPopBreaks'
  BY DEF IInv, OnlyPopBreaks, TypeOK
<1>. QED
  BY <1>3, <1>4, <1>5, <1>6, <1>7 DEF IInv

LEMMA StartPushStep ==
  ASSUME IInv, NEW t \in Thread, StartPush(t)
  PROVE  IInv'
<1>. DEFINE r == [op |-> "push", pc |-> "lock", id |-> lastTaskId]
<1>1. MaxPushes \in Nat
  BY OperationAssumption
<1>2. r \in ThreadState /\ lastTaskId + 1 \in Id
  BY <1>1 DEF ThreadState, Id, IInv, TypeOK, StartPush
<1>3. thread' = [thread EXCEPT ![t] = r]
  BY DEF StartPush
<1>4. r.pc = "lock" /\ r.op = "push"
  OBVIOUS
<1>. HIDE DEF r
<1>5. Tokens' = Tokens
  <2>1. Tokens' = Tokens \ {t}
    BY <1>2, <1>3, <1>4, ThreadStep DEF IInv
  <2>2. t \notin Tokens
    BY DEF StartPush, Tokens, At
  <2>. QED
    BY <2>1, <2>2
<1>6. Cardinality(Tokens) \in Nat
  BY FiniteThreads
<1>7. /\ mutex' \in Nat /\ pops' \in Nat /\ awaiting' \in Nat
      /\ lastTaskId' \in Id /\ pops' >= pops
      /\ mutex' - mutex = pops' - pops
      /\ awaiting' - awaiting = Cardinality(Tokens) - Cardinality(Tokens')
      /\ queue' = queue /\ broken' = broken
  BY <1>2, <1>5, <1>6 DEF StartPush, IInv, TypeOK
<1>8. ~At(t, "inside") /\ r.pc # "inside"
  BY <1>4 DEF StartPush, At
<1>. QED
  BY <1>2, <1>3, <1>4, <1>7, <1>8, OutsideStep

LEMMA StartTakeStep ==
  ASSUME IInv, NEW t \in Thread, StartTake(t)
  PROVE  IInv'
<1>1. MaxPushes \in Nat
  BY OperationAssumption
<1>2. PICK op \in Operations, id \in 0 .. MaxPushes - 1 :
        thread' = [thread EXCEPT ![t] =
          [op |-> op, pc |-> IF op = "size" THEN "lock" ELSE "await",
           id |-> IF op \in {"pop_by_id", "try_pop_by_id"} THEN id ELSE 0]]
  BY DEF StartTake
<1>. DEFINE r == [op |-> op, pc |-> IF op = "size" THEN "lock" ELSE "await",
                 id |-> IF op \in {"pop_by_id", "try_pop_by_id"} THEN id ELSE 0]
<1>3. r \in ThreadState
  BY <1>1, OperationAssumption DEF ThreadState, Id
<1>4. thread' = [thread EXCEPT ![t] = r]
  BY <1>2
<1>5. /\ r.pc \in {"lock", "await"}
      /\ r.pc = "await" => r.op \notin {"push", "size"}
      /\ r.pc = "lock" => r.op = "size"
  BY OperationAssumption
<1>. HIDE DEF r
<1>6. Tokens' = Tokens
  <2>1. Tokens' = Tokens \ {t}
    BY <1>3, <1>4, <1>5, ThreadStep DEF IInv
  <2>2. t \notin Tokens
    BY DEF StartTake, Tokens, At
  <2>. QED
    BY <2>1, <2>2
<1>7. Cardinality(Tokens) \in Nat
  BY FiniteThreads
<1>8. /\ mutex' \in Nat /\ pops' \in Nat /\ awaiting' \in Nat
      /\ lastTaskId' \in Id /\ pops' >= pops
      /\ mutex' - mutex = pops' - pops
      /\ awaiting' - awaiting = Cardinality(Tokens) - Cardinality(Tokens')
      /\ queue' = queue /\ broken' = broken
  BY <1>6, <1>7 DEF StartTake, IInv, TypeOK
<1>9. ~At(t, "inside") /\ r.pc # "inside"
  BY <1>5 DEF StartTake, At
<1>. QED
  BY <1>3, <1>4, <1>5, <1>8, <1>9, OutsideStep

LEMMA AwaitingStep ==
  ASSUME IInv, NEW t \in Thread, Await(t)
  PROVE  IInv'
<1>1. PICK r \in ThreadState :
        /\ r.pc = "lock" /\ r.op = thread[t].op
        /\ thread' = [thread EXCEPT ![t] = r]
  BY GotoStep DEF IInv, Await
<1>2. r.op \notin {"push", "size"}
  BY <1>1 DEF IInv, AwaitTakes, Await, Takes
<1>3. Tokens' = Tokens \cup {t}
  BY <1>1, <1>2, ThreadStep DEF IInv
<1>4. t \notin Tokens /\ ~At(t, "inside") /\ Tokens \in SUBSET Thread
  BY DEF Await, Tokens, At
<1>5. Cardinality(Tokens') = Cardinality(Tokens) + 1
  BY <1>3, <1>4, CountElement
<1>6. Cardinality(Tokens) \in Nat
  BY FiniteThreads
<1>7. /\ mutex' \in Nat /\ pops' \in Nat /\ awaiting' \in Nat
      /\ lastTaskId' \in Id /\ pops' >= pops
      /\ mutex' - mutex = pops' - pops
      /\ awaiting' - awaiting = Cardinality(Tokens) - Cardinality(Tokens')
      /\ queue' = queue /\ broken' = broken
  BY <1>5, <1>6 DEF Await, IInv, TypeOK
<1>. QED
  BY <1>1, <1>4, <1>7, OutsideStep

LEMMA TryFailsStep ==
  ASSUME IInv, NEW t \in Thread, TryFails(t)
  PROVE  IInv'
<1>1. PICK r \in ThreadState :
        /\ r.pc = "idle" /\ r.op = thread[t].op
        /\ thread' = [thread EXCEPT ![t] = r]
  BY GotoStep DEF IInv, TryFails
<1>2. t \notin Tokens /\ ~At(t, "inside")
  BY DEF TryFails, Tokens, At
<1>3. Tokens' = Tokens
  <2>1. Tokens' = Tokens \ {t}
    BY <1>1, ThreadStep DEF IInv
  <2>. QED
    BY <1>2, <2>1
<1>4. Cardinality(Tokens) \in Nat
  BY FiniteThreads
<1>5. /\ mutex' \in Nat /\ pops' \in Nat /\ awaiting' \in Nat
      /\ lastTaskId' \in Id /\ pops' >= pops
      /\ mutex' - mutex = pops' - pops
      /\ awaiting' - awaiting = Cardinality(Tokens) - Cardinality(Tokens')
      /\ queue' = queue /\ broken' = broken
  BY <1>3, <1>4 DEF TryFails, IInv, TypeOK
<1>. QED
  BY <1>1, <1>2, <1>5, OutsideStep

LEMMA SecondPostStep ==
  ASSUME IInv, NEW t \in Thread, SecondPost(t)
  PROVE  IInv'
<1>1. PICK r \in ThreadState :
        /\ r.pc = "idle" /\ r.op = thread[t].op
        /\ thread' = [thread EXCEPT ![t] = r]
  BY GotoStep DEF IInv, SecondPost
<1>2. t \notin Tokens /\ ~At(t, "inside")
  BY DEF SecondPost, Tokens, At
<1>3. Tokens' = Tokens
  <2>1. Tokens' = Tokens \ {t}
    BY <1>1, ThreadStep DEF IInv
  <2>. QED
    BY <1>2, <2>1
<1>4. Cardinality(Tokens) \in Nat
  BY FiniteThreads
<1>5. /\ mutex' \in Nat /\ pops' \in Nat /\ awaiting' \in Nat
      /\ lastTaskId' \in Id /\ pops' >= pops
      /\ mutex' - mutex = pops' - pops
      /\ awaiting' - awaiting = Cardinality(Tokens) - Cardinality(Tokens')
      /\ queue' = queue /\ broken' = broken
  BY <1>3, <1>4 DEF SecondPost, IInv, TypeOK
<1>. QED
  BY <1>1, <1>2, <1>5, OutsideStep

LEMMA SignalStep ==
  ASSUME IInv, NEW t \in Thread, Signal(t)
  PROVE  IInv'
<1>. DEFINE pc == IF thread[t].op = "pop_by_id" THEN "await" ELSE "idle"
<1>1. PICK r \in ThreadState :
        /\ r.pc = pc /\ r.op = thread[t].op
        /\ thread' = [thread EXCEPT ![t] = r]
  <2>1. pc \in {"idle", "await", "lock", "inside", "again", "signal"}
    OBVIOUS
  <2>. QED
    BY <2>1, GotoStep DEF IInv, Signal
<1>2. t \in Tokens /\ ~At(t, "inside") /\ Tokens \in SUBSET Thread
  BY DEF Signal, Tokens, At
<1>3. Tokens' = Tokens \ {t}
  BY <1>1, ThreadStep DEF IInv
<1>4. Cardinality(Tokens') = Cardinality(Tokens) - 1
  BY <1>2, <1>3, CountElement
<1>5. Cardinality(Tokens) \in Nat
  BY FiniteThreads
<1>6. /\ mutex' \in Nat /\ pops' \in Nat /\ awaiting' \in Nat
      /\ lastTaskId' \in Id /\ pops' >= pops
      /\ mutex' - mutex = pops' - pops
      /\ awaiting' - awaiting = Cardinality(Tokens) - Cardinality(Tokens')
      /\ queue' = queue /\ broken' = broken
  BY <1>4, <1>5 DEF Signal, IInv, TypeOK
<1>7. r.pc # "inside" /\ (r.pc = "await" => r.op \notin {"push", "size"})
  BY <1>1
<1>. QED
  BY <1>1, <1>2, <1>6, <1>7, OutsideStep

LEMMA LockStep ==
  ASSUME IInv, NEW t \in Thread, Lock(t)
  PROVE  IInv'
<1>1. PICK r \in ThreadState :
        /\ r.pc = "inside" /\ r.op = thread[t].op
        /\ thread' = [thread EXCEPT ![t] = r]
  BY GotoStep DEF IInv, Lock
<1>2. thread' \in [Thread -> ThreadState] /\ Inside' = Inside \cup {t}
  BY <1>1, ThreadStep DEF IInv
<1>3. Tokens' = Tokens
  <2>1. CASE thread[t].op \in {"push", "size"}
    <3>1. Tokens' = Tokens \ {t}
      BY <1>1, <2>1, ThreadStep DEF IInv
    <3>2. t \notin Tokens
      BY <2>1 DEF Lock, Tokens, At, Takes
    <3>. QED
      BY <3>1, <3>2
  <2>2. CASE thread[t].op \notin {"push", "size"}
    <3>1. Tokens' = Tokens \cup {t}
      BY <1>1, <2>2, ThreadStep DEF IInv
    <3>2. t \in Tokens
      BY <2>2 DEF Lock, Tokens, At, Takes
    <3>. QED
      BY <3>1, <3>2
  <2>. QED
    BY <2>1, <2>2
<1>4. Cardinality(Inside') = Cardinality(Inside) + 1
  <2>1. t \notin Inside /\ Inside \in SUBSET Thread
    BY DEF Lock, Inside, At
  <2>. QED
    BY <1>2, <2>1, CountElement
<1>5. TypeOK'
  BY <1>2 DEF IInv, TypeOK, Lock
<1>6. MutexCount'
  <2>1. Cardinality(Inside) \in Nat /\ mutex + Cardinality(Inside) = 1 + pops
    BY FiniteThreads DEF IInv, MutexCount
  <2>2. mutex' + Cardinality(Inside') = 1 + pops'
    BY <1>4, <2>1 DEF Lock, IInv, TypeOK
  <2>. QED
    BY <2>2 DEF MutexCount
<1>7. TokenCount'
  <2>1. awaiting' + Cardinality(Tokens') = Len(queue')
    BY <1>3 DEF IInv, TokenCount, Lock
  <2>. QED
    BY <2>1 DEF TokenCount
<1>8. AwaitTakes'
  BY <1>1, AwaitStep DEF IInv
<1>9. OnlyPopBreaks'
  BY DEF IInv, OnlyPopBreaks, Lock
<1>. QED
  BY <1>5, <1>6, <1>7, <1>8, <1>9 DEF IInv

\* A thread alone inside has its item's token when it takes.
LEMMA AloneToken ==
  ASSUME NEW t \in Thread, Alone(t)
  PROVE  t \in Tokens <=> thread[t].op \notin {"push", "size"}
<1>1. At(t, "inside")
  BY DEF Alone, Inside
<1>. QED
  BY <1>1 DEF At, Tokens, Takes

LEMMA InsideStep ==
  ASSUME IInv, NEW t \in Thread,
         \/ PushBack(t) \/ TakeFront(t) \/ TakeById(t)
         \/ NotFound(t) \/ ReadSize(t)
  PROVE  IInv'
<1>1. queue \in Seq(Id)
  BY DEF IInv, TypeOK
<1>2. CASE PushBack(t)
  <2>1. thread[t].id \in Id
    BY DEF IInv, TypeOK, ThreadState
  <2>2. /\ Append(queue, thread[t].id) \in Seq(Id)
        /\ Len(Append(queue, thread[t].id)) = Len(queue) + 1
    BY <1>1, <2>1
  <2>3. t \notin Tokens
    BY <1>2, AloneToken DEF PushBack
  <2>4. Alone(t) /\ Leave(t, Append(queue, thread[t].id), "signal")
    BY <1>2 DEF PushBack
  <2>. QED
    BY <2>2, <2>3, <2>4, LeaveStep
<1>3. CASE TakeFront(t)
  <2>. DEFINE pc == IF thread[t].op = "pop" THEN "again" ELSE "idle"
  <2>1. Tail(queue) \in Seq(Id) /\ Len(Tail(queue)) = Len(queue) - 1
    BY <1>1, <1>3 DEF TakeFront
  <2>2. t \in Tokens
    BY <1>3, AloneToken DEF TakeFront
  <2>3. Alone(t) /\ Leave(t, Tail(queue), pc)
    BY <1>3 DEF TakeFront
  <2>4. pc \in {"idle", "signal", "again"} /\ pc # "signal"
    OBVIOUS
  <2>. QED
    BY <2>1, <2>2, <2>3, <2>4, LeaveStep
<1>4. CASE TakeById(t)
  <2>1. PICK i \in 1 .. Len(queue) :
          Leave(t, SubSeq(queue, 1, i - 1) \o SubSeq(queue, i + 1, Len(queue)),
                "idle")
    BY <1>4 DEF TakeById
  <2>2. t \in Tokens /\ Alone(t)
    BY <1>4, AloneToken DEF TakeById
  <2>. QED
    BY <1>1, <2>1, <2>2, EraseAt, LeaveStep
<1>5. CASE NotFound(t)
  <2>1. t \in Tokens /\ Alone(t) /\ Leave(t, queue, "signal")
    BY <1>5, AloneToken DEF NotFound
  <2>. QED
    BY <1>1, <2>1, LeaveStep
<1>6. CASE ReadSize(t)
  <2>1. t \notin Tokens /\ Alone(t) /\ Leave(t, queue, "idle")
    BY <1>6, AloneToken DEF ReadSize
  <2>. QED
    BY <1>1, <2>1, LeaveStep
<1>. QED
  BY <1>2, <1>3, <1>4, <1>5, <1>6

\* While no pop has returned the mutex keeps every other thread out, and the
\* token of a thread that takes the front says that there is one.
LEMMA BreakStep ==
  ASSUME IInv, NEW t \in Thread, Break(t)
  PROVE  IInv'
<1>1. t \in Inside /\ Inside \in SUBSET Thread /\ Tokens \in SUBSET Thread
  BY DEF Break, Inside, Tokens
<1>2. pops > 0
  <2>. SUFFICES ASSUME pops = 0 PROVE FALSE
    BY DEF IInv, TypeOK
  <2>1. Cardinality(Inside) <= 1
    BY FiniteThreads DEF IInv, MutexCount, TypeOK
  <2>2. Cardinality(Inside \ {t}) = 0
    <3>1. Cardinality(Inside \ {t}) = Cardinality(Inside) - 1
      BY <1>1, CountElement
    <3>2. Cardinality(Inside \ {t}) \in Nat /\ Cardinality(Inside) \in Nat
      BY <1>1, FiniteThreads
    <3>. QED
      BY <2>1, <3>1, <3>2
  <2>3. Inside \ {t} = {}
    <3>1. IsFiniteSet(Inside \ {t})
      BY <1>1, FiniteThreads
    <3>. QED
      BY <2>2, <3>1, FS_EmptySet
  <2>4. Alone(t)
    BY <1>1, <2>3 DEF Alone
  <2>5. queue = << >> /\ thread[t].op \in {"pop", "try_pop"}
    BY <2>4 DEF Break
  <2>6. t \in Tokens
    BY <2>4, <2>5, AloneToken
  <2>7. Cardinality(Tokens \ {t}) = Cardinality(Tokens) - 1
    BY <1>1, <2>6, CountElement
  <2>8. Cardinality(Tokens \ {t}) \in Nat /\ Cardinality(Tokens) \in Nat
    BY <1>1, FiniteThreads
  <2>9. Len(queue) = 0 /\ awaiting \in Nat
        /\ awaiting + Cardinality(Tokens) = Len(queue)
    BY <2>5 DEF IInv, TypeOK, TokenCount
  <2>. QED
    BY <2>7, <2>8, <2>9
<1>. QED
  BY <1>2 DEF IInv, TypeOK, MutexCount, TokenCount, AwaitTakes, OnlyPopBreaks,
              Break, Inside, Tokens, Takes, At

-----------------------------------------------------------------------------
(* Theorems *)

LEMMA Initially ==
  Init => IInv
<1>. SUFFICES ASSUME Init PROVE IInv
  OBVIOUS
<1>1. 0 \in Id
  BY OperationAssumption DEF Id
<1>2. TypeOK
  <2>. DEFINE r == [op |-> "size", pc |-> "idle", id |-> 0]
  <2>1. r \in ThreadState
    BY <1>1 DEF ThreadState
  <2>2. thread = [t \in Thread |-> r]
    BY DEF Init
  <2>. HIDE DEF r
  <2>3. thread \in [Thread -> ThreadState]
    BY <2>1, <2>2
  <2>4. queue \in Seq(Id) /\ lastTaskId \in Id
    BY <1>1 DEF Init
  <2>. QED
    BY <2>3, <2>4 DEF Init, TypeOK
<1>3. Inside = {} /\ Tokens = {} /\ AwaitTakes
  <2>1. \A u \in Thread : thread[u].pc = "idle"
    BY DEF Init
  <2>. QED
    BY <2>1 DEF Inside, Tokens, AwaitTakes, At
<1>4. Cardinality({}) = 0
  BY FS_EmptySet
<1>5. MutexCount /\ TokenCount
  BY <1>3, <1>4 DEF Init, MutexCount, TokenCount
<1>. QED
  BY <1>2, <1>3, <1>5 DEF IInv, OnlyPopBreaks, Init

LEMMA Inductive ==
  IInv /\ [Next]_vars => IInv'
<1>. SUFFICES ASSUME IInv, [Next]_vars PROVE IInv'
  OBVIOUS
<1>1. CASE Next
  <2>1. PICK t \in Thread : Continue(t) \/ StartPush(t) \/ StartTake(t)
    BY <1>1 DEF Next
  <2>2. CASE Continue(t)
    <3>1. \/ Await(t) \/ TryFails(t) \/ Lock(t) \/ SecondPost(t) \/ Signal(t)
          \/ PushBack(t) \/ TakeFront(t) \/ TakeById(t) \/ NotFound(t)
          \/ ReadSize(t) \/ Break(t)
      BY <2>2 DEF Continue
    <3>2. CASE \/ Await(t) \/ TryFails(t) \/ Lock(t) \/ SecondPost(t)
               \/ Signal(t) \/ Break(t)
      BY <3>2, AwaitingStep, TryFailsStep, LockStep, SecondPostStep,
         SignalStep, BreakStep
    <3>3. CASE \/ PushBack(t) \/ TakeFront(t) \/ TakeById(t)
               \/ NotFound(t) \/ ReadSize(t)
      BY <3>3, InsideStep
    <3>. QED
      BY <3>1, <3>2, <3>3
  <2>3. CASE StartPush(t) \/ StartTake(t)
    BY <2>3, StartPushStep, StartTakeStep
  <2>. QED
    BY <2>1, <2>2, <2>3
<1>2. CASE UNCHANGED vars
  BY <1>2 DEF vars, IInv, TypeOK, MutexCount, TokenCount, AwaitTakes,
              OnlyPopBreaks, Inside, Tokens, Takes, At
<1>. QED
  BY <1>1, <1>2

LEMMA Invariance == Spec => []IInv
  BY Initially, Inductive, PTL DEF Spec

\* Every state of the queue is well typed.
THEOREM TypeCorrect == Spec => []TypeOK
<1>1. IInv => TypeOK
  BY DEF IInv
<1>. QED
  BY <1>1, Invariance, PTL

\* Until a first pop has returned, no two threads are inside the queue at once
\* and no thread takes the front of an empty vector (async_queue.h:23-84).
THEOREM OnlyPopBreaksAlways == Spec => []OnlyPopBreaks
<1>1. IInv => OnlyPopBreaks
  BY DEF IInv
<1>. QED
  BY <1>1, Invariance, PTL

\* Whenever no operation is under way the semaphore counts the items, with any
\* number of threads, tasks and unsuccessful searches.
THEOREM TokensKept == Spec => []TokenForEachItem
<1>1. IInv => TokenForEachItem
  <2>. SUFFICES ASSUME IInv, \A t \in Thread : At(t, "idle")
                PROVE  awaiting = Len(queue)
    BY DEF TokenForEachItem
  <2>1. Tokens = {}
    BY DEF Tokens, At
  <2>2. Cardinality(Tokens) = 0
    BY <2>1, FS_EmptySet
  <2>. QED
    BY <2>2 DEF IInv, TypeOK, TokenCount
<1>. QED
  BY <1>1, Invariance, PTL
=============================================================================
