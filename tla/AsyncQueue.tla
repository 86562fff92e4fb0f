----------------------------- MODULE AsyncQueue -----------------------------
(***************************************************************************)
(* The queues between the threads of the client: async_queue of            *)
(* client/include/async_queue.h, and the functions of network.cpp that put *)
(* tasks into them and take tasks out.                                     *)
(*                                                                         *)
(* An item is its task id.  A thread is inside between its sem_wait and    *)
(* its sem_post of the mutex; what it does there is one step.  Two threads *)
(* inside at once, or front() of an empty vector, are undefined behaviour: *)
(* the queue is broken then, and nothing more is said of it.               *)
(***************************************************************************)
EXTENDS Integers, Sequences, FiniteSets

CONSTANTS
  Producer, Consumer,   \* the threads that push, those that take
  Operations,           \* how consumers take
  MaxPushes             \* bound on the tasks

ASSUME ThreadAssumption ==
  /\ IsFiniteSet(Producer) /\ IsFiniteSet(Consumer)
  /\ Producer \cap Consumer = {}
ASSUME OperationAssumption ==
  /\ Operations \subseteq
       {"pop", "try_pop", "pop_by_id", "try_pop_by_id", "size"}
  /\ MaxPushes \in Nat

Thread == Producer \cup Consumer
Id == 0 .. MaxPushes

VARIABLES
  queue,       \* the vector of items
  mutex,       \* the value of the semaphore mutex
  awaiting,    \* the value of the semaphore awaiting
  lastTaskId,  \* last_task_id
  thread,      \* what each thread is doing
  pops,        \* calls of pop that have returned
  broken       \* has undefined behaviour happened?

vars == <<queue, mutex, awaiting, lastTaskId, thread, pops, broken>>

ThreadState ==
  [op : {"push", "pop", "try_pop", "pop_by_id", "try_pop_by_id", "size"},
   pc : {"idle", "await", "lock", "inside", "again", "signal"},
   id : Id]

At(t, pc) == thread[t].pc = pc
Goto(t, pc) == thread' = [thread EXCEPT ![t].pc = pc]
Inside == {t \in Thread : At(t, "inside")}

Takes(t) == thread[t].op \notin {"push", "size"}

\* Threads that answer for one item of the queue.
Tokens ==
  {t \in Thread :
     At(t, "signal") \/ (Takes(t) /\ thread[t].pc \in {"lock", "inside"})}

-----------------------------------------------------------------------------
(* The semaphores *)

\* The wrappers take the next id before they push.
StartPush(t) ==
  /\ At(t, "idle") /\ t \in Producer /\ lastTaskId < MaxPushes
  /\ thread' = [thread EXCEPT ![t] =
                  [op |-> "push", pc |-> "lock", id |-> lastTaskId]]
  /\ lastTaskId' = lastTaskId + 1
  /\ UNCHANGED <<queue, mutex, awaiting, pops, broken>>

StartTake(t) ==
  /\ At(t, "idle") /\ t \in Consumer
  /\ \E op \in Operations, id \in 0 .. MaxPushes - 1 :
       thread' = [thread EXCEPT ![t] =
         [op |-> op, pc |-> IF op = "size" THEN "lock" ELSE "await",
          id |-> IF op \in {"pop_by_id", "try_pop_by_id"} THEN id ELSE 0]]
  /\ UNCHANGED <<queue, mutex, awaiting, lastTaskId, pops, broken>>

Await(t) ==
  /\ At(t, "await") /\ awaiting > 0
  /\ awaiting' = awaiting - 1
  /\ Goto(t, "lock")
  /\ UNCHANGED <<queue, mutex, lastTaskId, pops, broken>>

\* sem_trywait; try_pop_by_id does not use it.
TryFails(t) ==
  /\ At(t, "await") /\ thread[t].op = "try_pop" /\ awaiting = 0
  /\ Goto(t, "idle")
  /\ UNCHANGED <<queue, mutex, awaiting, lastTaskId, pops, broken>>

\* Mutant: the mutex is taken without waiting for it.
Lock_NoWait(t) ==
  /\ At(t, "lock")
  /\ mutex' = mutex - 1
  /\ Goto(t, "inside")
  /\ UNCHANGED <<queue, awaiting, lastTaskId, pops, broken>>

Lock(t) ==
  /\ At(t, "lock") /\ mutex > 0
  /\ mutex' = mutex - 1
  /\ Goto(t, "inside")
  /\ UNCHANGED <<queue, awaiting, lastTaskId, pops, broken>>

\* The second sem_post of the mutex in pop.
SecondPost(t) ==
  /\ At(t, "again")
  /\ mutex' = mutex + 1
  /\ pops' = pops + 1
  /\ Goto(t, "idle")
  /\ UNCHANGED <<queue, awaiting, lastTaskId, broken>>

Signal(t) ==
  /\ At(t, "signal")
  /\ awaiting' = awaiting + 1
  /\ Goto(t, IF thread[t].op = "pop_by_id" THEN "await" ELSE "idle")
  /\ UNCHANGED <<queue, mutex, lastTaskId, pops, broken>>

-----------------------------------------------------------------------------
(* Inside *)

Alone(t) == Inside = {t}

\* The body of an operation, and the sem_post of the mutex that ends it.
Leave(t, items, pc) ==
  /\ queue' = items
  /\ mutex' = mutex + 1
  /\ Goto(t, pc)
  /\ UNCHANGED <<awaiting, lastTaskId, pops, broken>>

PushBack(t) ==
  /\ Alone(t) /\ thread[t].op = "push"
  /\ Leave(t, Append(queue, thread[t].id), "signal")

\* Mutant: try_pop posts the mutex twice as well.
TakeFront_PostTwice(t) ==
  /\ Alone(t) /\ queue # << >> /\ thread[t].op \in {"pop", "try_pop"}
  /\ queue' = Tail(queue)
  /\ mutex' = mutex + 2
  /\ Goto(t, "idle")
  /\ UNCHANGED <<awaiting, lastTaskId, pops, broken>>

TakeFront(t) ==
  /\ Alone(t) /\ queue # << >> /\ thread[t].op \in {"pop", "try_pop"}
  /\ Leave(t, Tail(queue), IF thread[t].op = "pop" THEN "again" ELSE "idle")

\* The first item with the id is erased.
TakeById(t) ==
  /\ Alone(t) /\ thread[t].op \in {"pop_by_id", "try_pop_by_id"}
  /\ \E i \in 1 .. Len(queue) :
       /\ queue[i] = thread[t].id
       /\ \A j \in 1 .. i - 1 : queue[j] # thread[t].id
       /\ Leave(t, SubSeq(queue, 1, i - 1) \o SubSeq(queue, i + 1, Len(queue)),
                "idle")

\* Mutant: the token of an item that stays is not given back.
NotFound_KeepToken(t) ==
  /\ Alone(t) /\ thread[t].op \in {"pop_by_id", "try_pop_by_id"}
  /\ \A i \in 1 .. Len(queue) : queue[i] # thread[t].id
  /\ Leave(t, queue, IF thread[t].op = "pop_by_id" THEN "await" ELSE "idle")

\* Mutant: a thread that has not found its task waits inside.
NotFound_KeepMutex(t) ==
  /\ Alone(t) /\ thread[t].op \in {"pop_by_id", "try_pop_by_id"}
  /\ \A i \in 1 .. Len(queue) : queue[i] # thread[t].id
  /\ Goto(t, "signal")
  /\ UNCHANGED <<queue, mutex, awaiting, lastTaskId, pops, broken>>

NotFound(t) ==
  /\ Alone(t) /\ thread[t].op \in {"pop_by_id", "try_pop_by_id"}
  /\ \A i \in 1 .. Len(queue) : queue[i] # thread[t].id
  /\ Leave(t, queue, "signal")

ReadSize(t) ==
  /\ Alone(t) /\ thread[t].op = "size"
  /\ Leave(t, queue, "idle")

\* Another thread is inside too, or there is no front to take.
Break(t) ==
  /\ At(t, "inside")
  /\ ~Alone(t) \/ (queue = << >> /\ thread[t].op \in {"pop", "try_pop"})
  /\ broken' = TRUE
  /\ UNCHANGED <<queue, mutex, awaiting, lastTaskId, thread, pops>>

-----------------------------------------------------------------------------

Continue(t) ==
  /\ ~broken
  /\ \/ Await(t) \/ TryFails(t) \/ Lock(t) \/ SecondPost(t) \/ Signal(t)
     \/ PushBack(t) \/ TakeFront(t) \/ TakeById(t) \/ NotFound(t)
     \/ ReadSize(t) \/ Break(t)

Init ==
  /\ queue = << >> /\ mutex = 1 /\ awaiting = 0
  /\ lastTaskId = 0 /\ pops = 0 /\ broken = FALSE
  /\ thread = [t \in Thread |-> [op |-> "size", pc |-> "idle", id |-> 0]]

Next ==
  \E t \in Thread :
    Continue(t) \/ (~broken /\ (StartPush(t) \/ StartTake(t)))

Spec == Init /\ [][Next]_vars

\* A thread that is in an operation goes on when it can.
FairSpec == Spec /\ \A t \in Thread : WF_vars(Continue(t))

-----------------------------------------------------------------------------
(* Properties *)

TypeOK ==
  /\ queue \in Seq(Id)
  /\ mutex \in Nat /\ awaiting \in Nat /\ pops \in Nat
  /\ lastTaskId \in Id
  /\ thread \in [Thread -> ThreadState]
  /\ broken \in BOOLEAN

\* Two threads are never inside at once, and no thread takes the front of an
\* empty queue (async_queue.h:33, 43), whatever mix of the blocking, trying and
\* searching operations runs; only the double sem_post of pop takes that away
\* (async_queue.h:35-36).
OnlyPopBreaks == broken => pops > 0

\* When no thread is in an operation, the semaphore awaiting counts the items:
\* the searches that take a token, do not find their task and give the token
\* back (async_queue.h:55-83) leave none too many and none missing.
TokenForEachItem ==
  ~broken /\ (\A t \in Thread : At(t, "idle")) => awaiting = Len(queue)

Searches(t, id) ==
  ~broken /\ thread[t].op = "pop_by_id" /\ thread[t].id = id /\ ~At(t, "idle")

\* A thread that waits for the task with an id gets it once it is in the queue
\* (pop_by_id, async_queue.h:52-68), when it is the only consumer, as every
\* queue of the client has; the items in front of it do not keep it away.
FindsItsTask ==
  \A t \in Consumer, id \in 0 .. MaxPushes - 1 :
    Searches(t, id) /\ (\E i \in 1 .. Len(queue) : queue[i] = id)
      ~> ~Searches(t, id)
=============================================================================
