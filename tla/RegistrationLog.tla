--------------------------- MODULE RegistrationLog ---------------------------
(***************************************************************************)
(* What registration promises the ring election: there is one order of the *)
(* servers, it only grows at its end, and each server's list is a prefix   *)
(* of it that only gets longer.                                            *)
(***************************************************************************)
EXTENDS Naturals, Sequences

CONSTANT N

Server == 1 .. N

VARIABLES
  log,    \* the order in which servers have registered
  view    \* the list of each server; empty until it has joined

Init == log = <<1>> /\ view = [s \in Server |-> IF s = 1 THEN <<1>> ELSE << >>]

Position(s) == \E i \in 1 .. Len(log) : log[i] = s

\* s registers with server 1, which knows of it at once.
Register(s) ==
  /\ ~Position(s)
  /\ log' = Append(log, s)
  /\ view' = [view EXCEPT ![1] = log']

\* s takes over a newer state of the log, in which it finds itself.
Learn(s) ==
  /\ s # 1 /\ Position(s)
  /\ \E n \in Len(view[s]) .. Len(log) :
       /\ \E i \in 1 .. n : log[i] = s
       /\ view' = [view EXCEPT ![s] = SubSeq(log, 1, n)]
  /\ UNCHANGED log

Next == \E s \in Server : Register(s) \/ Learn(s)

Spec == Init /\ [][Next]_<<log, view>>
=============================================================================
