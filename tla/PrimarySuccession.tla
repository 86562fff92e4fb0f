-------------------------- MODULE PrimarySuccession --------------------------
(***************************************************************************)
(* What the election of server/src/election.cpp promises, with no ring, no *)
(* message and no list: servers take the role of primary one after         *)
(* another, a server takes it only when it outranks every server that has  *)
(* not had it, and the DNS only ever names a server that has taken it.     *)
(***************************************************************************)
EXTENDS Integers

CONSTANTS N, Rank

Server == 1 .. N

VARIABLES
  primaries,    \* the servers that have taken the role
  registered    \* the server the DNS names

Init == primaries = {1} /\ registered = 1

TakeOver(s) ==
  /\ s \notin primaries
  /\ \A b \in Server \ (primaries \cup {s}) : Rank[s] > Rank[b]
  /\ primaries' = primaries \cup {s}
  /\ UNCHANGED registered

Register(s) ==
  /\ s \in primaries
  /\ registered' = s
  /\ UNCHANGED primaries

Next == \E s \in Server : TakeOver(s) \/ Register(s)

Spec == Init /\ [][Next]_<<primaries, registered>>
=============================================================================
