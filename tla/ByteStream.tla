----------------------------- MODULE ByteStream -----------------------------
(***************************************************************************)
(* What a connection promises to the code above it: the bytes that one     *)
(* side writes are read on the other side in the order of their writing,   *)
(* none twice and none left out, until there are no more.  The nth byte    *)
(* written is n.                                                           *)
(***************************************************************************)
EXTENDS Naturals

VARIABLES
  sent,  \* bytes written so far
  got,   \* bytes read so far
  last   \* the byte read last

streamVars == <<sent, got, last>>

Init == sent = 0 /\ got = 0 /\ last = 0

Write ==
  /\ sent' = sent + 1
  /\ UNCHANGED <<got, last>>

Read ==
  /\ got < sent
  /\ got' = got + 1
  /\ last' = got'
  /\ UNCHANGED sent

Next == Write \/ Read

Spec == Init /\ [][Next]_streamVars
=============================================================================
