---------------------------- MODULE LineChannel ----------------------------
(***************************************************************************)
(* What the asynchronous wrappers promise of each direction: messages are  *)
(* handed to the other side's handler once each and in the order they were *)
(* said, and none is left unheard, until something breaks the channel.     *)
(***************************************************************************)
EXTENDS Naturals, Sequences

VARIABLES said, heard, broken

Init == said = <<>> /\ heard = <<>> /\ broken \in BOOLEAN

Say ==
  /\ Len(said') = Len(said) + 1
  /\ SubSeq(said', 1, Len(said)) = said
  /\ UNCHANGED <<heard, broken>>

Hear ==
  /\ Len(heard) < Len(said)
  /\ heard' = Append(heard, said[Len(heard) + 1])
  /\ UNCHANGED <<said, broken>>

\* Nothing is promised from then on.
Break  == broken'
Broken == broken /\ broken'

Next == IF broken THEN Broken ELSE Say \/ Hear \/ Break

vars == <<said, heard, broken>>

Spec == Init /\ [][Next]_vars

\* While there is something to hear, something is heard in the end.
AllHeard == []<>(broken \/ heard = said) \/ []<><<Hear>>_vars

FairSpec == Spec /\ AllHeard
=============================================================================
