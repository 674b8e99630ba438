------------------------------ MODULE OneSlot ------------------------------
(***************************************************************************)
(* What two threads that hand over one item at a time promise: an item is  *)
(* sent only when the one before was received, and what is received is     *)
(* what was sent, in order and once.                                       *)
(***************************************************************************)
EXTENDS Sequences, Naturals

CONSTANT Items

VARIABLES sent, received

Init == sent = << >> /\ received = << >>

Send ==
  /\ sent = received
  /\ \E item \in Items : sent' = Append(sent, item)
  /\ UNCHANGED received

Receive ==
  /\ Len(received) < Len(sent)
  /\ received' = Append(received, sent[Len(received) + 1])
  /\ UNCHANGED sent

Next == Send \/ Receive

Spec == Init /\ [][Next]_<<sent, received>>

=============================================================================
