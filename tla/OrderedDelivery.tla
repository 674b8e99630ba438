-------------------------- MODULE OrderedDelivery --------------------------
(***************************************************************************)
(* What the sender, the proxy and the receiver promise together: packets   *)
(* are submitted one by one, and what the receiver prints never goes back: *)
(* a packet may be missing or repeated, never invented or out of order.    *)
(***************************************************************************)
EXTENDS Naturals

VARIABLES
  submitted,   \* packets submitted so far: they are numbered 1..submitted
  last,        \* the number of the packet delivered last, 0 before the first
  deliveries   \* how many deliveries there were

Init ==
  /\ submitted = 0
  /\ last = 0
  /\ deliveries = 0

Submit ==
  /\ submitted' = submitted + 1
  /\ UNCHANGED <<last, deliveries>>

Deliver ==
  /\ last' \in 1..submitted
  /\ last' >= last
  /\ deliveries' = deliveries + 1
  /\ UNCHANGED submitted

Next == Submit \/ Deliver

Spec == Init /\ [][Next]_<<submitted, last, deliveries>>
=============================================================================
