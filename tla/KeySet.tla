------------------------------- MODULE KeySet -------------------------------
(***************************************************************************)
(* What an UnorderedSet promises: it holds keys, one is added, one is      *)
(* taken away, or all of them.                                             *)
(***************************************************************************)
CONSTANT Keys

VARIABLE elements

Init == elements = {}

Add    == \E k \in Keys \ elements : elements' = elements \cup {k}
Remove == \E k \in elements : elements' = elements \ {k}
Clear  == elements' = {}

Next == Add \/ Remove \/ Clear

Spec == Init /\ [][Next]_elements

=============================================================================
