------------------------------ MODULE MCLibrary ------------------------------
(***************************************************************************)
(* The containers of the library programs on small instances.  They share  *)
(* nothing, and so a behaviour is one of theirs: subject says of which,    *)
(* and the others keep their initial state.                                *)
(***************************************************************************)
EXTENDS Reservations, HashTable, UnorderedSet

VARIABLE subject

vars == <<reservationVars, tableVars, setVars, subject>>

(* Strings of one character, named by it. *)
SingleChars == [k \in TableKeys |-> k]

Init ==
  /\ subject \in {"reservations", "table", "set"}
  /\ ReservationsInit /\ TableInit /\ SetInit

ReservationsStep ==
  subject = "reservations" /\ ReservationsNext /\ UNCHANGED <<tableVars, setVars, subject>>
TableStep == subject = "table" /\ TableNext /\ UNCHANGED <<reservationVars, setVars, subject>>
SetStep   == subject = "set" /\ SetNext /\ UNCHANGED <<reservationVars, tableVars, subject>>

Next == ReservationsStep \/ TableStep \/ SetStep

Spec == Init /\ [][Next]_vars

LibraryTypeOK == ReservationsTypeOK /\ TableTypeOK /\ SetTypeOK

=============================================================================
