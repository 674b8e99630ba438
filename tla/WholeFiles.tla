----------------------------- MODULE WholeFiles -----------------------------
(***************************************************************************)
(* What a store of files promises to those that send them: a file is       *)
(* appended whole and in one step, under the name of its sender, and once. *)
(* Files of one name follow each other.                                    *)
(***************************************************************************)
EXTENDS Sequences, Naturals

CONSTANTS Senders, NameOf, Acceptable(_, _)

VARIABLES stored, finished    \* name -> bytes; senders whose file is stored

Names == {NameOf[s] : s \in Senders}
Finished(s) == \E i \in 1 .. Len(finished) : finished[i] = s

Init == stored = [n \in Names |-> << >>] /\ finished = << >>

Store(s) ==
  LET before == stored[NameOf[s]]
      after  == stored'[NameOf[s]]
      length == Len(before)
  IN /\ ~Finished(s)
     /\ finished' = Append(finished, s)
     /\ DOMAIN stored' = Names
     /\ \A n \in Names \ {NameOf[s]} : stored'[n] = stored[n]
     /\ Len(after) >= length /\ SubSeq(after, 1, length) = before
     /\ Acceptable(s, SubSeq(after, length + 1, Len(after)))

Spec == Init /\ [][\E s \in Senders : Store(s)]_<<stored, finished>>

=============================================================================
