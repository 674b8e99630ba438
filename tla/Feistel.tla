------------------------------ MODULE Feistel ------------------------------
(***************************************************************************)
(* The Feistel network that three of the cryptology programs share: an     *)
(* initial permutation, rounds on two halves, and a last permutation.      *)
(* The tables and the substitution are parameters, since each program has  *)
(* its own; one without substitution boxes takes the identity.             *)
(***************************************************************************)
EXTENDS BitStrings, SequencesExt

CONSTANTS
  initial_permutation, expansion_table, permutation_tab, inverse_permutation,
  pc1, pc2,              \* permutations of the key schedule
  Substitute(_)          \* what the substitution boxes make of a string

Permute(bits, table) == Only({Evaluated([i \in 1 .. Len(table) |-> b[table[i]]]) : b \in {bits}})

(* The function of a round on the right half.                              *)
Mangle(right, key) ==
  Permute(Substitute(XOR_binary(key, Permute(right, expansion_table))), permutation_tab)

(* One round that swaps the halves, and the last, which does not.          *)
Round(halves, key) ==
  [left |-> halves.right, right |-> XOR_binary(Mangle(halves.right, key), halves.left)]
LastRound(halves, key) ==
  [left |-> XOR_binary(Mangle(halves.right, key), halves.left), right |-> halves.right]

(* The network with the keys of its rounds.  The loop swaps in the rounds  *)
(* before lastRound.                                                       *)
Network(bin, keys, lastRound) ==
  LET step(halves, i) ==
        Only({IF i < lastRound THEN Round(h, keys[i]) ELSE LastRound(h, keys[i]) : h \in {halves}})
      start(perm) == [left  |-> SubSeq(perm, 1, Len(perm) \div 2),
                      right |-> SubSeq(perm, (Len(perm) \div 2) + 1, Len(perm))]
      rounds == [i \in 1 .. Len(keys) |-> i]
      end == FoldLeft(step, start(Permute(bin, initial_permutation)), rounds)
  IN Only({Permute(h.left \o h.right, inverse_permutation) : h \in {end}})

RotateLeft(chunk, n) == SubSeq(chunk, n + 1, Len(chunk)) \o SubSeq(chunk, 1, n)

(* The keys of the rounds: both halves of the permuted key rotate by one   *)
(* place before rounds 1, 2, 9 and 16 and by two before the others.        *)
KeySchedule(key, rounds) ==
  LET shift(i) == IF i \in {1, 2, 9, 16} THEN 1 ELSE 2
      turn(s, i) == [left  |-> RotateLeft(s.left, shift(i)), right |-> RotateLeft(s.right, shift(i))]
      step(s, i) ==
        Only({[left |-> t.left, right |-> t.right,
               keys |-> Append(s.keys, Permute(t.left \o t.right, pc2))] : t \in {turn(r, i) : r \in {s}}})
      start(perm) == [left  |-> SubSeq(perm, 1, Len(perm) \div 2),
                      right |-> SubSeq(perm, (Len(perm) \div 2) + 1, Len(perm)), keys |-> << >>]
  IN FoldLeft(step, start(Permute(key, pc1)), [i \in 1 .. rounds |-> i]).keys

=============================================================================
