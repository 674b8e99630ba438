--------------------------- MODULE MCWorkSharing ---------------------------
(* Two workers of one thread; one of two threads, at which one more line is *)
(* typed; or one of three, and a user whose name has a command in it.  Two  *)
(* users and four letters.                                                  *)
EXTENDS WorkSharing, TLC

(* The first answer is in the part of the first worker, the other is not.   *)
SomeAnswers == [u \in 0 .. 1 |-> IF u = 0 THEN 1 ELSE 3]

(* The user told last has an ordinary name, or one with a command in it.    *)
List(command) == [u \in 0 .. 1 |-> IF u = 1 THEN command ELSE "none"]
SomeLists == [n \in 1 .. 3 |-> IF n = 3 THEN {List("bare"), List("flush")} ELSE {List("none")}]

Teams == [n \in 1 .. 3 |-> IF n = 1 THEN 2 ELSE 1]
Lines == [n \in 1 .. 3 |-> IF n = 2 THEN 4 ELSE 3]

(* The numbers of descriptors are all that tells the workers apart.         *)
Alike == Permutations(Workers)

=============================================================================
