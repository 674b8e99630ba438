------------------------ MODULE MCEncryptedTransfer ------------------------
(***************************************************************************)
(* Three clients: two of the same address that send a file of the same     *)
(* name, one after the other, and one with a picture.  Blocks have 16 bits *)
(* and there are four rounds; the tables are small ones of the shape of    *)
(* the program's, whose half of a block expands to the width of a key.     *)
(***************************************************************************)
EXTENDS EncryptedTransfer

MCInitial == <<6, 15, 3, 12, 1, 8, 10, 13, 16, 2, 7, 5, 11, 4, 14, 9>>
MCInverse == <<5, 10, 3, 14, 12, 1, 11, 6, 16, 7, 13, 4, 8, 15, 2, 9>>
MCExpansion == <<1, 2, 3, 4, 1, 3, 2, 4, 5, 6, 7, 8, 6, 8, 5, 7>>
MCPermutation == <<14, 6, 10, 1, 7, 15, 4, 12>>
MCPc1 == <<5, 9, 14, 2, 16, 7, 11, 3, 1, 12, 8, 15, 4, 10, 6, 13>>
MCPc2 == <<9, 3, 12, 11, 6, 16, 1, 8, 14, 5, 2, 10, 13, 7, 4, 15>>
NoBoxes(bits) == bits

(* A product modulo a prime stands for the agreement: both sides get the   *)
(* same number.                                                            *)
MCSecret(mine, theirs) ==
  LET n == (mine * theirs * 7919) % 1000003
  IN [i \in 1 .. 20 |-> (n \div 2 ^ (20 - i)) % 2]

MCIv == [i \in 1 .. 16 |-> IF i \in {1, 4, 5, 9, 11, 12, 16} THEN 1 ELSE 0]

File(ip, name, extension, content) ==
  [ip |-> ip, name |-> name, extension |-> extension, exists |-> TRUE, content |-> content]

(* "ab", whose end of line is missing; "b" and its end of line; a picture.  *)
MCFileOf ==
  [a |-> File("h1", "t.txt", "txt", <<97, 98>>),
   b |-> File("h1", "t.txt", "txt", <<98, 10>>),
   d |-> File("h2", "p.bmp", "bmp", <<66, 77, 0, 9, 7>>)]
MCStartsAfter == [a |-> {}, b |-> {"a"}, d |-> {}]
MCIvOf == [c \in DOMAIN MCFileOf |-> MCIv]
MCKeyOf == [a |-> 3, b |-> 5, d |-> 11]
MCServerKeyOf == [a |-> 13, b |-> 17, d |-> 19]
=============================================================================
