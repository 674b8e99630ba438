------------------------------ MODULE MCCiphers ------------------------------
(***************************************************************************)
(* The ciphers of COMP7402 assignments 1 and 5 on small instances.  They   *)
(* share nothing, and so a behaviour is one of theirs: subject says of     *)
(* which, and the others keep their initial state.                         *)
(***************************************************************************)
EXTENDS AesDes, FileCipher

VARIABLE subject

cipherVars == <<aesVars, desVars, fileVars, subject>>

-----------------------------------------------------------------------------

(* The key of each length, from the text that main quotes for the first.   *)
Key128 == <<15, 21, 113, 201, 71, 217, 232, 89, 12, 183, 173, 214, 175, 127, 103, 152>>
Key192 == [n \in 1 .. 24 |-> (37 * n + 3) % 256]
Key256 == [n \in 1 .. 32 |-> (37 * n + 8) % 256]
Quoted == <<1, 35, 69, 103, 137, 171, 205, 239, 254, 220, 186, 152, 118, 84, 50, 16>>
SomeAesKeys   == {Key128, Key192, Key256}
SomeAesTexts  == {Quoted \o Reverse(Quoted), Append(Quoted, 7)}
SomeAesIvs    == {[n \in 1 .. 16 |-> 16 * n - 9]}
SomeAesRounds == {1}
SomeAesAnswers ==
  {[key |-> Key128, text |-> Quoted,
    cipher |-> <<255, 11, 132, 74, 8, 83, 191, 124, 105, 52, 171, 67, 100, 20, 143, 185>>],
   [key |-> Key192, text |-> Quoted,
    cipher |-> <<171, 193, 142, 251, 178, 218, 229, 221, 174, 191, 64, 87, 171, 0, 60, 85>>],
   [key |-> Key256, text |-> Quoted,
    cipher |-> <<168, 97, 82, 117, 207, 225, 197, 229, 151, 8, 23, 9, 240, 165, 139, 33>>]}

(* 02468aceeca86420 under 0f1571c947d9e859, 0123456789abcdef under         *)
(* 133457799bbcdff1.                                                       *)
Palindrome == <<0, 2, 4, 6, 8, 10, 12, 14, 14, 12, 10, 8, 6, 4, 2, 0>>
Ascending  == <<0, 1, 2, 3, 4, 5, 6, 7, 8, 9, 10, 11, 12, 13, 14, 15>>
Key1 == <<0, 15, 1, 5, 7, 1, 12, 9, 4, 7, 13, 9, 14, 8, 5, 9>>
Key2 == <<1, 3, 3, 4, 5, 7, 7, 9, 9, 11, 11, 12, 13, 15, 15, 1>>
SomeDesTexts == {Palindrome, Ascending}
SomeDesKeys  == {Key1, Key2}
SomeDesRounds == {1, 2, 15, 16}
SomeDesAnswers ==
  {[text |-> Palindrome, key |-> Key1, cipher |-> <<13, 10, 0, 2, 12, 14, 3, 10, 8, 9, 14, 12, 10, 12, 3, 11>>],
   [text |-> Ascending, key |-> Key2, cipher |-> <<8, 5, 14, 8, 1, 3, 5, 4, 0, 15, 0, 10, 11, 4, 0, 5>>]}

(* A text with a line end, bytes that are no whole number of blocks with a *)
(* header that is none either, and free names for ciphers and results.     *)
SomeFileNames == {"m.txt", "p.bmp", "e.txt", "e.bmp", "e.dat", "o.txt", "o.dat"}
ExtOf ==
  [f \in SomeFileNames |->
     IF f \in {"m.txt", "e.txt", "o.txt"} THEN "txt" ELSE IF f \in {"p.bmp", "e.bmp"} THEN "bmp" ELSE "dat"]
SmallHeaders == [e \in {"txt", "bmp", "dat"} |-> IF e = "bmp" THEN 11 ELSE 0]
SomeOriginals ==
  [f \in SomeFileNames |->
     CASE f = "m.txt" -> <<72, 105, 10, 64, 65, 66, 67, 68, 69, 70, 71>>
       [] f = "p.bmp" -> [n \in 1 .. 29 |-> (37 * n) % 256]
       [] OTHER -> << >>]
SomePlainTexts == {<<64, 33>>, <<80, 65, 83, 83>>}  \* "@!" has eight zeros in a row
SomeLetters == {<<49, 50, 51, 52, 53, 54, 55, 56>>}
SomeOwnKeys == {Zeros(16) \o hexToBin([n \in 1 .. 12 |-> n]), hexToBin([n \in 1 .. 10 |-> n])}
SomeRoundNumbers == {1, 8}
SomeGarbage == {0, 1, -20}

-----------------------------------------------------------------------------

Init ==
  /\ subject \in {"aes", "des", "file"}
  /\ AesInit /\ DesInit /\ FileInit
  /\ subject # "aes" => key = Key128

AesStep  == subject = "aes" /\ AesNext /\ UNCHANGED <<desVars, fileVars, subject>>
DesStep  == subject = "des" /\ DesNext /\ UNCHANGED <<aesVars, fileVars, subject>>
FileStep == subject = "file" /\ FileNext /\ UNCHANGED <<aesVars, desVars, subject>>

Next == AesStep \/ DesStep \/ FileStep

Spec == Init /\ [][Next]_cipherVars

CiphersTypeOK == AesTypeOK /\ FileTypeOK

(* AES and DES: what is sealed opens, and known texts have the known       *)
(* ciphers.                                                                *)
CiphersAreRight ==
  OpensAsSealed /\ RoundsUndone /\ AesKnownAnswer /\ SixteenRoundsAreDes

=============================================================================
