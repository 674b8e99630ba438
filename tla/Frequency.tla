------------------------------ MODULE Frequency ------------------------------
(***************************************************************************)
(* Task2 of COMP7402 assignment 2: a text is shifted, the letters of both  *)
(* texts are counted, and for each of the 26 keys the probability of six   *)
(* letters is set against that of the letters they would have become.  A   *)
(* letter is its place in the alphabet, whatever its case; another         *)
(* character is 26.  A probability is a count and a total.                 *)
(***************************************************************************)
EXTENDS Integers, SequencesExt

CONSTANTS
  FileNames,   \* what is typed as the name of a file
  Texts        \* what the files hold at first

VARIABLES
  step,              \* where main is
  inFile, outFile, offset,
  texts,             \* the text files
  csv,               \* plain.csv and encode.csv: probability by letter
  plainTxtProb, cipherTxtProb,
  output            \* result.csv: for each key in turn, the quotients

frequencyVars == <<step, inFile, outFile, offset, texts, csv, plainTxtProb, cipherTxtProb, output>>

Letters == 0 .. 25
Shown   == <<4, 19, 0, 8, 14, 13>>   \* e t a i o n
Empty   == << >>

Steps == {"names", "encode", "plain", "encoded", "conditional", "print", "done"}

FrequencyTypeOK ==
  /\ step \in Steps
  /\ inFile \in FileNames /\ outFile \in FileNames /\ offset \in 1 .. 26
  /\ \A f \in FileNames : texts[f] \in Seq(0 .. 26)
  /\ \A p \in {csv.plain, csv.encode, plainTxtProb, cipherTxtProb} : DOMAIN p \subseteq Letters
  /\ Len(output) <= 26

FrequencyInit ==
  /\ step = "names"
  /\ inFile \in FileNames /\ outFile \in FileNames /\ offset = 1
  /\ texts \in [FileNames -> Texts]
  /\ csv = [plain |-> Empty, encode |-> Empty]
  /\ plainTxtProb = Empty /\ cipherTxtProb = Empty
  /\ output = << >>

(* A number from 1 to 26 is asked for until one is given.                  *)
getOffsetInput(number) ==
  /\ step = "names" /\ number \in 1 .. 26
  /\ offset' = number /\ step' = "encode"
  /\ UNCHANGED <<inFile, outFile, texts, csv, plainTxtProb, cipherTxtProb, output>>

Shift(c, by) == IF c \in Letters THEN (c + by) % 26 ELSE c

(* Opening the output empties it before the input is read.                 *)
encode ==
  /\ step = "encode"
  /\ LET read == IF inFile = outFile THEN << >> ELSE texts[inFile]
     IN texts' = [texts EXCEPT ![outFile] = [n \in 1 .. Len(read) |-> Shift(read[n], offset)]]
  /\ step' = "plain"
  /\ UNCHANGED <<inFile, outFile, offset, csv, plainTxtProb, cipherTxtProb, output>>

calculateFrequency(text, letter) == Len(SelectSeq(text, LAMBDA c : c = letter))
totalCharacters(text) == Len(SelectSeq(text, LAMBDA c : c \in Letters))
calculateProbability(text) ==
  [c \in Range(text) \cap Letters |-> <<calculateFrequency(text, c), totalCharacters(text)>>]

calculateDistributions ==
  \/ /\ step = "plain" /\ step' = "encoded"
     /\ csv' = [csv EXCEPT !.plain = calculateProbability(texts[inFile])]
     /\ UNCHANGED <<inFile, outFile, offset, texts, plainTxtProb, cipherTxtProb, output>>
  \/ /\ step = "encoded" /\ step' = "conditional"
     /\ csv' = [csv EXCEPT !.encode = calculateProbability(texts[outFile])]
     /\ UNCHANGED <<inFile, outFile, offset, texts, plainTxtProb, cipherTxtProb, output>>

setConditionalProbabilities ==
  /\ step = "conditional" /\ step' = "print"
  /\ plainTxtProb' = csv.plain /\ cipherTxtProb' = csv.encode
  /\ UNCHANGED <<inFile, outFile, offset, texts, csv, output>>

(* Looking a letter up gives it a probability of 0.                        *)
Prob(p, c) == IF c \in DOMAIN p THEN p[c] ELSE <<0, 1>>

printConditionalProbabilities(key) ==
  /\ step = "print" /\ key = Len(output) + 1
  /\ output' = Append(output,
       [n \in 1 .. Len(Shown) |->
          <<Prob(plainTxtProb, Shown[n]), Prob(cipherTxtProb, (Shown[n] + key) % 26)>>])
  /\ step' = IF key = 26 THEN "done" ELSE "print"
  /\ UNCHANGED <<inFile, outFile, offset, texts, csv, plainTxtProb, cipherTxtProb>>

FrequencyNext ==
  \/ \E number \in {0, 1, 7, 26, 27} : getOffsetInput(number)
  \/ encode
  \/ calculateDistributions
  \/ setConditionalProbabilities
  \/ \E key \in 1 .. 26 : printConditionalProbabilities(key)

-----------------------------------------------------------------------------

Same(p, q) == p[1] * q[2] = q[1] * p[2]

(* Under the key that was used every letter is as likely as the letter it  *)
(* has become, and the likelihoods of the letters of a text add up to one; *)
(* no key is left out or shown twice.                                      *)
KeyExplainsText ==
  /\ offset <= Len(output) => \A n \in 1 .. Len(Shown) : Same(output[offset][n][1], output[offset][n][2])
  /\ \A p \in {csv.plain, csv.encode} : DOMAIN p # {} =>
       FoldLeft(LAMBDA sum, c : sum + p[c][1], 0, SetToSeq(DOMAIN p)) = p[CHOOSE c \in DOMAIN p : TRUE][2]
  /\ step = "done" => Len(output) = 26

=============================================================================
