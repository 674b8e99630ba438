------------------------------ MODULE AesDes -------------------------------
(***************************************************************************)
(* The two ciphers of COMP7402 assignment 1, the class AES and, at the end *)
(* of the module, the program des.                                         *)
(*                                                                         *)
(* A block of the class AES is its sixteen bytes,                          *)
(* column by column, as the program copies them into state[row][column]:   *)
(* the byte of row r and column c, both from 0, is at r + 4c + 1.          *)
(*                                                                         *)
(* The object keeps two numbers, and EncryptECB sets the second, the       *)
(* number of rounds, for every later call.                                 *)
(***************************************************************************)
EXTENDS DesTables, SequencesExt

CONSTANTS
  AesKeys,       \* keys: sequences of bytes, of 16, 24 or 32
  AesTexts,      \* texts: sequences of bytes
  AesIvs,        \* chaining values
  AesRounds,     \* numbers of rounds asked for besides that of the standard
  AesAnswers     \* known results: records of key, text and cipher

ASSUME AesAssumption ==
  /\ \A k \in AesKeys : Len(k) \in {16, 24, 32}
  /\ \A iv \in AesIvs : Len(iv) = 16
  /\ AesRounds \subseteq Nat \ {0}

-----------------------------------------------------------------------------
(* The tables, on bytes.                                                   *)

(* A byte b is found at b + 1: the sixteen rows follow each other.         *)
sbox ==
  <<99, 124, 119, 123, 242, 107, 111, 197, 48, 1, 103, 43, 254, 215, 171, 118, 202, 130, 201, 125, 250, 89, 71, 240, 173, 212, 162, 175, 156, 164, 114, 192,
    183, 253, 147, 38, 54, 63, 247, 204, 52, 165, 229, 241, 113, 216, 49, 21, 4, 199, 35, 195, 24, 150, 5, 154, 7, 18, 128, 226, 235, 39, 178, 117,
    9, 131, 44, 26, 27, 110, 90, 160, 82, 59, 214, 179, 41, 227, 47, 132, 83, 209, 0, 237, 32, 252, 177, 91, 106, 203, 190, 57, 74, 76, 88, 207,
    208, 239, 170, 251, 67, 77, 51, 133, 69, 249, 2, 127, 80, 60, 159, 168, 81, 163, 64, 143, 146, 157, 56, 245, 188, 182, 218, 33, 16, 255, 243, 210,
    205, 12, 19, 236, 95, 151, 68, 23, 196, 167, 126, 61, 100, 93, 25, 115, 96, 129, 79, 220, 34, 42, 144, 136, 70, 238, 184, 20, 222, 94, 11, 219,
    224, 50, 58, 10, 73, 6, 36, 92, 194, 211, 172, 98, 145, 149, 228, 121, 231, 200, 55, 109, 141, 213, 78, 169, 108, 86, 244, 234, 101, 122, 174, 8,
    186, 120, 37, 46, 28, 166, 180, 198, 232, 221, 116, 31, 75, 189, 139, 138, 112, 62, 181, 102, 72, 3, 246, 14, 97, 53, 87, 185, 134, 193, 29, 158,
    225, 248, 152, 17, 105, 217, 142, 148, 155, 30, 135, 233, 206, 85, 40, 223, 140, 161, 137, 13, 191, 230, 66, 104, 65, 153, 45, 15, 176, 84, 187, 22>>

inv_sbox ==
  <<82, 9, 106, 213, 48, 54, 165, 56, 191, 64, 163, 158, 129, 243, 215, 251, 124, 227, 57, 130, 155, 47, 255, 135, 52, 142, 67, 68, 196, 222, 233, 203,
    84, 123, 148, 50, 166, 194, 35, 61, 238, 76, 149, 11, 66, 250, 195, 78, 8, 46, 161, 102, 40, 217, 36, 178, 118, 91, 162, 73, 109, 139, 209, 37,
    114, 248, 246, 100, 134, 104, 152, 22, 212, 164, 92, 204, 93, 101, 182, 146, 108, 112, 72, 80, 253, 237, 185, 218, 94, 21, 70, 87, 167, 141, 157, 132,
    144, 216, 171, 0, 140, 188, 211, 10, 247, 228, 88, 5, 184, 179, 69, 6, 208, 44, 30, 143, 202, 63, 15, 2, 193, 175, 189, 3, 1, 19, 138, 107,
    58, 145, 17, 65, 79, 103, 220, 234, 151, 242, 207, 206, 240, 180, 230, 115, 150, 172, 116, 34, 231, 173, 53, 133, 226, 249, 55, 232, 28, 117, 223, 110,
    71, 241, 26, 113, 29, 41, 197, 137, 111, 183, 98, 14, 170, 24, 190, 27, 252, 86, 62, 75, 198, 210, 121, 32, 154, 219, 192, 254, 120, 205, 90, 244,
    31, 221, 168, 51, 136, 7, 199, 49, 177, 18, 16, 89, 39, 128, 236, 95, 96, 81, 127, 169, 25, 181, 74, 13, 45, 229, 122, 159, 147, 201, 156, 239,
    160, 224, 59, 77, 174, 42, 245, 176, 200, 235, 187, 60, 131, 83, 153, 97, 23, 43, 4, 126, 186, 119, 214, 38, 225, 105, 20, 99, 85, 33, 12, 125>>

CMDS     == <<<<2, 3, 1, 1>>, <<1, 2, 3, 1>>, <<1, 1, 2, 3>>, <<3, 1, 1, 2>>>>
INV_CMDS == <<<<14, 11, 13, 9>>, <<9, 14, 11, 13>>, <<13, 9, 14, 11>>, <<11, 13, 9, 14>>>>

NibbleXor ==
  [a \in Digit |-> [b \in Digit |->
     LET bit(n, i) == (n \div 2 ^ i) % 2
         sum(i) == (bit(a, i) + bit(b, i)) % 2
     IN 8 * sum(3) + 4 * sum(2) + 2 * sum(1) + sum(0)]]
Xor(a, b) == 16 * NibbleXor[a \div 16][b \div 16] + NibbleXor[a % 16][b % 16]

(* Multiplication by x in the field of 256 elements.                       *)
xtime(b) == Xor((2 * b) % 256, 27 * (b \div 128))

(* The rows of the table that the two matrices use: the multiples of every *)
(* byte in the field.  The program has them as numbers.                    *)
GF_MUL_TABLE ==
  LET twice(b) == xtime(b)   four(b) == xtime(xtime(b))   eight(b) == xtime(xtime(xtime(b)))
      times(k, b) ==
        CASE k = 1 -> b
          [] k = 2 -> twice(b)
          [] k = 3 -> Xor(twice(b), b)
          [] k = 9 -> Xor(eight(b), b)
          [] k = 11 -> Xor(eight(b), Xor(twice(b), b))
          [] k = 13 -> Xor(eight(b), Xor(four(b), b))
          [] k = 14 -> Xor(eight(b), Xor(four(b), twice(b)))
  IN [k \in {1, 2, 3, 9, 11, 13, 14} |-> [b \in Byte |-> times(k, b)]]

-----------------------------------------------------------------------------

VARIABLES
  Nk, Nr,       \* words of the key, rounds
  key,          \* the key its user has
  sealed,       \* the last text enciphered, how, and the result
  opened,       \* what deciphering sealed gave
  refused       \* whether the last call threw length_error

aesVars == <<Nk, Nr, key, sealed, opened, refused>>

Nothing == [mode |-> "none"]

-----------------------------------------------------------------------------
(* A block.                                                                *)

At(r, c) == r + 4 * c + 1
RowOf(i) == (i - 1) % 4
ColumnOf(i) == (i - 1) \div 4

(* The state with f(s, i) at i.                                            *)
EachByte(state, f(_, _)) == Only({Evaluated([i \in 1 .. 16 |-> f(s, i)]) : s \in {state}})

SubBytes(state)    == EachByte(state, LAMBDA s, i : sbox[s[i] + 1])
InvSubBytes(state) == EachByte(state, LAMBDA s, i : inv_sbox[s[i] + 1])

(* Row r turns to the left by n places.                                    *)
ShiftRow(s, i, n) == s[At(RowOf(i), (ColumnOf(i) + n) % 4)]
ShiftRows(state)    == EachByte(state, LAMBDA s, i : ShiftRow(s, i, RowOf(i)))
InvShiftRows(state) == EachByte(state, LAMBDA s, i : ShiftRow(s, i, (4 - RowOf(i)) % 4))

(* Each column times a matrix.                                             *)
Product(matrix, s, i) ==
  LET term(k) == GF_MUL_TABLE[matrix[RowOf(i) + 1][k + 1]][s[At(k, ColumnOf(i))]]
  IN Xor(Xor(term(0), term(1)), Xor(term(2), term(3)))
MixColumns(state)    == EachByte(state, LAMBDA s, i : Product(CMDS, s, i))
InvMixColumns(state) == EachByte(state, LAMBDA s, i : Product(INV_CMDS, s, i))

XorBlocks(left, right) == EachByte(<<left, right>>, LAMBDA p, i : Xor(p[1][i], p[2][i]))
AddRoundKey(state, w, round) == XorBlocks(state, SubSeq(w, 16 * round + 1, 16 * round + 16))

(* The expanded key: the key, and then words that add the word before, now *)
(* and then turned, substituted and marked with a power of x, to the word  *)
(* of a key length before.                                                 *)
SubWord(word) == [i \in 1 .. 4 |-> sbox[word[i] + 1]]
RotWord(word) == <<word[2], word[3], word[4], word[1]>>
XorWords(a, b) == Evaluated([i \in 1 .. 4 |-> Xor(a[i], b[i])])
Rcon(n) ==
  LET power[i \in 1 .. n] == IF i = 1 THEN 1 ELSE Only({xtime(p) : p \in {power[i - 1]}})
  IN <<power[n], 0, 0, 0>>

KeyExpansion(k, nk, nr) ==
  LET word(w, n) == SubSeq(w, 4 * n + 1, 4 * n + 4)
      temp(w, n) ==
        LET before == word(w, n - 1)
        IN IF n % nk = 0 THEN XorWords(SubWord(RotWord(before)), Rcon(n \div nk))
           ELSE IF nk > 6 /\ n % nk = 4 THEN SubWord(before)
           ELSE before
      longer(w, n) == Only({v \o XorWords(word(v, n - nk), temp(v, n)) : v \in {w}})
      keyLength(w, g) == Only({FoldLeft(longer, v, [i \in 1 .. nk |-> g * nk + i - 1]) : v \in {w}})
      words == 4 * (nr + 1)
  IN SubSeq(FoldLeft(keyLength, k, [g \in 1 .. (words - 1) \div nk |-> g]), 1, 4 * words)

EncryptBlock(in, w, nr) ==
  LET round(s, n) == Only({AddRoundKey(MixColumns(ShiftRows(SubBytes(v))), w, n) : v \in {s}})
      before == FoldLeft(round, AddRoundKey(in, w, 0), [n \in 1 .. nr - 1 |-> n])
  IN AddRoundKey(ShiftRows(SubBytes(before)), w, nr)

DecryptBlock(in, w, nr) ==
  LET round(s, n) == Only({InvMixColumns(AddRoundKey(InvShiftRows(InvSubBytes(v)), w, nr - n)) : v \in {s}})
      before == FoldLeft(round, AddRoundKey(in, w, nr), [n \in 1 .. nr - 1 |-> n])
  IN AddRoundKey(InvShiftRows(InvSubBytes(before)), w, 0)

-----------------------------------------------------------------------------
(* The modes.  Each goes through the blocks of the text with the block it  *)
(* chains: s is what was written and the block to chain.                   *)

BlocksOf(text) == [i \in 1 .. Len(text) \div 16 |-> SubSeq(text, 16 * i - 15, 16 * i)]

Chained(text, iv, write(_, _), chain(_, _)) ==
  LET step(s, in) ==
        Only({[out |-> r.out \o o, block |-> chain(in, o)] : <<r, o>> \in
               {<<q, write(in, q.block)>> : q \in {s}}})
  IN FoldLeft(step, [out |-> << >>, block |-> iv], BlocksOf(text)).out

EncryptECB(text, w, nr) ==
  Chained(text, << >>, LAMBDA in, b : EncryptBlock(in, w, nr), LAMBDA in, out : << >>)
DecryptECB(text, w, nr) ==
  Chained(text, << >>, LAMBDA in, b : DecryptBlock(in, w, nr), LAMBDA in, out : << >>)
EncryptCBC(text, iv, w, nr) ==
  Chained(text, iv, LAMBDA in, b : EncryptBlock(XorBlocks(b, in), w, nr), LAMBDA in, out : out)

(* Fault: what was written is chained, and not what was read.              *)
DecryptCBCFromPlain(text, iv, w, nr) ==
  Chained(text, iv, LAMBDA in, b : XorBlocks(b, DecryptBlock(in, w, nr)), LAMBDA in, out : out)
DecryptCBC(text, iv, w, nr) ==
  Chained(text, iv, LAMBDA in, b : XorBlocks(b, DecryptBlock(in, w, nr)), LAMBDA in, out : in)
EncryptCFB(text, iv, w, nr) ==
  Chained(text, iv, LAMBDA in, b : XorBlocks(in, EncryptBlock(b, w, nr)), LAMBDA in, out : out)
DecryptCFB(text, iv, w, nr) ==
  Chained(text, iv, LAMBDA in, b : XorBlocks(in, EncryptBlock(b, w, nr)), LAMBDA in, out : in)

-----------------------------------------------------------------------------
(* The object.                                                             *)

(* The key length the object is made for, and its rounds.                  *)
AesInit ==
  /\ key \in AesKeys
  /\ Nk = Len(key) \div 4 /\ Nr = Nk + 6
  /\ sealed = Nothing /\ opened = Nothing /\ refused = FALSE

(* Fault: nothing is checked.                                              *)
CheckLengthNever(text) == TRUE

(* Whether CheckLength lets a text through; it throws before anything else *)
(* is done.                                                                *)
CheckLength(text) == Len(text) % 16 = 0
Refuse(text) ==
  /\ ~CheckLength(text) /\ refused' = TRUE
  /\ UNCHANGED <<Nk, Nr, key, sealed, opened>>

Seal(mode, text, iv, cipher) ==
  /\ sealed' = [mode |-> mode, text |-> text, iv |-> iv, cipher |-> cipher, rounds |-> Nr']
  /\ opened' = Nothing /\ refused' = FALSE
  /\ UNCHANGED <<Nk, key>>

(* getRoundKeys stores the number of rounds in the object.                 *)
getRoundKeys(rounds) == Nr' = rounds

CallEncryptECB(text, rounds) ==
  \/ Refuse(text)
  \/ /\ CheckLength(text)
     /\ getRoundKeys(rounds)
     /\ \E w \in {KeyExpansion(key, Nk, rounds)} : Seal("ECB", text, << >>, EncryptECB(text, w, rounds))

CallEncryptCBC(text, iv) ==
  \/ Refuse(text)
  \/ /\ CheckLength(text)
     /\ UNCHANGED Nr
     /\ \E w \in {KeyExpansion(key, Nk, Nr)} : Seal("CBC", text, iv, EncryptCBC(text, iv, w, Nr))

CallEncryptCFB(text, iv) ==
  \/ Refuse(text)
  \/ /\ CheckLength(text)
     /\ UNCHANGED Nr
     /\ \E w \in {KeyExpansion(key, Nk, Nr)} : Seal("CFB", text, iv, EncryptCFB(text, iv, w, Nr))

(* Deciphering what was enciphered last, with the same key and the same    *)
(* chaining value.                                                         *)
Open(mode, text) ==
  /\ sealed.mode = mode /\ opened = Nothing
  /\ opened' = [mode |-> mode, text |-> text, rounds |-> Nr]
  /\ refused' = FALSE
  /\ UNCHANGED <<Nk, Nr, key, sealed>>
CallDecryptECB == \E w \in {KeyExpansion(key, Nk, Nr)} : Open("ECB", DecryptECB(sealed.cipher, w, Nr))
CallDecryptCBC == \E w \in {KeyExpansion(key, Nk, Nr)} : Open("CBC", DecryptCBC(sealed.cipher, sealed.iv, w, Nr))
CallDecryptCFB == \E w \in {KeyExpansion(key, Nk, Nr)} : Open("CFB", DecryptCFB(sealed.cipher, sealed.iv, w, Nr))

(* Another text goes through the object between the two: its result is not *)
(* kept, but the object is.                                                *)
PassThrough(rounds) ==
  /\ sealed.mode # "none" /\ opened = Nothing
  /\ getRoundKeys(rounds)
  /\ UNCHANGED <<Nk, key, sealed, opened, refused>>

RoundsAsked == AesRounds \cup {Nk + 6}

AesNext ==
  \/ \E text \in AesTexts, rounds \in RoundsAsked : CallEncryptECB(text, rounds)
  \/ \E text \in AesTexts, iv \in AesIvs : CallEncryptCBC(text, iv) \/ CallEncryptCFB(text, iv)
  \/ CallDecryptECB \/ CallDecryptCBC \/ CallDecryptCFB
  \/ \E rounds \in RoundsAsked : PassThrough(rounds)

-----------------------------------------------------------------------------

AesTypeOK ==
  /\ Nk \in {4, 6, 8} /\ Nr \in RoundsAsked
  /\ sealed.mode # "none" => sealed.cipher \in Seq(Byte) /\ Len(sealed.cipher) = Len(sealed.text)

(* A text comes back from deciphering in every mode, for every length of   *)
(* key and number of rounds, unless another call has changed the rounds of *)
(* the object in between.                                                  *)
OpensAsSealed ==
  opened.mode # "none" /\ opened.rounds = sealed.rounds => opened.text = sealed.text

(* The published results, among them the one for the text and the key that *)
(* main quotes, as the first block, with the rounds of the standard for   *)
(* the length of the key.                                                  *)
AesKnownAnswer ==
  \A a \in AesAnswers :
    /\ sealed.mode = "ECB" /\ key = a.key /\ sealed.rounds = Nk + 6
    /\ SubSeq(sealed.text, 1, 16) = a.text
    => SubSeq(sealed.cipher, 1, 16) = a.cipher

-----------------------------------------------------------------------------
(***************************************************************************)
(* The program des of COMP7402 assignment 1: a text of 64 bits, a key and  *)
(* a number of rounds are read, the round keys are generated, and the      *)
(* rounds write their halves to des.txt, one line each.                    *)
(***************************************************************************)
CONSTANTS
  DesTexts, DesKeys,      \* sixteen digits each
  DesRoundNumbers,        \* numbers of rounds a user may ask for
  DesAnswers              \* known results: records of key, text and cipher

(* The program asks for a positive number only; with more than 16 it reads *)
(* behind the table of round keys.                                         *)
ASSUME DesAssumption ==
  /\ DesRoundNumbers \subseteq 1 .. 16
  /\ \A t \in DesTexts \cup DesKeys : Len(t) = 16

DesNet == INSTANCE Feistel

VARIABLES
  stage,          \* "input", "keys", "rounds", "done"
  pt, desKey,     \* what was read, in bits
  round,          \* rounds to make
  round_keys,
  i, left, right, \* of the loop
  desLog,         \* des.txt: left, right and key of each round
  ciphertext

desVars == <<stage, pt, desKey, round, round_keys, i, left, right, desLog, ciphertext>>

DesInit ==
  /\ stage = "input" /\ pt = << >> /\ desKey = << >> /\ round = 0 /\ round_keys = << >>
  /\ i = 0 /\ left = << >> /\ right = << >> /\ desLog = << >> /\ ciphertext = << >>

(* main: three answers of the user.  An answer that is not hexadecimal, or *)
(* a number below one, is asked for again.                                 *)
ReadInput(text, k, n) ==
  /\ stage = "input"
  /\ pt' = hexToBin(text) /\ desKey' = hexToBin(k) /\ round' = n
  /\ stage' = "keys"
  /\ UNCHANGED <<round_keys, i, left, right, desLog, ciphertext>>

generate_keys ==
  /\ stage = "keys"
  /\ round_keys' = DesNet!KeySchedule(desKey, 16)
  /\ LET perm == DesNet!Permute(pt, initial_permutation)
     IN left' = SubSeq(perm, 1, 32) /\ right' = SubSeq(perm, 33, 64)
  /\ i' = 0 /\ stage' = "rounds"
  /\ UNCHANGED <<pt, desKey, round, desLog, ciphertext>>

(* The halves are swapped after every round but the sixteenth, whatever    *)
(* the number of rounds is.                                                *)
Halves == [left |-> left, right |-> right]

AfterRound(k) == IF i < 15 THEN DesNet!Round(Halves, k) ELSE DesNet!LastRound(Halves, k)
DesRound ==
  LET k == round_keys[i + 1] IN
  /\ stage = "rounds" /\ i < round
  /\ left' = AfterRound(k).left /\ right' = AfterRound(k).right
  /\ desLog' = Append(desLog, <<left', right', k>>)
  /\ i' = i + 1
  /\ UNCHANGED <<stage, pt, desKey, round, round_keys, ciphertext>>

DesEnd ==
  /\ stage = "rounds" /\ i = round
  /\ ciphertext' = DesNet!Permute(left \o right, inverse_permutation)
  /\ stage' = "done"
  /\ UNCHANGED <<pt, desKey, round, round_keys, i, left, right, desLog>>

DesNext ==
  \/ \E text \in DesTexts, k \in DesKeys, n \in DesRoundNumbers : ReadInput(text, k, n)
  \/ generate_keys \/ DesRound \/ DesEnd

-----------------------------------------------------------------------------

(* No round loses anything: from the halves after a round and its key the  *)
(* halves before it can be computed, back to the text.                     *)
Undo(halves, line, n) ==
  LET after == IF n = 16 THEN [left |-> halves.right, right |-> halves.left] ELSE halves
  IN Only({[left |-> XOR_binary(DesNet!Mangle(h.left, line[3]), h.right), right |-> h.left] : h \in {after}})
RoundsUndone ==
  stage \in {"rounds", "done"} =>
    LET back(halves, n) == Undo(halves, desLog[i + 1 - n], i + 1 - n)
        first == FoldLeft(back, Halves, [n \in 1 .. i |-> n])
    IN DesNet!Permute(first.left \o first.right, inverse_permutation) = pt

(* Sixteen rounds are DES: they give the known results, and what the same  *)
(* network with the keys in reverse turns into the text again.             *)
SixteenRoundsAreDes ==
  stage = "done" /\ round = 16 =>
    /\ \A a \in DesAnswers :
         pt = hexToBin(a.text) /\ desKey = hexToBin(a.key) => ciphertext = hexToBin(a.cipher)
    /\ DesNet!Network(ciphertext, Reverse(round_keys), 16) = pt

=============================================================================
