----------------------------- MODULE BitStrings -----------------------------
(***************************************************************************)
(* The strings of '0' and '1' on which the ciphers of the cryptology       *)
(* programs compute, the hexadecimal strings they come from, and bytes.    *)
(* A digit is its value.  In a bit string 2 stands for any other           *)
(* character: a terminating zero written where a digit was.                *)
(*                                                                         *)
(* TLC computes an argument at each of its uses; one that is bound by a    *)
(* set of one element is computed once, and SubSeq(s, 1, Len(s)), which is *)
(* s, makes TLC compute s as a whole.                                      *)
(***************************************************************************)
EXTENDS Integers, Sequences

Bit   == {0, 1}
Digit == 0 .. 15
Byte  == 0 .. 255
NotADigit == 2

Only(set) == CHOOSE x \in set : TRUE
Evaluated(s) == SubSeq(s, 1, Len(s))

hexToBin(hex) ==
  Only({Evaluated([i \in 1 .. 4 * Len(h) |-> (h[((i - 1) \div 4) + 1] \div 2 ^ (3 - ((i - 1) % 4))) % 2])
        : h \in {hex}})

binToHex(binary) ==
  Only({Evaluated([i \in 1 .. Len(b) \div 4 |->
                     8 * b[4 * i - 3] + 4 * b[4 * i - 2] + 2 * b[4 * i - 1] + b[4 * i]])
        : b \in {binary}})

(* '0' where the characters agree: two equal characters that are not       *)
(* digits give '0' too.                                                    *)
XOR_binary(left, right) ==
  Only({Evaluated([i \in 1 .. Len(p[1]) |-> IF p[1][i] = p[2][i] THEN 0 ELSE 1])
        : p \in {<<left, right>>}})

strToHex(bytes) ==
  Only({Evaluated([i \in 1 .. 2 * Len(b) |->
                     IF i % 2 = 1 THEN b[(i + 1) \div 2] \div 16 ELSE b[i \div 2] % 16])
        : b \in {bytes}})

hexToASCII(hex) ==
  Only({Evaluated([i \in 1 .. Len(h) \div 2 |-> 16 * h[2 * i - 1] + h[2 * i]]) : h \in {hex}})

(* Whether eight zeros start at i: what removeTrailingZeros looks for.     *)
EightZerosAt(binStr, i) ==
  i + 7 <= Len(binStr) /\ \A j \in i .. i + 7 : binStr[j] = 0

(* Fault: four zeros, a digit, are dropped.                                *)
removeTrailingZerosOfDigit(binStr) ==
  LET keep(kept, i) ==
        LET digit == SubSeq(binStr, 4 * i - 3, 4 * i)
        IN IF digit = <<0, 0, 0, 0>> THEN kept ELSE kept \o digit
      upTo[i \in 0 .. Len(binStr) \div 4] == IF i = 0 THEN << >> ELSE keep(upTo[i - 1], i)
  IN upTo[Len(binStr) \div 4]

(* Whatever its name says, every eight zeros that the scan meets are       *)
(* dropped, at the end of the string or not.                               *)
removeTrailingZeros(binStr) ==
  LET kept[i \in 1 .. Len(binStr) + 1] ==
        IF i > Len(binStr) THEN << >>
        ELSE IF EightZerosAt(binStr, i) THEN kept[i + 8]
        ELSE <<binStr[i]>> \o kept[i + 1]
  IN kept[1]

Zeros(n) == [i \in 1 .. n |-> 0]

(* What is left of a string of n digits when erase(size - k) cuts it and   *)
(* n characters are still written from its buffer: the terminating zero    *)
(* at the cut, and behind it the digits that were there.  A cut of more    *)
(* than the string clears it, one of zero or less does nothing.            *)
CutInPlace(binary, k) ==
  IF k <= 0 THEN binary
  ELSE LET at == IF k > Len(binary) THEN 1 ELSE Len(binary) - k + 1
       IN [binary EXCEPT ![at] = NotADigit]

=============================================================================
