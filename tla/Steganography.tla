--------------------------- MODULE Steganography ---------------------------
(***************************************************************************)
(* The image program of COMP8505 assignment 2: one run hides a file, with  *)
(* its name and its size, in the low bits of the pixels of a bitmap; a     *)
(* later run finds it there.  Of an image only what the programs touch is  *)
(* kept: the bytes from the offset of the pixels on, numbered from 0, and  *)
(* the entries of the header that say how the rows lie.                    *)
(***************************************************************************)
EXTENDS Integers, SequencesExt, FiniteSets, FiniteSetsExt, Bitwise

CONSTANTS
  Carriers,     \* bitmaps: width, bits per pixel, image size of the header, pixels
  HiddenFiles,  \* files to hide: a name and bytes, both as numbers up to 255
  NoFile

ASSUME SteganographyAssumption ==
  /\ \A c \in Carriers : c.width * c.bpp >= 8 /\ c.pixels \in Seq(0 .. 255)
  /\ \A h \in HiddenFiles : h.name \in Seq(0 .. 255) /\ Len(h.name) < 32 /\ h.bytes \in Seq(0 .. 255)

VARIABLES
  carrier,   \* the bitmap of this behaviour
  result,    \* result.bmp
  hidden,    \* what was hidden in it
  found,     \* the file the other run has written
  misread    \* a file was written from a result whose header was not read

stegoVars == <<carrier, result, hidden, found, misread>>

StegoInit ==
  /\ carrier \in Carriers
  /\ result = NoFile /\ hidden = NoFile /\ found = NoFile
  /\ misread = FALSE

-----------------------------------------------------------------------------
(* The command line: -c and -h before -e, -r before -d, not both -e and    *)
(* -d, and no result beside a carrier or a file to hide.  What is left is  *)
(* the flag, which neither of the two may have set.                        *)

Refuses(args, n) ==
  LET before == {args[m] : m \in 1 .. n - 1}
  IN \/ args[n] = "e" /\ ("d" \in before \/ ~({"c", "h"} \subseteq before))
     \/ args[n] = "d" /\ ("e" \in before \/ "r" \notin before)

parse_command_line(args) ==
  LET given == Range(args)
  IN CASE \E n \in 1 .. Len(args) : Refuses(args, n)  -> "exit"
       [] "r" \in given /\ given \cap {"c", "h"} # {} -> "exit"
       [] "e" \in given -> "e"
       [] "d" \in given -> "d"
       [] OTHER -> "none"

CommandLines == {<<"c", "h", "e">>, <<"h", "c", "e">>, <<"e", "c", "h">>, <<"c", "h">>,
                 <<"r", "d">>, <<"d", "r">>, <<"r">>, <<"c", "h", "r", "d">>}

-----------------------------------------------------------------------------
(* What the header gives: bytes of pixels in a row and, unless a pixel has *)
(* three bytes, a number that is not that of the bytes that follow them.   *)
pixel_data_size(img) == (img.width * img.bpp) \div 8
row_size(img) == ((img.width * img.bpp + 31) \div 32) * 4
padding(img)  == (row_size(img) - img.width * 3) % 65536

(* Fault: the bytes between the rows are not passed over.                  *)
PlaceOfUnpadded(img, bit) == bit

(* The byte for the bit of a number, from 0: the counter of the code is    *)
(* the remainder.                                                          *)
PlaceOf(img, bit) == bit + padding(img) * (bit \div pixel_data_size(img))

encrypt_decrypt(input) == input ^^ 90
bit_process(value, index) == (value \div 2 ^ (7 - index)) % 2
get_LSB(value) == value % 2

Message(file) ==
  LET size == Len(file.bytes)
  IN <<Len(file.name)>> \o file.name
       \o [n \in 1 .. 4 |-> (size \div 256 ^ (n - 1)) % 256] \o file.bytes
BitOf(message, bit) == bit_process(encrypt_decrypt(message[(bit \div 8) + 1]), bit % 8)

(* The size in the header counts the bytes between the rows, in which      *)
(* nothing is put.                                                         *)
BigEnough(img, file) == img.imageSize > 8 * Len(file.bytes) + 8 * Len(file.name) + 8 + 32

(* The carrier, with the low bit of a byte per bit.  A place behind the    *)
(* end of the carrier is written to all the same: the result grows.  Its   *)
(* other bits, which nothing looks at, are 0 here.                         *)
create_result_image(img, file) ==
  LET message == Message(file)
      bits    == 0 .. 8 * Len(message) - 1
      bitAt   == [p \in {PlaceOf(img, b) : b \in bits} |->
                    BitOf(message, CHOOSE b \in bits : PlaceOf(img, b) = p)]
      length  == Max({Len(img.pixels)} \cup {p + 1 : p \in DOMAIN bitAt})
      before(p) == IF p < Len(img.pixels) THEN img.pixels[p + 1] ELSE 0
  IN [img EXCEPT !.pixels =
        [n \in 1 .. length |->
           IF n - 1 \in DOMAIN bitAt THEN before(n - 1) - get_LSB(before(n - 1)) + bitAt[n - 1]
           ELSE before(n - 1)]]

ByteAt(img, n) ==
  encrypt_decrypt(MapThenSumSet(LAMBDA j : 2 ^ (7 - j) * get_LSB(img.pixels[PlaceOf(img, 8 * n + j) + 1]),
                                0 .. 7))
interpret_result_image(img) ==
  LET length == ByteAt(img, 0)
      size   == MapThenSumSet(LAMBDA n : 256 ^ n * ByteAt(img, 1 + length + n), 0 .. 3)
  IN [name  |-> [n \in 1 .. length |-> ByteAt(img, n)],
      bytes |-> [n \in 1 .. size |-> ByteAt(img, length + 4 + n)]]

-----------------------------------------------------------------------------

Hide(args, file) ==
  /\ parse_command_line(args) = "e"
  /\ BigEnough(carrier, file)
  /\ result' = create_result_image(carrier, file)
  /\ hidden' = file
  /\ found' = NoFile
  /\ UNCHANGED <<carrier, misread>>

Find(args) ==
  /\ parse_command_line(args) = "d"
  /\ result # NoFile
  /\ found' = interpret_result_image(result)
  /\ UNCHANGED <<carrier, result, hidden, misread>>

(* With a result and no -d nothing has read its header, and what is not to *)
(* be hidden is searched for: a file of some name is written from the      *)
(* bytes of the header.                                                    *)
FindUnread(args) ==
  /\ parse_command_line(args) = "none"
  /\ "r" \in Range(args)
  /\ result # NoFile
  /\ misread' = TRUE
  /\ UNCHANGED <<carrier, result, hidden, found>>

StegoNext ==
  \/ \E args \in CommandLines, file \in HiddenFiles : Hide(args, file)
  \/ \E args \in CommandLines : Find(args)
  \/ \E args \in CommandLines : FindUnread(args)

-----------------------------------------------------------------------------

StegoTypeOK ==
  /\ carrier \in Carriers
  /\ hidden \in HiddenFiles \cup {NoFile}
  /\ (result = NoFile) = (hidden = NoFile)
  /\ result # NoFile => result.pixels \in Seq(0 .. 255)
  /\ misread \in BOOLEAN

(* What is found has the name and the bytes that were hidden, whatever the *)
(* image is like, and in an image whose rows have room for it nothing else *)
(* has changed than low bits of pixels.                                    *)
HiddenIsFound ==
  /\ found # NoFile => found = hidden
  /\ result # NoFile =>
       LET rows == Len(carrier.pixels) \div row_size(carrier)
           Padded(p) == p % row_size(carrier) >= pixel_data_size(carrier)
       IN carrier.bpp = 24 /\ 8 * Len(Message(hidden)) <= rows * pixel_data_size(carrier) =>
            /\ Len(result.pixels) = Len(carrier.pixels)
            /\ \A n \in 1 .. Len(carrier.pixels) :
                 /\ result.pixels[n] \div 2 = carrier.pixels[n] \div 2
                 /\ Padded(n - 1) => result.pixels[n] = carrier.pixels[n]

=============================================================================
