----------------------------- MODULE FileCipher -----------------------------
(***************************************************************************)
(* The program of COMP7402 assignment 5: a dialogue of questions, and then *)
(* a file, or a typed text, is encrypted or decrypted block by block with  *)
(* a Feistel network and appended to the output file.  A file whose name   *)
(* ends in txt holds text, or the digits of a cipher; any other is taken   *)
(* as bytes, keeps its length, and gets its header copied back by dd.      *)
(*                                                                         *)
(* A behaviour is an encryption and then a decryption of what it wrote by  *)
(* a user who repeats the answers.  Questions answered wrongly are asked   *)
(* again and change nothing.                                               *)
(***************************************************************************)
EXTENDS DesTables, SequencesExt

CONSTANTS
  FileNames, Ext,        \* the names, and the extension of each
  HeaderOf,              \* fileType: length of the header by extension, 0 if not listed
  Originals,             \* contents before the first run, by name: empty where no file is
  PlainTexts,            \* what a user may type as data
  Letters8,              \* main keys and initial vectors
  OwnKeys,               \* answers to "Enter own round keys": a key in bits
  RoundNumbers,          \* numbers of rounds, in 1 .. 16
  Garbage                \* values of an uninitialised int

ASSUME FileAssumption ==
  /\ RoundNumbers \subseteq 1 .. 16
  /\ \A t \in Letters8 : Len(t) = 8
  /\ Originals \in [FileNames -> Seq(Byte)]

FileNet == INSTANCE Feistel

VARIABLES
  question,   \* what the program waits for, or the phase of its work
  u,          \* the settings of the User
  files,      \* the contents of the files
  work,       \* data, keys and position of the loop over the blocks
  encrypted      \* history: settings and data of the encryption, once it ended

fileVars == <<question, u, files, work, encrypted>>

isTxt(name) == Ext[name] = "txt"
strToBin(bytes) == hexToBin(strToHex(bytes))
CharOf(digit) == IF digit < 10 THEN digit + 48 ELSE digit + 87
hexCharToValue(c) ==
  IF c \in 48 .. 57 THEN c - 48 ELSE IF c \in 97 .. 102 THEN c - 87
  ELSE IF c \in 65 .. 70 THEN c - 55 ELSE 0
IsHexChar(c) == c \in 48 .. 57 \cup 97 .. 102 \cup 65 .. 70

(* The lines of a text are joined; other files are read as they are.       *)
readFile(name) ==
  IF isTxt(name) THEN SelectSeq(files[name], LAMBDA c : c # 10) ELSE files[name]

(* The characters of a cipher in a text that are digits.                   *)
HexIn(chars) ==
  LET digits == SelectSeq(chars, IsHexChar) IN [i \in 1 .. Len(digits) |-> hexCharToValue(digits[i])]

addPadding(hex) == hex \o Zeros(16 - (Len(hex) % 16))

(* What appendToFile makes of a string of digits: their characters in a    *)
(* text, and otherwise a byte of each two, the missing last one being the  *)
(* terminating zero, with the value 0.                                     *)
Written(name, hex) ==
  IF isTxt(name) THEN [i \in 1 .. Len(hex) |-> CharOf(hex[i])]
  ELSE hexToASCII(IF Len(hex) % 2 = 1 THEN Append(hex, 0) ELSE hex)
(* And of a string of characters.                                          *)
WrittenChars(name, chars) ==
  IF isTxt(name) THEN chars
  ELSE Written(name, [i \in 1 .. Len(chars) |-> hexCharToValue(chars[i])])

cutLastPadding(binary, n) ==
  IF n <= 0 THEN binary ELSE SubSeq(binary, 1, Len(binary) - n)

(* dd conv=notrunc: the first bytes of one file over those of another.     *)
runDD(origin, target, contents) ==
  [i \in DOMAIN contents[target] |->
     IF i <= HeaderOf[Ext[origin]] /\ i <= Len(contents[origin])
     THEN contents[origin][i] ELSE contents[target][i]]

(* The keys of menu entry 3, in hexadecimal.                               *)
PREDEFINED_ROUND_KEYS == <<13, 14, 10, 13, 11, 14, 14, 15>>
Predefined ==
  [i \in 1 .. 8 |-> Zeros(16) \o hexToBin([j \in 1 .. 8 |-> PREDEFINED_ROUND_KEYS[i]])]

-----------------------------------------------------------------------------

NewUser == [encryptFlag |-> FALSE, mode |-> "ECB", roundNum |-> 0, keyFlag |-> "DEFAULT",
            roundKeys |-> << >>, iv |-> << >>, mainKey |-> << >>, ptMode |-> FALSE,
            inFile |-> "", outFile |-> ""]
NoWork == [bin |-> << >>, keys |-> << >>, iv |-> << >>, padding |-> 0, at |-> 0]

FileInit ==
  /\ question = "EncryptDecrypt" /\ u = NewUser /\ files = Originals
  /\ work = NoWork /\ encrypted = << >>

(* The answers the user may give: who decrypts repeats those that made the *)
(* cipher.                                                                 *)
Answers(setting, offered) == IF u.encryptFlag THEN offered ELSE {encrypted[1][setting]}
Set(setting, value) == u' = [u EXCEPT ![setting] = value]
Ask(next) == question' = next
IsAsked(what) == question = what /\ UNCHANGED <<files, work, encrypted>>

setEncryptDecrypt ==
  /\ IsAsked("EncryptDecrypt")
  /\ Set("encryptFlag", encrypted = << >>) /\ Ask("Mode")

setMode ==
  /\ IsAsked("Mode") /\ Ask("RoundNum")
  /\ \E m \in Answers("mode", {"ECB", "CBC"}) : Set("mode", m)

(* stoi takes a number; anything else ends the program.                    *)
setRoundNum ==
  /\ IsAsked("RoundNum")
  /\ \/ \E n \in Answers("roundNum", RoundNumbers) : Set("roundNum", n) /\ Ask("RoundKeyOption")
     \/ Ask("aborted") /\ UNCHANGED u

AfterKeys(flag) ==
  IF u.mode = "CBC" THEN "IV" ELSE IF flag = "DEFAULT" THEN "MainKeyOption" ELSE "DataType"

(* Entry 3 is there for eight rounds only.  Keys of the user are not       *)
(* checked.                                                                *)
setRoundKeyOption ==
  /\ IsAsked("RoundKeyOption")
  /\ \E flag \in Answers("keyFlag", {"DEFAULT", "USER_DEFINED"}
                           \cup (IF u.roundNum = 8 THEN {"PRE_DEFINED"} ELSE {})) :
       /\ Ask(AfterKeys(flag))
       /\ u' \in {[u EXCEPT !.keyFlag = flag, !.roundKeys = keys] :
                    keys \in Answers("roundKeys",
                               IF flag = "USER_DEFINED"
                               THEN {[i \in 1 .. u.roundNum |-> k] : k \in OwnKeys} ELSE {<< >>})}

setIV ==
  /\ IsAsked("IV") /\ Ask(IF u.keyFlag = "DEFAULT" THEN "MainKeyOption" ELSE "DataType")
  /\ \E text \in Letters8 : Set("iv", strToBin(text)) /\ strToBin(text) \in Answers("iv", {strToBin(text)})

(* A key typed by the user, or a random one that the program displays.     *)
setMainKeyOption ==
  /\ IsAsked("MainKeyOption") /\ Ask("DataType")
  /\ \E text \in Letters8 :
       Set("mainKey", strToBin(text)) /\ strToBin(text) \in Answers("mainKey", {strToBin(text)})

(* setDataType, setInFile, setOutFile.  The output goes to a file that     *)
(* does not exist yet, and that of bytes to no text: their header would    *)
(* overwrite digits, and the last block read beyond its end.               *)
setDataType ==
  /\ IsAsked("DataType") /\ Ask("start")
  /\ \E in \in IF u.encryptFlag THEN {f \in FileNames : files[f] # << >>} ELSE {encrypted[1].outFile},
        out \in {f \in FileNames : files[f] = << >>}, typed \in BOOLEAN :
       /\ typed => u.encryptFlag
       /\ u.encryptFlag /\ ~typed /\ ~isTxt(in) => ~isTxt(out)
       /\ u' = [u EXCEPT !.ptMode = typed, !.inFile = IF typed THEN "" ELSE in, !.outFile = out]

-----------------------------------------------------------------------------

(* initializeRoundKeys, setRK, generateReverseRoundKeys.  Of a longer key  *)
(* the first 48 bits reach the substitution boxes.                         *)
Reaching(key) == IF Len(key) < 48 THEN key ELSE SubSeq(key, 1, 48)
(* Fault: deciphering takes the keys in the order of enciphering.          *)
RoundKeysInOrder ==
  IF u.keyFlag = "USER_DEFINED" THEN [i \in 1 .. u.roundNum |-> Reaching(u.roundKeys[i])]
  ELSE IF u.keyFlag = "PRE_DEFINED" THEN Predefined
  ELSE FileNet!KeySchedule(u.mainKey, u.roundNum)

RoundKeys ==
  LET all == IF u.keyFlag = "USER_DEFINED" THEN [i \in 1 .. u.roundNum |-> Reaching(u.roundKeys[i])]
             ELSE IF u.keyFlag = "PRE_DEFINED" THEN Predefined
             ELSE FileNet!KeySchedule(u.mainKey, u.roundNum)
  IN IF u.encryptFlag THEN all ELSE Reverse(all)
TooShort == \E i \in DOMAIN u.roundKeys : Len(u.roundKeys[i]) < 48

(* What is encrypted, initializeData, in digits; a decryption takes the    *)
(* digits in a text and pads only the bytes of another file.               *)
PaddedData(data) == addPadding(strToHex(data))
CipherIn(name) == IF isTxt(name) THEN HexIn(readFile(name)) ELSE PaddedData(readFile(name))

(* The padding is counted from an uninitialised variable.                  *)
StartEncrypt(data, garbage) ==
  /\ question = "start" /\ u.encryptFlag
  /\ data \in IF u.ptMode THEN PlainTexts ELSE {readFile(u.inFile)}
  /\ work' = [bin |-> hexToBin(PaddedData(data)), keys |-> RoundKeys, iv |-> u.iv,
              padding |-> garbage + 16 - ((2 * Len(data)) % 16), at |-> 0]
  /\ encrypted' = <<u, data>>
  /\ Ask(IF TooShort THEN "aborted" ELSE "encrypt")
  /\ UNCHANGED <<u, files>>

StartDecrypt(garbage) ==
  /\ question = "start" /\ ~u.encryptFlag
  /\ work' = [bin |-> hexToBin(CipherIn(u.inFile)), keys |-> RoundKeys, iv |-> u.iv,
              padding |-> garbage + 16 - ((2 * Len(readFile(u.inFile))) % 16), at |-> 0]
  /\ Ask("decrypt")
  /\ UNCHANGED <<u, files, encrypted>>

BlockAt(i) == SubSeq(work.bin, i + 1, i + 64)
IsLast == work.at + 64 >= Len(work.bin)
feistel(bin) == FileNet!Network(bin, work.keys, u.roundNum)
Whitened(bin) == IF u.mode = "CBC" THEN XOR_binary(bin, work.iv) ELSE bin
AddTo(name, bytes) == files' = [files EXCEPT ![name] = @ \o bytes]

(* One turn of the loop of ECBencrypt and CBCencrypt.                      *)
EncryptNext ==
  /\ question = "encrypt" /\ work.at < Len(work.bin)
  /\ \E cipher \in {feistel(Whitened(BlockAt(work.at)))} :
     \E kept \in {IF IsLast /\ ~isTxt(u.outFile) THEN cutLastPadding(cipher, work.padding * 4) ELSE cipher} :
       /\ AddTo(u.outFile, Written(u.outFile, binToHex(kept)))
       /\ work' = [work EXCEPT !.iv = kept, !.at = @ + 64]
  /\ UNCHANGED <<question, u, encrypted>>

(* One turn of the loop of ECBdecrypt and CBCdecrypt.                      *)
DecryptNext ==
  /\ question = "decrypt" /\ work.at < Len(work.bin)
  /\ \E plain \in {Whitened(feistel(BlockAt(work.at)))} :
       AddTo(u.outFile,
             IF isTxt(u.inFile) THEN WrittenChars(u.outFile, hexToASCII(binToHex(removeTrailingZeros(plain))))
             ELSE Written(u.outFile,
                    binToHex(IF IsLast THEN cutLastPadding(plain, work.padding * 4) ELSE plain)))
  /\ work' = [work EXCEPT !.iv = BlockAt(work.at), !.at = @ + 64]
  /\ UNCHANGED <<question, u, encrypted>>

(* After the loop the header is copied, unless the input was typed or a    *)
(* text; the next run starts with new settings.                            *)
AfterBlocks ==
  /\ question \in {"encrypt", "decrypt"} /\ work.at >= Len(work.bin)
  /\ files' = IF u.inFile = "" \/ isTxt(u.inFile) THEN files
              ELSE [files EXCEPT ![u.outFile] = runDD(u.inFile, u.outFile, files)]
  /\ IF u.encryptFlag THEN Ask("EncryptDecrypt") /\ u' = NewUser
                      ELSE Ask("done") /\ UNCHANGED u
  /\ work' = NoWork
  /\ UNCHANGED encrypted

FileNext ==
  \/ setEncryptDecrypt \/ setMode \/ setRoundNum \/ setRoundKeyOption \/ setIV
  \/ setMainKeyOption \/ setDataType
  \/ \E garbage \in Garbage :
       \/ \E data \in PlainTexts \cup {readFile(f) : f \in FileNames} : StartEncrypt(data, garbage)
       \/ StartDecrypt(garbage)
  \/ EncryptNext \/ DecryptNext \/ AfterBlocks

-----------------------------------------------------------------------------

FileTypeOK ==
  /\ files \in [FileNames -> Seq(Byte)]
  /\ work.at % 64 = 0 /\ work.bin \in Seq(Bit)
  /\ question = "encrypt" => Len(work.keys) = u.roundNum

(* The first bytes of the cipher are the header of the original, and those *)
(* of the result the first bytes of the cipher: a block that the header    *)
(* does not fill is lost, and with chaining the bytes eight places behind  *)
(* the header's too.                                                       *)
HeaderIn == IF encrypted[1].inFile = "" \/ isTxt(encrypted[1].inFile) THEN 0 ELSE HeaderOf[Ext[encrypted[1].inFile]]
HeaderOut == HeaderOf[Ext[encrypted[1].outFile]]
Survives(i) ==
  \/ i <= HeaderIn /\ i <= HeaderOut
  \/ /\ i > HeaderOut /\ 8 * ((i - 1) \div 8) >= HeaderIn
     /\ u.mode = "CBC" /\ HeaderIn > 0 => i - 8 > HeaderIn
Legible(data) == \A i \in 1 .. 8 * Len(data) : ~EightZerosAt(strToBin(data), i)

(* What was encrypted is decrypted: a text in full, unless eight zero bits *)
(* of it in a row are taken for padding, and of bytes every whole block    *)
(* outside the header, whatever the padding counter held in either run.    *)
DecryptedIsOriginal ==
  question = "done" =>
    LET data == encrypted[2]
        out  == files[u.outFile]
    IN /\ isTxt(u.inFile) /\ isTxt(u.outFile) /\ Legible(data) => out = data
       /\ ~isTxt(u.inFile) /\ ~isTxt(u.outFile) =>
            \A i \in 1 .. 8 * (Len(data) \div 8) : Survives(i) => out[i] = data[i]

=============================================================================
