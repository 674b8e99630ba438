------------------------- MODULE EncryptedTransfer -------------------------
(***************************************************************************)
(* The encrypted file transfer of the COMP7402 project: clients, each with *)
(* a file of its own, and a server with one epoll loop.                    *)
(*                                                                         *)
(* A client connects, exchanges public keys, and then sends its chaining   *)
(* value, the name of its file, the size, and the file in cipher blocks;   *)
(* it waits for an answer to each.  The server keeps what it knows of a    *)
(* connection in users, indexed by the descriptor, and appends the         *)
(* deciphered file to the disk when the text ends.                         *)
(*                                                                         *)
(* Both programs write and read in turn, so a message is one unit of a     *)
(* stream; InStep states that they do.                                     *)
(***************************************************************************)
EXTENDS Feistel, FiniteSetsExt

CONSTANTS
  Clients,
  MayBeKilled,            \* clients whose process may be killed
  StartsAfter,            \* client -> clients that end first: its user runs one after the other
  FileOf,                 \* client -> [ip, name, extension, exists, content]
  IvOf,                   \* client -> chaining value given with -i, in bits
  KeyOf, ServerKeyOf,     \* client -> its key, and the server's for the connection
  ECDH_compute_key(_, _), \* key, key of the peer -> shared secret, in bits
  BlockBits, Rounds,      \* 128 and 16 in the program
  HeaderBytes,            \* 54, the header of a bitmap
  Slots,                  \* descriptors that fit the table of users
  Garbage                 \* values the uninitialised count of addPadding may have

(* The user types a chaining value of at least as many bits as a block     *)
(* has: XOR_binary reads past the end of a shorter one.                    *)
ASSUME EncryptedTransferAssumption ==
  /\ MayBeKilled \subseteq Clients /\ StartsAfter \in [Clients -> SUBSET Clients]
  /\ \A c \in Clients : /\ FileOf[c].content \in Seq(Byte) /\ FileOf[c].exists \in BOOLEAN
                        /\ FileOf[c].exists \/ FileOf[c].content = << >>
  /\ \A c \in Clients : IvOf[c] \in Seq(Bit) /\ Len(IvOf[c]) >= BlockBits
  /\ BlockBits \in Nat \ {0} /\ BlockBits % 8 = 0 /\ Rounds \in Nat \ {0}
  /\ HeaderBytes \in Nat /\ Slots \in Nat
  /\ IsFiniteSet(Clients) /\ Cardinality(Clients) <= Slots  \* one more and the table is overrun

(* The tables of Feistel.h and key.h: the last permutation undoes the      *)
(* first, and whatever the boxes make of the bits of a key, the half of a  *)
(* block comes out.                                                        *)
ASSUME TablesAssumption ==
  /\ initial_permutation \in [1 .. BlockBits -> 1 .. BlockBits]
  /\ inverse_permutation \in [1 .. BlockBits -> 1 .. BlockBits]
  /\ \A i \in 1 .. BlockBits :
       inverse_permutation[initial_permutation[i]] = i /\ initial_permutation[inverse_permutation[i]] = i
  /\ pc1 \in Seq(1 .. BlockBits) /\ Len(pc1) % 2 = 0 /\ Len(pc1) >= 4
  /\ pc2 \in Seq(1 .. Len(pc1)) /\ expansion_table \in Seq(1 .. BlockBits \div 2)
  /\ \A bits \in [1 .. Len(pc2) -> Bit] :
       Permute(Substitute(bits), permutation_tab) \in [1 .. BlockBits \div 2 -> Bit]

(* What the library promises: both sides compute the same secret, of at    *)
(* least as many bits as a block has.                                      *)
ASSUME AgreementAssumption ==
  \A c \in Clients :
    LET secret == ECDH_compute_key(KeyOf[c], ServerKeyOf[c])
    IN /\ secret = ECDH_compute_key(ServerKeyOf[c], KeyOf[c])
       /\ secret \in Seq(Bit) /\ Len(secret) >= BlockBits

VARIABLES
  pc,          \* client -> where it blocks
  rk, chain,   \* client -> round keys, chaining value
  sent,        \* client -> blocks written
  data_,       \* client -> hexadecimal digits of the cipher blocks
  encrypted,   \* client -> the file enc_<name> in its directory
  toServer, toClient,     \* client -> messages on the wire
  backlog,     \* connections to accept
  fd,          \* client -> descriptor of the server for it
  users,       \* descriptor -> what the server knows
  disk,        \* <<ip, name>> -> bytes of the file
  completed    \* history: the clients whose text ended, in that order

clientVars == <<pc, rk, chain, sent, data_, encrypted>>
serverVars == <<backlog, fd, users, disk, completed>>
vars == <<clientVars, toServer, toClient, serverVars>>

Fds == 5 .. Slots + 4      \* 0 to 4 are the terminal, the socket and epoll
NotAccepted == 0
Closed == -1

Names == {<<FileOf[c].ip, FileOf[c].name>> : c \in Clients}
NewUser(ip) ==
  [ip |-> ip, rrk |-> << >>, iv |-> << >>, file_name |-> << >>, isTxt |-> FALSE,
   key_flag |-> FALSE, file_name_flag |-> FALSE, file_size_flag |-> FALSE, EOC_flag |-> FALSE,
   server_key |-> 0, hex_data |-> << >>]

-----------------------------------------------------------------------------
(* The client.                                                             *)

isTxt(c) == FileOf[c].extension = "txt"

(* A text is read line by line, and each line gets an end of line back:    *)
(* the last one too, whether it had one or not.  Other files are read      *)
(* byte by byte.  A file that is not there reads as empty.                 *)
EndOfLine == 10
readFile(c) ==
  LET content == FileOf[c].content
  IN IF ~FileOf[c].exists THEN << >>
     ELSE IF isTxt(c) /\ content # << >> /\ Last(content) # EndOfLine
     THEN Append(content, EndOfLine) ELSE content

calculate_file_size(c) == IF FileOf[c].exists THEN Len(FileOf[c].content) ELSE -1

initializeData(c) == strToHex(readFile(c))

DigitsPerBlock == BlockBits \div 4
Padding(hex) == (DigitsPerBlock - (Len(hex) % DigitsPerBlock)) % DigitsPerBlock
addPadding(hex) == hex \o Zeros(Padding(hex))
(* The counter starts with what is on the stack.                           *)
addPaddingResult(hex, garbage) == IF Padding(hex) = 0 THEN 0 ELSE garbage + Padding(hex)

Blocks(c) == Len(addPadding(initializeData(c))) \div DigitsPerBlock
BinBlock(c, i) ==
  SubSeq(hexToBin(addPadding(initializeData(c))), (i - 1) * BlockBits + 1, i * BlockBits)

feistel(bin, keys) == Network(bin, keys, Rounds)
generateRoundKeys(key) == KeySchedule(key, Rounds)
generateReverseRoundKeys(keys) == Reverse(keys)

(* The first bytes of the shared secret, as many as a block has.           *)
SharedKey(mine, theirs) == SubSeq(ECDH_compute_key(mine, theirs), 1, BlockBits)

Message(tag, value) == [tag |-> tag, value |-> value]
Send(c, message) == toServer' = [toServer EXCEPT ![c] = Append(@, message)]
Receive(c) == toClient' = [toClient EXCEPT ![c] = Tail(@)]
Answered(c) == toClient[c] # << >>

Ended(c) == pc[c] \in {"done", "killed"}
Started(c) == pc[c] = "start" /\ \A d \in StartsAfter[c] : Ended(d)

(* main: connect, and write the public key.                                *)
Connect(c) ==
  /\ Started(c)
  /\ pc' = [pc EXCEPT ![c] = "key"]
  /\ backlog' = Append(backlog, c)
  /\ Send(c, Message("[public_key]", KeyOf[c]))
  /\ UNCHANGED <<rk, chain, sent, data_, encrypted, toClient, fd, users, disk, completed>>

(* The server's key gives the shared key and the round keys.               *)
TakeKey(c) ==
  /\ pc[c] = "key" /\ Answered(c)
  /\ Receive(c)
  /\ rk' = [rk EXCEPT ![c] = generateRoundKeys(SharedKey(KeyOf[c], Head(toClient[c]).value))]
  /\ Send(c, Message("[iv]", IvOf[c]))
  /\ pc' = [pc EXCEPT ![c] = "iv"]
  /\ UNCHANGED <<chain, sent, data_, encrypted, serverVars>>

SendName(c) ==
  /\ pc[c] = "iv" /\ Answered(c)
  /\ Receive(c)
  /\ Send(c, Message("[file_name]", FileOf[c].name))
  /\ pc' = [pc EXCEPT ![c] = "name"]
  /\ UNCHANGED <<rk, chain, sent, data_, encrypted, serverVars>>

SendSize(c) ==
  /\ pc[c] = "name" /\ Answered(c)
  /\ Receive(c)
  /\ Send(c, Message("[file_size]", calculate_file_size(c)))
  /\ chain' = [chain EXCEPT ![c] = IvOf[c]]
  /\ pc' = [pc EXCEPT ![c] = "data"]
  /\ UNCHANGED <<rk, sent, data_, encrypted, serverVars>>

(* Fault: the uncut block is chained.                                      *)
CBC_encryptChainsUncut(c) ==
  LET block  == sent[c] + 1
      cipher == feistel(XOR_binary(BinBlock(c, block), chain[c]), rk[c])
  IN /\ pc[c] = "data" /\ Answered(c) /\ sent[c] < Blocks(c)
     /\ Receive(c)
     /\ data_' = [data_ EXCEPT ![c] = @ \o binToHex(cipher)]
     /\ sent' = [sent EXCEPT ![c] = block]
     /\ \E garbage \in Garbage :
          LET cut == IF block = Blocks(c) /\ ~isTxt(c)
                     THEN 4 * addPaddingResult(initializeData(c), garbage) ELSE 0
          IN Send(c, Message("block", CutInPlace(cipher, cut)))
     /\ chain' = [chain EXCEPT ![c] = cipher]
     /\ UNCHANGED <<pc, rk, encrypted, serverVars>>

(* The loop of CBC_encrypt, from one answer to the next.  The last block   *)
(* of a file that is not a text is cut, and written in full nevertheless.  *)
CBC_encrypt(c) ==
  LET block  == sent[c] + 1
      cipher == feistel(XOR_binary(BinBlock(c, block), chain[c]), rk[c])
  IN /\ pc[c] = "data" /\ Answered(c) /\ sent[c] < Blocks(c)
     /\ Receive(c)
     /\ data_' = [data_ EXCEPT ![c] = @ \o binToHex(cipher)]
     /\ sent' = [sent EXCEPT ![c] = block]
     /\ \E garbage \in Garbage :
          LET cut == IF block = Blocks(c) /\ ~isTxt(c)
                     THEN 4 * addPaddingResult(initializeData(c), garbage) ELSE 0
              written == CutInPlace(cipher, cut)
          IN /\ Send(c, Message("block", written))
             /\ chain' = [chain EXCEPT ![c] = written]
     /\ UNCHANGED <<pc, rk, encrypted, serverVars>>

(* After the last block: a picture is kept in its encrypted form, and the  *)
(* end of the text is written.                                             *)
EndText(c) ==
  /\ pc[c] = "data" /\ Answered(c) /\ sent[c] = Blocks(c)
  /\ Receive(c)
  /\ encrypted' = [encrypted EXCEPT ![c] =
                     IF FileOf[c].extension = "bmp" THEN @ \o hexToASCII(data_[c]) ELSE @]
  /\ Send(c, Message("EOT", 0))
  /\ pc' = [pc EXCEPT ![c] = "end"]
  /\ UNCHANGED <<rk, chain, sent, data_, serverVars>>

(* Fault: without conv=notrunc dd leaves the header alone.                 *)
runDDTruncates(c) ==
  SubSeq(FileOf[c].content, 1, Min({HeaderBytes, Len(FileOf[c].content)}))

(* dd copies the header of the picture over the encrypted one.             *)
runDD(c) ==
  LET n == Min({HeaderBytes, Len(FileOf[c].content)})
  IN SubSeq(FileOf[c].content, 1, n) \o SubSeq(encrypted[c], n + 1, Len(encrypted[c]))

(* The last read ends when the server closes the connection.               *)
Leave(c) ==
  /\ pc[c] = "end" /\ fd[c] = Closed
  /\ encrypted' = [encrypted EXCEPT ![c] = IF FileOf[c].extension = "bmp" THEN runDD(c) ELSE @]
  /\ pc' = [pc EXCEPT ![c] = "done"]
  /\ UNCHANGED <<rk, chain, sent, data_, toServer, toClient, serverVars>>

(* The process is killed: its memory is gone, and an answer it has not     *)
(* read.                                                                   *)
Kill(c) ==
  /\ c \in MayBeKilled /\ pc[c] \notin {"start", "done", "killed"}
  /\ pc' = [pc EXCEPT ![c] = "killed"]
  /\ rk' = [rk EXCEPT ![c] = << >>] /\ chain' = [chain EXCEPT ![c] = << >>]
  /\ sent' = [sent EXCEPT ![c] = 0] /\ data_' = [data_ EXCEPT ![c] = << >>]
  /\ toClient' = [toClient EXCEPT ![c] = << >>]
  /\ UNCHANGED <<encrypted, toServer, serverVars>>

-----------------------------------------------------------------------------
(* The server: one event of epoll at a time.                               *)

OpenFds == {fd[c] : c \in Clients} \cap Fds
ClientAt(f) == CHOOSE c \in Clients : fd[c] = f

(* An answer to a client that was killed goes nowhere.                     *)
Answer(c, message) ==
  toClient' = [toClient EXCEPT ![c] = IF pc[c] = "killed" THEN @ ELSE Append(@, message)]

(* Fault: the text that the last client of the descriptor left is kept.    *)
register_new_clientKeepsText ==
  /\ backlog # << >>
  /\ LET c == Head(backlog)
         f == Min(Fds \ OpenFds)
     IN /\ fd' = [fd EXCEPT ![c] = f]
        /\ users' = [users EXCEPT ![f] = [NewUser(FileOf[c].ip) EXCEPT
                        !.server_key = ServerKeyOf[c], !.hex_data = users[f].hex_data]]
  /\ backlog' = Tail(backlog)
  /\ UNCHANGED <<clientVars, toServer, toClient, disk, completed>>

(* accept takes the lowest free descriptor; its entry starts afresh.       *)
register_new_client ==
  /\ backlog # << >>
  /\ LET c == Head(backlog)
         f == Min(Fds \ OpenFds)
     IN /\ fd' = [fd EXCEPT ![c] = f]
        /\ users' = [users EXCEPT ![f] = [NewUser(FileOf[c].ip) EXCEPT !.server_key = ServerKeyOf[c]]]
  /\ backlog' = Tail(backlog)
  /\ UNCHANGED <<clientVars, toServer, toClient, disk, completed>>

Readable(f) == toServer[ClientAt(f)] # << >>
Incoming(f) == Head(toServer[ClientAt(f)])
Consume(c) == toServer' = [toServer EXCEPT ![c] = Tail(@)]
Close(c) == fd' = [fd EXCEPT ![c] = Closed]

ExpectsText(u) == u.key_flag /\ u.file_name_flag /\ u.file_size_flag /\ ~u.EOC_flag

(* The entry after a cipher block.                                         *)
CBC_decrypt(u, bin_data) ==
  LET plain == XOR_binary(feistel(bin_data, u.rrk), u.iv)
      kept  == IF u.isTxt THEN removeTrailingZeros(plain) ELSE plain
  IN [u EXCEPT !.hex_data = @ \o binToHex(kept), !.iv = bin_data]

ServeBlock(f) ==
  LET c == ClientAt(f) IN
  /\ Readable(f) /\ ExpectsText(users[f]) /\ Incoming(f).tag # "EOT"
  /\ users' = [users EXCEPT ![f] = CBC_decrypt(@, Incoming(f).value)]
  /\ Consume(c) /\ Answer(c, Message("ACK", 0))
  /\ UNCHANGED <<clientVars, backlog, fd, disk, completed>>

appendToFile(name, hex) == disk' = [disk EXCEPT ![name] = @ \o hexToASCII(hex)]

(* Fault: the thread leaves the descriptor open.                           *)
create_decrypt_fileStaysOpen(f) ==
  LET c == ClientAt(f) IN
  /\ Readable(f) /\ ExpectsText(users[f]) /\ Incoming(f).tag = "EOT"
  /\ users' = [users EXCEPT ![f].EOC_flag = TRUE]
  /\ appendToFile(users[f].file_name, users[f].hex_data)
  /\ Consume(c)
  /\ completed' = Append(completed, c)
  /\ UNCHANGED <<clientVars, toClient, backlog, fd>>

(* The thread that writes the file and closes the descriptor is joined at  *)
(* once.                                                                   *)
create_decrypt_file(f) ==
  LET c == ClientAt(f) IN
  /\ Readable(f) /\ ExpectsText(users[f]) /\ Incoming(f).tag = "EOT"
  /\ users' = [users EXCEPT ![f].EOC_flag = TRUE]
  /\ appendToFile(users[f].file_name, users[f].hex_data)
  /\ Consume(c) /\ Close(c)
  /\ completed' = Append(completed, c)
  /\ UNCHANGED <<clientVars, toClient, backlog>>

(* Whatever the first message is, the key is taken for exchanged.          *)
ServeKey(f) ==
  LET c == ClientAt(f)
      key == IF Incoming(f).tag = "[public_key]"
             THEN SharedKey(users[f].server_key, Incoming(f).value) ELSE << >>
  IN /\ Readable(f) /\ ~users[f].key_flag
     /\ users' = [users EXCEPT ![f].key_flag = TRUE,
                    ![f].rrk = generateReverseRoundKeys(generateRoundKeys(key))]
     /\ Consume(c) /\ Answer(c, Message("[public_key]", users[f].server_key))
     /\ UNCHANGED <<clientVars, backlog, fd, disk, completed>>

(* What is known of the file, until both flags are set.  The name carries  *)
(* the address of the client.                                              *)
ServeMarker(f) ==
  LET c == ClientAt(f)
      u == users[f]
      in == Incoming(f)
  IN /\ Readable(f) /\ u.key_flag /\ ~(u.file_name_flag /\ u.file_size_flag)
     /\ in.tag \in {"[iv]", "[file_name]", "[file_size]"}
     /\ users' = [users EXCEPT ![f] =
          CASE in.tag = "[iv]" -> [u EXCEPT !.iv = in.value]
            [] in.tag = "[file_name]" ->
                 [u EXCEPT !.file_name = <<u.ip, in.value>>, !.isTxt = isTxt(c), !.file_name_flag = TRUE]
            [] in.tag = "[file_size]" -> [u EXCEPT !.file_size_flag = TRUE]]
     /\ Consume(c) /\ Answer(c, Message("check", 0))
     /\ UNCHANGED <<clientVars, backlog, fd, disk, completed>>

(* A read of nothing, or of an error: the connection is closed and what    *)
(* the entry holds is left for the next client of the descriptor.          *)
ServeClosed(f) ==
  LET c == ClientAt(f) IN
  /\ ~Readable(f) /\ pc[c] = "killed"
  /\ Close(c)
  /\ UNCHANGED <<clientVars, toServer, toClient, backlog, users, disk, completed>>

serve_client(f) ==
  \/ ServeBlock(f) \/ create_decrypt_file(f) \/ ServeKey(f) \/ ServeMarker(f) \/ ServeClosed(f)

-----------------------------------------------------------------------------

Init ==
  /\ pc = [c \in Clients |-> "start"]
  /\ rk = [c \in Clients |-> << >>] /\ chain = [c \in Clients |-> << >>]
  /\ sent = [c \in Clients |-> 0] /\ data_ = [c \in Clients |-> << >>]
  /\ encrypted = [c \in Clients |-> << >>]
  /\ toServer = [c \in Clients |-> << >>] /\ toClient = [c \in Clients |-> << >>]
  /\ backlog = << >> /\ fd = [c \in Clients |-> NotAccepted]
  /\ users = [f \in Fds |-> NewUser("")]
  /\ disk = [n \in Names |-> << >>] /\ completed = << >>

ClientStep(c) ==
  \/ Connect(c) \/ TakeKey(c) \/ SendName(c) \/ SendSize(c)
  \/ CBC_encrypt(c) \/ EndText(c) \/ Leave(c)

Server == register_new_client \/ \E f \in OpenFds : serve_client(f)

(* The server waits for events for ever; a behaviour stops when all the    *)
(* clients have left and their descriptors are closed.                     *)
Idle == (\A c \in Clients : Ended(c) /\ fd[c] = Closed) /\ UNCHANGED vars

Next == Server \/ (\E c \in Clients : ClientStep(c) \/ Kill(c)) \/ Idle

Spec == Init /\ [][Next]_vars

(* The server does not rest while a descriptor has something to read, and  *)
(* the clients do not all stop.  Every client has finitely many steps, so  *)
(* no more is needed.  This is WF_vars(Server) and the weak fairness of    *)
(* the clients' steps with their guards written out: TLC would otherwise   *)
(* compute the ciphers of a step to know whether it is enabled.            *)
ServerCanStep == backlog # << >> \/ \E f \in OpenFds : Readable(f) \/ pc[ClientAt(f)] = "killed"
ClientCanStep(c) ==
  \/ Started(c)
  \/ pc[c] \in {"key", "iv", "name", "data"} /\ Answered(c)
  \/ pc[c] = "end" /\ fd[c] = Closed
FairSpec ==
  /\ Spec
  /\ []<>~ServerCanStep \/ []<><<Server>>_vars
  /\ []<>(\A c \in Clients : ~ClientCanStep(c)) \/ []<><<\E c \in Clients : ClientStep(c)>>_vars

-----------------------------------------------------------------------------

TypeOK ==
  /\ pc \in [Clients -> {"start", "key", "iv", "name", "data", "end", "done", "killed"}]
  /\ fd \in [Clients -> Fds \cup {NotAccepted, Closed}]
  /\ \A c \in Clients : sent[c] \in 0 .. Blocks(c) /\ rk[c] \in Seq(Seq(Bit)) /\ data_[c] \in Seq(Digit)
  /\ \A f \in Fds : users[f].hex_data \in Seq(Digit) /\ Len(users[f].hex_data) % 2 = 0
  /\ disk \in [Names -> Seq(Byte)]

(* The two sides agree at every point of the dialogue: no more than one    *)
(* message is on the wire, a descriptor belongs to one client, its entry   *)
(* holds the reverse of the client's round keys, and between two blocks    *)
(* the chaining values of both are equal.                                  *)
InStep ==
  \A c \in Clients :
    /\ Len(toServer[c]) + Len(toClient[c]) <= 1
    /\ pc[c] \in {"iv", "name", "data", "end"} => fd[c] # NotAccepted
    /\ fd[c] \in Fds =>
         LET u == users[fd[c]] IN
         /\ \A d \in Clients \ {c} : fd[d] # fd[c]
         /\ pc[c] \in {"iv", "name", "data", "end"} => u.rrk = Reverse(rk[c])
         /\ pc[c] = "data" /\ toServer[c] = << >> => u.iv = chain[c]
         /\ u.EOC_flag = FALSE

(* An encrypted picture opens with the header of the picture, and the      *)
(* blocks behind those that the header touches can be deciphered with the  *)
(* client's keys.                                                          *)
BlockOf(bytes, i) ==
  hexToBin(strToHex(SubSeq(bytes, (i - 1) * (BlockBits \div 8) + 1, i * (BlockBits \div 8))))
PictureOpens ==
  \A c \in Clients :
    pc[c] = "done" /\ FileOf[c].extension = "bmp" =>
      LET touched == (HeaderBytes + BlockBits \div 8 - 1) \div (BlockBits \div 8)
          file == FileOf[c].content
          n == Min({HeaderBytes, Len(file)})
      IN /\ Len(encrypted[c]) = Blocks(c) * (BlockBits \div 8)
         /\ SubSeq(encrypted[c], 1, n) = SubSeq(file, 1, n)
         /\ \A i \in touched + 2 .. Blocks(c) :
              XOR_binary(feistel(BlockOf(encrypted[c], i), Reverse(rk[c])), BlockOf(encrypted[c], i - 1))
                = BinBlock(c, i)

(* What the server may store of a client's file.  A text is stored whole   *)
(* unless a block of it holds eight zeros in a row before the padding; of  *)
(* another file, the blocks that needed no padding are stored as they      *)
(* are, and the last one is filled up.                                     *)
TextBits(c, i) ==
  LET bits == hexToBin(initializeData(c))
  IN SubSeq(bits, (i - 1) * BlockBits + 1, Min({i * BlockBits, Len(bits)}))
ZeroFree(c) ==
  \A i \in 1 .. Blocks(c) :
    \A j \in 1 .. Len(TextBits(c, i)) : ~EightZerosAt(TextBits(c, i), j)
Acceptable(c, bytes) ==
  LET file == readFile(c)
      whole == (Len(file) \div (BlockBits \div 8)) * (BlockBits \div 8)
  IN IF isTxt(c)
     THEN IF ZeroFree(c) THEN bytes = file ELSE Len(bytes) < Len(file)
     ELSE /\ Len(bytes) = Blocks(c) * (BlockBits \div 8)
          /\ SubSeq(bytes, 1, whole) = SubSeq(file, 1, whole)

(* The server stores files and nothing else: whatever the interleaving,    *)
(* the disk changes only when a whole file is appended, under the name of  *)
(* its client and at most once.                                            *)
Whole == INSTANCE WholeFiles WITH
  Senders <- Clients, NameOf <- [c \in Clients |-> <<FileOf[c].ip, FileOf[c].name>>],
  stored <- disk, finished <- completed
WholeFiles == Whole!Spec

(* Every client comes to its end, a client that wrote the end of its text  *)
(* gets its file stored even when it is killed then, and no descriptor     *)
(* stays open.                                                             *)
AllServed ==
  \A c \in Clients :
    /\ <>(Ended(c) /\ fd[c] = Closed)
    /\ pc[c] = "end" ~> c \in ToSet(completed)

=============================================================================
