------------------------- MODULE FileTransferProofs -------------------------
(***************************************************************************)
(* What the file transfer keeps, whatever the clients, their files and the *)
(* length of the table: the types for every value of the constants, and    *)
(* for orderly ones that the two ends stay in step and that the disk holds *)
(* what was reported.                                                      *)
(***************************************************************************)
EXTENDS FileTransfer, FiniteSetTheorems, SequenceTheorems, TLAPS

Serving == spc \in {"count", "name", "size", "content"}
Served(c) == Serving /\ active_sd = c
Queued(c) == \E k \in 1..Len(backlog) : backlog[k] = c

-----------------------------------------------------------------------------
(* Types, for every value of the constants *)

(* What the types rest on: where a client or the server stands, there is a *)
(* file, a connection or an open file to go on with.                       *)
HasFile(c) ==
  /\ cpc[c] \in {"name", "size", "content", "confirm"} => current[c] > 0
  /\ cpc[c] = "content" => sent[c] < File(c).size
HasNames(c) ==
  \A k \in 1..Len(up[c]) : up[c][k].what = "name" => up[c][k].file \in 1..Len(Files[c])
ServerGrounded ==
  /\ spc = "accept" => backlog # <<>>
  /\ Serving => active_sd \in Clients
  /\ active_sd = None => \A i \in 1..Slots : client_socket[i] = None
  /\ spc = "count" => count = 0
  /\ spc \in {"name", "size", "content"} => count < file_count
  /\ spc = "content" => Stored \in DOMAIN disk
Grounded ==
  /\ \A c \in Clients : HasFile(c) /\ HasNames(c)
  /\ ServerGrounded

Typing == TypeOK /\ Grounded

-----------------------------------------------------------------------------
(* The two ends in step, for orderly constants *)

CountOf(c)   == [what |-> "count", file |-> 0, part |-> Len(Files[c])]
NameOf(i)    == [what |-> "name", file |-> i, part |-> 0]
SizeOf(c, i) == [what |-> "size", file |-> i, part |-> Files[c][i].size]
Chunk(i, p)  == [what |-> "data", file |-> i, part |-> p]

(* The file that the server is at is one of the client's, and its size and *)
(* name are what was announced.                                            *)
Named(c)  == count < Len(Files[c]) /\ file_name = Files[c][count + 1].name
Opened(c) == Named(c) /\ file_size = Files[c][count + 1].size

(* An entry of the table is a client that was accepted, and no client has  *)
(* two.  The one that is served has an entry.                              *)
Table ==
  /\ \A i \in 1..Slots : client_socket[i] # None =>
       cpc[client_socket[i]] # "start" /\ ~Queued(client_socket[i])
  /\ \A i, j \in 1..Slots : client_socket[i] = client_socket[j] /\ client_socket[i] # None => i = j
  /\ \A i, j \in 1..Len(backlog) : backlog[i] = backlog[j] => i = j
  /\ \A i \in 1..Len(backlog) : cpc[backlog[i]] # "start"
  /\ Serving => \E i \in 1..Slots : client_socket[i] = active_sd

(* The server is in the directory of the client it serves, and else where  *)
(* it was started or in the directory of its argument.                     *)
Folder ==
  /\ Serving => cwd = Home(active_sd)
  /\ ~Serving /\ spc # "dead" /\ Directory = <<>> => cwd = <<>>

(* An ended connection was seen only when the client had gone and nothing  *)
(* of it was left to read.                                                 *)
Ended ==
  /\ spc = "count" => ~at_end
  /\ spc = "content" => ~at_end
  /\ Serving /\ at_end => AtEnd
  /\ spc \in {"count", "name", "size"} => downloaded = 0

(* What is on its way to the server is what it is about to read, whether   *)
(* the client that wrote it lives or was killed since.                     *)
Filling(c) ==
  /\ Len(disk[Stored]) = downloaded
  /\ downloaded + Len(up[c]) > 0 => Opened(c) /\ downloaded + Len(up[c]) <= file_size
  /\ \A k \in 1..downloaded : disk[Stored][k] = Chunk(count + 1, k)
  /\ \A k \in 1..Len(up[c]) : up[c][k] = Chunk(count + 1, downloaded + k)
Pipe(c) ==
  IF Served(c)
  THEN /\ spc = "count" => up[c] = <<>> \/ up[c] = <<CountOf(c)>>
       /\ spc = "name" => up[c] = <<>> \/ (count < Len(Files[c]) /\ up[c] = <<NameOf(count + 1)>>)
       /\ spc = "size" => up[c] = <<>> \/ (Named(c) /\ up[c] = <<SizeOf(c, count + 1)>>)
       /\ spc = "content" => Filling(c)
  ELSE up[c] = <<>>

(* Where a client that is served stands, by where the server stands.       *)
AtCount(c) ==
  /\ current[c] = 0
  /\ \/ cpc[c] = "greet" /\ down[c] = <<"greeting">> /\ up[c] = <<>>
     \/ cpc[c] = "count" /\ down[c] = <<>> /\ up[c] = <<CountOf(c)>>
AtName(c) ==
  /\ file_count = Len(Files[c])
  /\ \/ cpc[c] = "count" /\ down[c] = <<"CONFIRM">> /\ up[c] = <<>> /\ current[c] = 0 /\ count = 0
     \/ cpc[c] = "confirm" /\ down[c] = <<"CONFIRM">> /\ up[c] = <<>> /\ current[c] = count
     \/ cpc[c] = "next" /\ down[c] = <<>> /\ up[c] = <<>> /\ current[c] = count
     \/ cpc[c] = "name" /\ down[c] = <<>> /\ up[c] = <<NameOf(count + 1)>> /\ current[c] = count + 1
AtSize(c) ==
  /\ file_count = Len(Files[c]) /\ Named(c) /\ current[c] = count + 1
  /\ \/ cpc[c] = "name" /\ down[c] = <<"CONFIRM">> /\ up[c] = <<>>
     \/ cpc[c] = "size" /\ down[c] = <<>> /\ up[c] = <<SizeOf(c, count + 1)>>
AtContent(c) ==
  /\ file_count = Len(Files[c]) /\ Opened(c) /\ current[c] = count + 1
  /\ \/ cpc[c] = "size" /\ down[c] = <<"CONFIRM">> /\ up[c] = <<>> /\ downloaded = 0
     \/ /\ cpc[c] \in {"content", "confirm"} /\ down[c] = <<>>
        /\ downloaded < file_size /\ sent[c] = downloaded + Len(up[c])
        /\ cpc[c] = "content" <=> sent[c] < file_size
     \/ /\ cpc[c] \in {"next", "closed"} /\ down[c] = <<>> /\ up[c] = <<>>
        /\ file_size = 0 /\ downloaded = 0 /\ current[c] = Len(Files[c])

(* Where a client stands that is not served yet, or not any more.          *)
Waiting(c) ==
  \/ cpc[c] = "start" /\ ~Queued(c) /\ down[c] = <<>> /\ current[c] = 0
  \/ cpc[c] = "greet" /\ Queued(c) /\ down[c] = <<>> /\ current[c] = 0
Finished(c) ==
  /\ current[c] = Len(Files[c]) /\ ~Queued(c)
  /\ \/ cpc[c] = "count" /\ down[c] = <<"CONFIRM">>
     \/ cpc[c] = "confirm" /\ down[c] = <<"CONFIRM">>
     \/ cpc[c] \in {"next", "closed"} /\ down[c] = <<>>

Place(c) ==
  IF Served(c)
  THEN /\ spc = "count" => AtCount(c)
       /\ spc = "name" => AtName(c)
       /\ spc = "size" => AtSize(c)
       /\ spc = "content" => AtContent(c)
  ELSE Waiting(c) \/ Finished(c)

(* The files of a client that the server has done with are on the disk,    *)
(* and those that the client reported are among them.                      *)
Done(c) == IF Served(c) THEN count ELSE current[c]
Kept(c) ==
  /\ confirmed[c] <= Done(c) /\ Done(c) <= Len(Files[c])
  /\ \A i \in 1..Len(Files[c]) : i <= Done(c) /\ Files[c][i].size > 0 => StoredWhole(c, i)

Link(c) == Pipe(c) /\ (cpc[c] # "killed" => Place(c) /\ Kept(c))

InLine == Table /\ Folder /\ Ended /\ \A c \in Clients : Link(c)
Lockstep == Typing /\ StoredIsPrefix /\ (spc # "dead" => InLine)

-----------------------------------------------------------------------------
(* The operators of the model *)

(* A file is a record of the right type and its name is a name. *)
LEMMA FileType ==
  ASSUME NEW c \in Clients, NEW i \in 1..Len(Files[c])
  PROVE  Files[c][i] \in FileRecord /\ Files[c][i].name \in Names
<1>1. Files[c] \in Seq(FileRecord)
  BY FileTransferAssumption
<1>2. Files[c][i] \in FileRecord
  BY <1>1, ElementOfSeq
<1> QED
  BY <1>2 DEF Names

LEMMA FilesLength == \A c \in Clients : Len(Files[c]) \in Nat
BY FileTransferAssumption, LenProperties

(* What a client writes are messages. *)
LEMMA ChunkType ==
  ASSUME NEW c \in Clients, NEW i \in 1..Len(Files[c]), NEW p \in 1..Files[c][i].size
  PROVE  Content(c, i)[p] = Chunk(i, p) /\ Chunk(i, p) \in Message
BY FileType, FilesLength DEF Content, Chunk, Message, What, FileRecord

LEMMA NamePartsType ==
  ASSUME NEW c \in Clients, NEW i \in 1..Len(Files[c])
  PROVE  /\ NameParts(c, i) \in Seq(Message)
         /\ \A k \in 1..Len(NameParts(c, i)) : NameParts(c, i)[k].file = i
         /\ ~Files[c][i].long => NameParts(c, i) = <<NameOf(i)>>
<1> DEFINE whole == [what |-> "name", file |-> i, part |-> 0]
           rest  == [what |-> "rest", file |-> i, part |-> 0]
<1>1. whole \in Message /\ rest \in Message
  BY FilesLength DEF Message, What
<1>2. CASE Files[c][i].long
  <2>1. NameParts(c, i) = <<whole>> \o <<rest>>
    BY <1>2 DEF NameParts
  <2>2. <<whole>> \in Seq(Message) /\ <<rest>> \in Seq(Message)
    BY <1>1
  <2>3. \A k \in 1..1 : <<whole>>[k].file = i /\ <<rest>>[k].file = i
    OBVIOUS
  <2> QED
    BY <1>2, <2>1, <2>2, <2>3, ConcatProperties
<1>3. CASE ~Files[c][i].long
  BY <1>1, <1>3 DEF NameParts, NameOf
<1> QED
  BY <1>2, <1>3

(* A write of messages changes the place of its client, and what is on its *)
(* way from this client only.                                              *)
Wrote(c, ms, pc) ==
  /\ cpc' = [cpc EXCEPT ![c] = pc] \/ cpc' = [cpc EXCEPT ![c] = "killed"]
  /\ up' = up \/ up' = [up EXCEPT ![c] = up[c] \o ms]
  /\ up' \in [Clients -> Seq(Message)]
  /\ broken' \subseteq Clients

LEMMA WriteType ==
  ASSUME Typing, NEW c \in Clients, NEW ms \in Seq(Message), NEW pc, Write(c, ms, pc)
  PROVE  Wrote(c, ms, pc)
<1>1. up[c] \in Seq(Message) /\ up \in [Clients -> Seq(Message)] /\ broken \subseteq Clients
  BY DEF Typing, TypeOK
<1>2. up[c] \o ms \in Seq(Message)
  BY <1>1, ConcatProperties
<1> QED
  BY <1>1, <1>2 DEF Write, Wrote

LEMMA ReadReplyType ==
  ASSUME TypeOK, NEW c \in Clients, ReadReply(c)
  PROVE  down' \in [Clients -> Seq({"greeting", "CONFIRM"})]
<1>1. down[c] # <<>> => Tail(down[c]) \in Seq({"greeting", "CONFIRM"})
  BY HeadTailProperties DEF TypeOK
<1> QED
  BY <1>1 DEF ReadReply, TypeOK

(* No name is written but of a file of its client. *)
LEMMA WriteNames ==
  ASSUME Typing, NEW c \in Clients, NEW ms \in Seq(Message), NEW pc, Write(c, ms, pc),
         \A k \in 1..Len(ms) : ms[k].what = "name" => ms[k].file \in 1..Len(Files[c])
  PROVE  \A d \in Clients : HasNames(d)'
<1>1. CASE up' = up
  BY <1>1 DEF Typing, Grounded, HasNames
<1>2. CASE up' = [up EXCEPT ![c] = up[c] \o ms]
  <2>1. up[c] \in Seq(Message) /\ up \in [Clients -> Seq(Message)]
    BY DEF Typing, TypeOK
  <2>2. /\ Len(up[c] \o ms) = Len(up[c]) + Len(ms)
        /\ \A k \in 1 .. Len(up[c]) + Len(ms) :
             (up[c] \o ms)[k] = IF k <= Len(up[c]) THEN up[c][k] ELSE ms[k - Len(up[c])]
    BY <2>1, ConcatProperties
  <2>3. Len(up[c]) \in Nat /\ Len(ms) \in Nat
    BY <2>1, LenProperties
  <2>4. \A k \in 1..Len(up[c]) : up[c][k].what = "name" => up[c][k].file \in 1..Len(Files[c])
    BY DEF Typing, Grounded, HasNames
  <2>5. ASSUME NEW k \in 1..Len(up[c] \o ms), (up[c] \o ms)[k].what = "name"
        PROVE  (up[c] \o ms)[k].file \in 1..Len(Files[c])
    <3>1. CASE k <= Len(up[c])
      BY <2>2, <2>3, <2>4, <2>5, <3>1
    <3>2. CASE ~(k <= Len(up[c]))
      <4>1. k - Len(up[c]) \in 1..Len(ms)
        BY <2>2, <2>3, <3>2
      <4> QED
        BY <2>2, <2>5, <3>2, <4>1
    <3> QED
      BY <3>1, <3>2
  <2> QED
    BY <1>2, <2>1, <2>5 DEF Typing, Grounded, HasNames
<1> QED
  BY <1>1, <1>2, WriteType DEF Wrote

(* The counts of a client. *)
LEMMA CurrentType ==
  ASSUME Typing
  PROVE  /\ current \in [Clients -> Nat] /\ sent \in [Clients -> Nat]
         /\ \A c \in Clients :
              /\ current[c] \in Nat /\ sent[c] \in Nat /\ Len(Files[c]) \in Nat
              /\ current[c] <= Len(Files[c])
<1>1. /\ current \in [Clients -> Nat] /\ sent \in [Clients -> Nat]
      /\ \A c \in Clients : current[c] <= Len(Files[c])
  BY DEF Typing, TypeOK
<1> QED
  BY <1>1, FilesLength

(* A client that sends a file has one. *)
LEMMA FileOfClient ==
  ASSUME Typing, NEW c \in Clients, cpc[c] \in {"name", "size", "content", "confirm"}
  PROVE  current[c] \in 1..Len(Files[c]) /\ File(c) \in FileRecord
<1>1. current[c] > 0
  BY DEF Typing, Grounded, HasFile
<1>2. current[c] \in 1..Len(Files[c])
  BY <1>1, CurrentType
<1> QED
  BY <1>2, FileType DEF File

(* What a client stands on is its own. *)
LEMMA FileOfStep ==
  ASSUME Typing, NEW c \in Clients, NEW pc, HasFile(c)',
         cpc' = [cpc EXCEPT ![c] = pc],
         \A d \in Clients : d # c => current'[d] = current[d] /\ sent'[d] = sent[d]
  PROVE  \A d \in Clients : HasFile(d)'
BY DEF Typing, TypeOK, Grounded, HasFile, File

(* A step that leaves the server alone leaves what it stands on. *)
LEMMA ServerUnmoved ==
  ASSUME Typing, UNCHANGED serverVars,
         backlog' = backlog \/ \E c \in Clients : backlog' = Append(backlog, c)
  PROVE  ServerGrounded'
<1>1. ASSUME NEW c \in Clients PROVE Append(backlog, c) # <<>>
  <2>1. Len(Append(backlog, c)) = Len(backlog) + 1 /\ Len(backlog) \in Nat
    BY AppendProperties, LenProperties DEF Typing, TypeOK
  <2> QED
    BY <2>1, EmptySeq
<1> QED
  BY <1>1 DEF Typing, Grounded, ServerGrounded, serverVars, locals, Serving, Stored

-----------------------------------------------------------------------------
(* The types are kept *)

LEMMA TypingInit == Init => Typing
<1> SUFFICES ASSUME Init PROVE Typing
  OBVIOUS
<1>1. /\ cpc \in [Clients -> {"start", "greet", "count", "next", "name", "size",
                             "content", "confirm", "closed", "killed"}]
      /\ current \in [Clients -> Nat] /\ confirmed \in [Clients -> Nat]
      /\ sent \in [Clients -> Nat]
      /\ \A c \in Clients : current[c] = 0 /\ confirmed[c] = 0 /\ cpc[c] = "start" /\ up[c] = <<>>
  BY DEF Init
<1>2. TypeOK
  <2>1. up \in [Clients -> Seq(Message)] /\ down \in [Clients -> Seq({"greeting", "CONFIRM"})]
    BY EmptySeq DEF Init
  <2>2. \A c \in Clients : current[c] <= Len(Files[c]) /\ confirmed[c] <= Len(Files[c])
    BY <1>1, FilesLength
  <2>3. backlog \in Seq(Clients) /\ cwd \in Seq(STRING \cup Clients)
    BY EmptySeq DEF Init
  <2>4. \A k \in DOMAIN disk : disk[k] \in Seq(Message)
    BY EmptySeq, LenProperties DEF Init
  <2>5. /\ broken \subseteq Clients /\ readfds \subseteq Clients /\ spc = "select"
        /\ client_socket \in [1..Slots -> Clients \cup {None}] /\ active_sd = None
        /\ file_name = "" /\ at_end \in BOOLEAN
        /\ file_size \in Nat /\ downloaded \in Nat
    BY DEF Init
  <2>6. file_count \in Nat /\ count \in 0..file_count
    <3>1. file_count = 0 /\ count = 0
      BY DEF Init
    <3> QED
      BY <3>1
  <2> QED
    BY <1>1, <2>1, <2>2, <2>3, <2>4, <2>5, <2>6 DEF TypeOK
<1>3. \A c \in Clients : HasFile(c) /\ HasNames(c)
  BY <1>1, EmptySeq DEF HasFile, HasNames
<1>4. ServerGrounded
  BY DEF Init, ServerGrounded, Serving
<1> QED
  BY <1>2, <1>3, <1>4 DEF Typing, Grounded

(* A step of a client. *)
LEMMA ConnectTyping == ASSUME Typing, NEW c \in Clients, Connect(c) PROVE Typing'
<1>1. TypeOK'
  BY AppendProperties DEF Connect, Typing, TypeOK, serverVars, locals
<1>2. \A d \in Clients : HasFile(d)' /\ HasNames(d)'
  BY DEF Connect, Typing, TypeOK, Grounded, HasFile, HasNames, File
<1>3. ServerGrounded'
  BY ServerUnmoved DEF Connect
<1> QED BY <1>1, <1>2, <1>3 DEF Typing, Grounded

LEMMA SendCountTyping == ASSUME Typing, NEW c \in Clients, SendCount(c) PROVE Typing'
<1> DEFINE m == [what |-> "count", file |-> 0, part |-> Len(Files[c])]
<1>1. <<m>> \in Seq(Message)
  BY FilesLength DEF Message, What
<1>2. Write(c, <<m>>, "count")
  BY DEF SendCount
<1>3. Wrote(c, <<m>>, "count")
  BY <1>1, <1>2, WriteType
<1>4. TypeOK'
  BY <1>3, ReadReplyType DEF SendCount, Typing, TypeOK, serverVars, locals, Wrote
<1>5. \A d \in Clients : HasNames(d)'
  <2>1. \A k \in 1..Len(<<m>>) : <<m>>[k].what # "name"
    OBVIOUS
  <2> QED
    BY <1>1, <1>2, <2>1, WriteNames
<1>6. \A d \in Clients : HasFile(d)'
  BY <1>3 DEF SendCount, Typing, TypeOK, Grounded, HasFile, File, Wrote
<1>7. ServerGrounded'
  BY ServerUnmoved DEF SendCount
<1> QED BY <1>4, <1>5, <1>6, <1>7 DEF Typing, Grounded

LEMMA CountConfirmedTyping == ASSUME Typing, NEW c \in Clients, CountConfirmed(c) PROVE Typing'
<1>1. TypeOK'
  BY ReadReplyType DEF CountConfirmed, Typing, TypeOK, serverVars, locals
<1>2. \A d \in Clients : HasFile(d)' /\ HasNames(d)'
  BY DEF CountConfirmed, Typing, TypeOK, Grounded, HasFile, HasNames, File
<1>3. ServerGrounded'
  BY ServerUnmoved DEF CountConfirmed
<1> QED BY <1>1, <1>2, <1>3 DEF Typing, Grounded

LEMMA NextFileTyping == ASSUME Typing, NEW c \in Clients, NextFile(c) PROVE Typing'
<1>1. ServerGrounded'
  BY ServerUnmoved DEF NextFile
<1>2. CASE current[c] < Len(Files[c])
  <2> DEFINE i == current[c] + 1
  <2>1. i \in 1..Len(Files[c])
    BY <1>2, CurrentType
  <2>2. Write(c, NameParts(c, i), "name") /\ current' = [current EXCEPT ![c] = i]
    BY <1>2 DEF NextFile
  <2>3. NameParts(c, i) \in Seq(Message) /\ \A k \in 1..Len(NameParts(c, i)) : NameParts(c, i)[k].file = i
    BY <2>1, NamePartsType
  <2>4. Wrote(c, NameParts(c, i), "name")
    BY <2>2, <2>3, WriteType
  <2> HIDE DEF i
  <2>5. /\ current' \in [Clients -> Nat] /\ current'[c] = i
        /\ \A d \in Clients : d # c => current'[d] = current[d]
    BY <2>1, <2>2, CurrentType
  <2>6. \A d \in Clients : current'[d] <= Len(Files[d])
    <3>1. i <= Len(Files[c])
      BY <2>1
    <3>2. \A d \in Clients : current[d] <= Len(Files[d])
      BY CurrentType
    <3> QED
      BY <2>5, <3>1, <3>2
  <2>7. TypeOK'
    BY <2>4, <2>5, <2>6 DEF NextFile, Typing, TypeOK, serverVars, locals, Wrote
  <2>8. \A d \in Clients : HasNames(d)'
    BY <2>1, <2>2, <2>3, WriteNames
  <2>9. \A d \in Clients : HasFile(d)'
    <3>1. PICK pc \in {"name", "killed"} : cpc' = [cpc EXCEPT ![c] = pc]
      BY <2>4 DEF Wrote
    <3>2. HasFile(c)'
      <4>1. cpc'[c] = pc
        BY <3>1 DEF Typing, TypeOK
      <4> QED
        BY <2>1, <2>5, <4>1 DEF HasFile
    <3>3. UNCHANGED sent
      BY DEF NextFile
    <3> QED
      BY <2>5, <3>1, <3>2, <3>3, FileOfStep
  <2> QED BY <1>1, <2>7, <2>8, <2>9 DEF Typing, Grounded
<1>3. CASE ~(current[c] < Len(Files[c]))
  <2>1. TypeOK'
    BY <1>3 DEF NextFile, Typing, TypeOK, serverVars, locals
  <2>2. \A d \in Clients : HasFile(d)' /\ HasNames(d)'
    BY <1>3 DEF NextFile, Typing, TypeOK, Grounded, HasFile, HasNames, File
  <2> QED BY <1>1, <2>1, <2>2 DEF Typing, Grounded
<1> QED BY <1>2, <1>3

LEMMA SendSizeTyping == ASSUME Typing, NEW c \in Clients, SendSize(c) PROVE Typing'
<1> DEFINE m == [what |-> "size", file |-> current[c], part |-> File(c).size]
<1>1. File(c) \in FileRecord
  BY FileOfClient DEF SendSize
<1>2. <<m>> \in Seq(Message)
  BY <1>1, CurrentType DEF Message, What, FileRecord
<1>3. Write(c, <<m>>, "size")
  BY DEF SendSize
<1>4. Wrote(c, <<m>>, "size")
  BY <1>2, <1>3, WriteType
<1>5. TypeOK'
  BY <1>4, ReadReplyType DEF SendSize, Typing, TypeOK, serverVars, locals, Wrote
<1>6. \A d \in Clients : HasNames(d)'
  <2>1. \A k \in 1..Len(<<m>>) : <<m>>[k].what # "name"
    OBVIOUS
  <2> QED
    BY <1>2, <1>3, <2>1, WriteNames
<1>7. \A d \in Clients : HasFile(d)'
  BY <1>4 DEF SendSize, Typing, TypeOK, Grounded, HasFile, File, Wrote
<1>8. ServerGrounded'
  BY ServerUnmoved DEF SendSize
<1> QED BY <1>5, <1>6, <1>7, <1>8 DEF Typing, Grounded

LEMMA StartContentTyping == ASSUME Typing, NEW c \in Clients, StartContent(c) PROVE Typing'
<1>1. File(c) \in FileRecord
  BY FileOfClient DEF StartContent
<1>2. TypeOK'
  BY ReadReplyType DEF StartContent, Typing, TypeOK, serverVars, locals
<1>3. \A d \in Clients : HasNames(d)'
  BY DEF StartContent, Typing, Grounded, HasNames
<1>4. \A d \in Clients : HasFile(d)'
  <2>1. PICK pc : cpc' = [cpc EXCEPT ![c] = pc]
    BY DEF StartContent
  <2>2. sent' = [sent EXCEPT ![c] = 0] /\ current' = current /\ current[c] > 0
    BY DEF StartContent, Typing, Grounded, HasFile
  <2>3. cpc' = [cpc EXCEPT ![c] = IF File(c).size = 0 THEN "next" ELSE "content"]
    BY DEF StartContent
  <2>4. File(c)' = File(c) /\ File(c).size \in Nat
    BY <1>1, <2>2 DEF File, FileRecord
  <2>5. HasFile(c)'
    <3>1. cpc'[c] = IF File(c).size = 0 THEN "next" ELSE "content"
      BY <2>3 DEF Typing, TypeOK
    <3>2. sent'[c] = 0
      BY <2>2, CurrentType
    <3> QED
      BY <2>2, <2>4, <3>1, <3>2 DEF HasFile
  <2> QED
    BY <2>1, <2>2, <2>5, CurrentType, FileOfStep
<1>5. ServerGrounded'
  BY ServerUnmoved DEF StartContent
<1> QED BY <1>2, <1>3, <1>4, <1>5 DEF Typing, Grounded

LEMMA SendChunkTyping == ASSUME Typing, NEW c \in Clients, SendChunk(c) PROVE Typing'
<1> DEFINE m == Content(c, current[c])[sent[c] + 1]
           pc == IF sent[c] + 1 = File(c).size THEN "confirm" ELSE "content"
<1>1. /\ current[c] \in 1..Len(Files[c]) /\ File(c) \in FileRecord
      /\ sent[c] \in Nat /\ sent[c] < File(c).size
  BY FileOfClient DEF SendChunk, Typing, TypeOK, Grounded, HasFile
<1>2. m = Chunk(current[c], sent[c] + 1) /\ <<m>> \in Seq(Message)
  <2>1. sent[c] + 1 \in 1..Files[c][current[c]].size
    BY <1>1 DEF File, FileRecord
  <2> QED
    BY <1>1, <2>1, ChunkType
<1>3. Write(c, <<m>>, pc) /\ sent' = [sent EXCEPT ![c] = @ + 1]
  BY DEF SendChunk
<1>4. Wrote(c, <<m>>, pc)
  BY <1>2, <1>3, WriteType
<1>5. TypeOK'
  <2>1. sent' \in [Clients -> Nat]
    BY <1>1, <1>3, CurrentType
  <2>2. pc \in {"confirm", "content"}
    OBVIOUS
  <2> HIDE DEF pc, m
  <2> QED
    BY <1>4, <2>1, <2>2 DEF SendChunk, Typing, TypeOK, serverVars, locals, Wrote
<1>6. \A d \in Clients : HasNames(d)'
  <2>1. m.what # "name"
    BY <1>2 DEF Chunk
  <2>2. \A k \in 1..Len(<<m>>) : <<m>>[k].what # "name"
    BY <2>1
  <2> QED
    BY <1>2, <1>3, <2>2, WriteNames
<1>7. \A d \in Clients : HasFile(d)'
  <2>1. PICK q \in {pc, "killed"} : cpc' = [cpc EXCEPT ![c] = q]
    BY <1>4 DEF Wrote
  <2>2. /\ current' = current /\ current[c] > 0 /\ sent'[c] = sent[c] + 1
        /\ \A d \in Clients : d # c => sent'[d] = sent[d]
    BY <1>1, <1>3, CurrentType DEF SendChunk
  <2>3. File(c)' = File(c) /\ File(c).size \in Nat
    BY <1>1, <2>2 DEF File, FileRecord
  <2>4. cpc'[c] = q
    BY <2>1 DEF Typing, TypeOK
  <2>5. HasFile(c)'
    BY <1>1, <2>2, <2>3, <2>4 DEF HasFile
  <2> QED
    BY <2>1, <2>2, <2>5, FileOfStep
<1>8. ServerGrounded'
  BY ServerUnmoved DEF SendChunk
<1> QED BY <1>5, <1>6, <1>7, <1>8 DEF Typing, Grounded

LEMMA ReceivedTyping == ASSUME Typing, NEW c \in Clients, Received(c) PROVE Typing'
<1>1. TypeOK'
  BY ReadReplyType DEF Received, Typing, TypeOK, serverVars, locals
<1>2. \A d \in Clients : HasFile(d)' /\ HasNames(d)'
  BY DEF Received, Typing, TypeOK, Grounded, HasFile, HasNames, File
<1>3. ServerGrounded'
  BY ServerUnmoved DEF Received
<1> QED BY <1>1, <1>2, <1>3 DEF Typing, Grounded

LEMMA KillClientTyping == ASSUME Typing, NEW c \in Clients, KillClient(c) PROVE Typing'
<1>1. TypeOK'
  BY DEF KillClient, Typing, TypeOK, serverVars, locals
<1>2. \A d \in Clients : HasFile(d)' /\ HasNames(d)'
  BY DEF KillClient, Typing, TypeOK, Grounded, HasFile, HasNames, File
<1>3. ServerGrounded'
  BY ServerUnmoved DEF KillClient
<1> QED BY <1>1, <1>2, <1>3 DEF Typing, Grounded

(* The locals of the server while it serves. *)
LEMMA ServingType ==
  ASSUME Typing, Serving
  PROVE  /\ active_sd \in Clients /\ count \in Nat /\ file_count \in Nat /\ count <= file_count
         /\ file_size \in Nat /\ downloaded \in Nat /\ cwd \in Seq(STRING \cup Clients)
         /\ up \in [Clients -> Seq(Message)] /\ up[active_sd] \in Seq(Message)
         /\ Len(up[active_sd]) \in Nat
         /\ Len(Files[active_sd]) \in Nat
<1>1. /\ active_sd \in Clients /\ file_count \in Nat /\ count \in 0..file_count
      /\ file_size \in Nat /\ downloaded \in Nat /\ cwd \in Seq(STRING \cup Clients)
      /\ up \in [Clients -> Seq(Message)]
  BY DEF Typing, TypeOK, Grounded, ServerGrounded
<1>2. count \in Nat /\ count <= file_count
  BY <1>1
<1>3. up[active_sd] \in Seq(Message)
  BY <1>1
<1> QED
  BY <1>1, <1>2, <1>3, FilesLength, LenProperties

(* What the operators of the server leave. *)
LEMMA ConfirmType ==
  ASSUME Typing, Serving, Confirm
  PROVE  /\ down' \in [Clients -> Seq({"greeting", "CONFIRM"})]
         /\ broken' \subseteq Clients
<1>1. /\ active_sd \in Clients /\ broken \subseteq Clients
      /\ down \in [Clients -> Seq({"greeting", "CONFIRM"})]
  BY DEF Typing, TypeOK, Grounded, ServerGrounded
<1>2. Append(down[active_sd], "CONFIRM") \in Seq({"greeting", "CONFIRM"})
  BY <1>1, AppendProperties
<1> QED
  BY <1>1, <1>2 DEF Confirm

LEMMA DirectoryType == Directory \in Seq(STRING \cup Clients)
BY FileTransferAssumption, SeqMonotonic

LEMMA EnterType ==
  ASSUME Typing, NEW c \in Clients, EnterDirectory(c)
  PROVE  cwd' \in Seq(STRING \cup Clients)
<1>1. /\ cwd \in Seq(STRING \cup Clients) /\ Directory \in Seq(STRING \cup Clients)
      /\ <<c>> \in Seq(STRING \cup Clients)
  <2>1. cwd \in Seq(STRING \cup Clients)
    BY DEF Typing, TypeOK
  <2>2. c \in STRING \cup Clients
    OBVIOUS
  <2>3. \A S : \A x \in S : <<x>> \in Seq(S)
    OBVIOUS
  <2> QED
    BY <2>1, <2>2, <2>3, DirectoryType
<1>2. Directory \o <<c>> \in Seq(STRING \cup Clients)
  BY <1>1, ConcatProperties
<1>3. cwd \o Directory \in Seq(STRING \cup Clients)
  BY <1>1, ConcatProperties
<1>4. (cwd \o Directory) \o <<c>> \in Seq(STRING \cup Clients)
  BY <1>1, <1>3, ConcatProperties
<1> QED
  BY <1>2, <1>4 DEF EnterDirectory

LEMMA LeaveType ==
  ASSUME Typing, LeaveDirectory
  PROVE  cwd' \in Seq(STRING \cup Clients)
<1>1. cwd \in Seq(STRING \cup Clients)
  BY DEF Typing, TypeOK
<1>2. SubSeq(cwd, 1, Len(cwd) - 1) \in Seq(STRING \cup Clients)
  <2>1. Len(cwd) \in Nat
    BY <1>1, LenProperties
  <2>2. \A i \in 1..(Len(cwd) - 1) : cwd[i] \in STRING \cup Clients
    BY <1>1, <2>1, ElementOfSeq
  <2> QED
    BY <2>1, <2>2, SubSeqProperties
<1> QED
  BY <1>1, <1>2, DirectoryType DEF LeaveDirectory

LEMMA ContinueType ==
  ASSUME Typing, NEW done, NEW total, Continue(done, total)
  PROVE  /\ cwd' \in Seq(STRING \cup Clients)
         /\ (spc' = "name" /\ done < total) \/ spc' = "sweep"
BY LeaveType DEF Continue, Typing, TypeOK

(* What is taken from the pipe leaves messages in it. *)
Taken(n) == up' = [up EXCEPT ![active_sd] = SubSeq(@, n + 1, Len(@))]

LEMMA TakenType ==
  ASSUME Typing, Serving, NEW n \in 1..Len(up[active_sd]), Taken(n)
  PROVE  /\ up' \in [Clients -> Seq(Message)]
         /\ \A c \in Clients : HasNames(c)'
<1> DEFINE s == up[active_sd]
           t == SubSeq(s, n + 1, Len(s))
<1>1. active_sd \in Clients /\ up \in [Clients -> Seq(Message)] /\ s \in Seq(Message)
  BY DEF Typing, TypeOK, Grounded, ServerGrounded
<1>2. Len(s) \in Nat
  BY <1>1, LenProperties
<1>3. \A i \in n + 1..Len(s) : s[i] \in Message
  BY <1>1, <1>2, ElementOfSeq
<1>4. /\ t \in Seq(Message) /\ Len(t) = IF n + 1 <= Len(s) THEN Len(s) - n ELSE 0
      /\ \A i \in 1..Len(s) - n : t[i] = s[n + i]
  BY <1>2, <1>3, SubSeqProperties
<1>5. \A k \in 1..Len(t) : t[k].what = "name" => t[k].file \in 1..Len(Files[active_sd])
  <2>1. \A k \in 1..Len(s) : s[k].what = "name" => s[k].file \in 1..Len(Files[active_sd])
    BY <1>1 DEF Typing, Grounded, HasNames
  <2> QED
    BY <1>2, <1>4, <2>1
<1>6. up' = [up EXCEPT ![active_sd] = t]
  BY DEF Taken
<1> HIDE DEF t
<1> QED
  BY <1>1, <1>4, <1>5, <1>6 DEF Typing, Grounded, HasNames

LEMMA TakeOne ==
  ASSUME Typing, Serving, up[active_sd] # <<>>, up' = [up EXCEPT ![active_sd] = Tail(@)]
  PROVE  /\ Taken(1) /\ 1 \in 1..Len(up[active_sd])
         /\ Head(up[active_sd]) = up[active_sd][1] /\ Head(up[active_sd]) \in Message
<1>1. up[active_sd] \in Seq(Message)
  BY DEF Typing, TypeOK, Grounded, ServerGrounded
<1>2. Len(up[active_sd]) \in Nat \ {0}
  BY <1>1, EmptySeq
<1>3. Tail(up[active_sd]) = SubSeq(up[active_sd], 1 + 1, Len(up[active_sd]))
  BY <1>1, TailIsSubSeq
<1>4. Head(up[active_sd]) = up[active_sd][1] /\ Head(up[active_sd]) \in Message
  BY <1>1, HeadTailProperties
<1>5. Taken(1)
  BY <1>3 DEF Taken
<1>6. 1 \in 1..Len(up[active_sd])
  BY <1>2
<1> QED
  BY <1>4, <1>5, <1>6

(* A step of the server leaves the clients their files. *)
LEMMA ClientsUnmoved ==
  ASSUME Typing, UNCHANGED clientVars
  PROVE  /\ \A c \in Clients : HasFile(c)'
         /\ UNCHANGED up => \A c \in Clients : HasNames(c)'
BY DEF Typing, Grounded, HasFile, HasNames, File, clientVars

(* A step of the server. *)
LEMMA SelectTyping == ASSUME Typing, Select PROVE Typing'
<1>1. TypeOK'
  BY DEF Select, Typing, TypeOK, clientVars, network, locals, Readable
<1>2. ServerGrounded'
  BY DEF Select, Typing, Grounded, ServerGrounded, Serving, network, locals
<1> QED BY <1>1, <1>2, ClientsUnmoved DEF Select, network, Typing, Grounded

LEMMA AcceptTyping == ASSUME Typing, Accept PROVE Typing'
<1> DEFINE c == Head(backlog)
           free == { i \in 1..Slots : client_socket[i] = None }
<1>1. backlog # <<>> /\ backlog \in Seq(Clients)
  BY DEF Accept, Typing, TypeOK, Grounded, ServerGrounded
<1>2. c \in Clients /\ Tail(backlog) \in Seq(Clients)
  BY <1>1, HeadTailProperties
<1>3. down' \in [Clients -> Seq({"greeting", "CONFIRM"})] /\ broken' \subseteq Clients
  <2>1. down \in [Clients -> Seq({"greeting", "CONFIRM"})] /\ broken \subseteq Clients
    BY DEF Typing, TypeOK
  <2>2. Append(down[c], "greeting") \in Seq({"greeting", "CONFIRM"})
    BY <1>2, <2>1, AppendProperties
  <2> QED
    BY <1>2, <2>1, <2>2 DEF Accept
<1>4. cwd' \in Seq(STRING \cup Clients)
  BY <1>2, EnterType DEF Accept
<1>5. /\ active_sd' \in Clients
      /\ client_socket' \in [1..Slots -> Clients \cup {None}]
  <2>1. CASE free = {}
    <3>1. UNCHANGED <<client_socket, active_sd>>
      BY <2>1 DEF Accept
    <3>2. 1 \in 1..Slots
      BY FileTransferAssumption
    <3>3. active_sd # None
      BY <2>1, <3>2 DEF Typing, Grounded, ServerGrounded
    <3> QED
      BY <3>1, <3>3 DEF Typing, TypeOK
  <2>2. CASE free # {}
    <3>1. PICK i \in free : client_socket' = [client_socket EXCEPT ![i] = c] /\ active_sd' = c
      BY <2>2 DEF Accept
    <3> QED
      BY <1>2, <3>1 DEF Typing, TypeOK
  <2> QED
    BY <2>1, <2>2
<1>6. TypeOK'
  <2>1. /\ file_count' \in Nat /\ count' \in 0..file_count' /\ downloaded' \in Nat
        /\ at_end' \in BOOLEAN /\ spc' = "count" /\ backlog' \in Seq(Clients)
    <3>1. /\ file_count' = 0 /\ count' = 0 /\ downloaded' = 0 /\ at_end' = FALSE
          /\ spc' = "count" /\ backlog' = Tail(backlog)
      BY DEF Accept
    <3>2. file_count' \in Nat /\ count' \in 0..file_count' /\ downloaded' \in Nat
      BY <3>1
    <3>3. at_end' \in BOOLEAN
      BY <3>1, Zenon
    <3> QED
      BY <1>2, <3>1, <3>2, <3>3
  <2>2. UNCHANGED <<clientVars, up, readfds, file_name, file_size, disk>>
    BY DEF Accept
  <2> QED
    BY <1>3, <1>4, <1>5, <2>1, <2>2 DEF Typing, TypeOK, clientVars
<1>7. ServerGrounded'
  BY <1>5, FileTransferAssumption DEF Accept, ServerGrounded, Serving
<1> QED BY <1>6, <1>7, ClientsUnmoved DEF Accept, Typing, Grounded

LEMMA ReadCountTyping == ASSUME Typing, ReadCount PROVE Typing'
<1>1. Serving /\ count = 0 /\ active_sd \in Clients
  BY DEF ReadCount, Typing, Grounded, ServerGrounded, Serving
<1>2. down' \in [Clients -> Seq({"greeting", "CONFIRM"})] /\ broken' \subseteq Clients
  BY <1>1, ConfirmType DEF ReadCount
<1>3. cwd' \in Seq(STRING \cup Clients) /\ ((spc' = "name" /\ 0 < file_count') \/ spc' = "sweep")
  BY ContinueType DEF ReadCount
<1>4. file_count' \in Nat /\ up' \in [Clients -> Seq(Message)] /\ \A c \in Clients : HasNames(c)'
  <2>1. CASE AtEnd /\ file_count' \in {0} \cup {Len(Files[c]) : c \in Clients} /\ UNCHANGED up
    <3>1. file_count' \in Nat
      BY <2>1, FilesLength
    <3>2. UNCHANGED clientVars
      BY DEF ReadCount
    <3> QED
      BY <1>1, <2>1, <3>1, <3>2, ClientsUnmoved, ServingType
  <2>2. CASE /\ up[active_sd] # <<>> /\ up' = [up EXCEPT ![active_sd] = Tail(@)]
             /\ file_count' = IF Head(up[active_sd]).what = "count" THEN Head(up[active_sd]).part ELSE 0
    <3>1. file_count' \in Nat
      BY <1>1, <2>2, TakeOne DEF Message
    <3> QED
      BY <1>1, <2>2, <3>1, TakeOne, TakenType
  <2> QED
    BY <2>1, <2>2 DEF ReadCount
<1>5. UNCHANGED <<clientVars, backlog, client_socket, active_sd, readfds, count,
                  file_name, file_size, downloaded, at_end, disk>>
  BY DEF ReadCount
<1>6. count' \in 0..file_count'
  BY <1>1, <1>4, <1>5
<1>7. TypeOK'
  BY <1>2, <1>3, <1>4, <1>5, <1>6 DEF Typing, TypeOK, clientVars
<1>8. ServerGrounded'
  BY <1>1, <1>3, <1>5 DEF Typing, Grounded, ServerGrounded, Serving
<1> QED BY <1>4, <1>5, <1>7, <1>8, ClientsUnmoved DEF Typing, Grounded

LEMMA ReadNameTyping == ASSUME Typing, ReadName PROVE Typing'
<1>1. Serving /\ count < file_count /\ active_sd \in Clients
  BY DEF ReadName, Typing, Grounded, ServerGrounded, Serving
<1>2. down' \in [Clients -> Seq({"greeting", "CONFIRM"})] /\ broken' \subseteq Clients
  BY <1>1, ConfirmType DEF ReadName
<1>3. file_name' \in Names \cup {""} /\ up' \in [Clients -> Seq(Message)] /\ \A c \in Clients : HasNames(c)'
  <2>1. CASE AtEnd /\ (IF count = 0 THEN file_name' \in Names ELSE UNCHANGED file_name) /\ UNCHANGED up
    BY <2>1, ClientsUnmoved DEF ReadName, Typing, TypeOK
  <2>2. CASE /\ up[active_sd] # <<>> /\ up' = [up EXCEPT ![active_sd] = Tail(@)]
             /\ file_name' = IF Head(up[active_sd]).what = "name"
                             THEN Files[active_sd][Head(up[active_sd]).file].name ELSE ""
    <3> DEFINE m == Head(up[active_sd])
    <3>1. m = up[active_sd][1] /\ 1 \in 1..Len(up[active_sd])
      BY <1>1, <2>2, TakeOne
    <3>2. m.what = "name" => m.file \in 1..Len(Files[active_sd])
      BY <1>1, <3>1 DEF Typing, Grounded, HasNames
    <3>3. file_name' \in Names \cup {""}
      BY <1>1, <2>2, <3>2, FileType
    <3> QED
      BY <1>1, <2>2, <3>3, TakeOne, TakenType
  <2> QED
    BY <2>1, <2>2 DEF ReadName
<1>4. UNCHANGED <<clientVars, backlog, client_socket, active_sd, readfds, file_count,
                  count, file_size, downloaded, at_end, cwd, disk>> /\ spc' = "size"
  BY DEF ReadName
<1>5. TypeOK'
  BY <1>2, <1>3, <1>4 DEF Typing, TypeOK, clientVars
<1>6. ServerGrounded'
  BY <1>1, <1>4 DEF Typing, Grounded, ServerGrounded, Serving
<1> QED BY <1>3, <1>4, <1>5, <1>6, ClientsUnmoved DEF Typing, Grounded

(* A file of messages stays one. *)
LEMMA StoreType ==
  ASSUME Typing, NEW key, NEW data \in Seq(Message), Store(key, data)
  PROVE  /\ \A k \in DOMAIN disk' : disk'[k] \in Seq(Message)
         /\ DOMAIN disk' = DOMAIN disk \cup {key}
         /\ disk'[key] = data
         /\ \A k \in DOMAIN disk : k # key => disk'[k] = disk[k]
BY DEF Store, Typing, TypeOK

LEMMA ReadSizeTyping == ASSUME Typing, ReadSize PROVE Typing'
<1>1. /\ Serving /\ active_sd \in Clients /\ count \in Nat /\ file_count \in Nat
      /\ count < file_count /\ cwd \in Seq(STRING \cup Clients)
  <2>1. spc = "size"
    BY DEF ReadSize
  <2>2. Serving /\ count < file_count
    BY <2>1 DEF Typing, Grounded, ServerGrounded, Serving
  <2> QED
    BY <2>2, ServingType
<1>2. down' \in [Clients -> Seq({"greeting", "CONFIRM"})] /\ broken' \subseteq Clients
  BY <1>1, ConfirmType DEF ReadSize
<1>3. file_size' \in Nat /\ up' \in [Clients -> Seq(Message)] /\ \A c \in Clients : HasNames(c)'
  <2>1. CASE AtEnd /\ file_size' \in {file_size} \cup {0} /\ UNCHANGED up
    <3>1. UNCHANGED clientVars
      BY DEF ReadSize
    <3> QED
      BY <1>1, <2>1, <3>1, ClientsUnmoved, ServingType
  <2>2. ASSUME NEW n \in 1..Len(up[active_sd]),
               file_size' = IF Head(up[active_sd]).what = "size" THEN Head(up[active_sd]).part ELSE 0,
               up' = [up EXCEPT ![active_sd] = SubSeq(@, n + 1, Len(@))]
        PROVE  file_size' \in Nat /\ up' \in [Clients -> Seq(Message)] /\ \A c \in Clients : HasNames(c)'
    <3>1. up[active_sd] \in Seq(Message) /\ up[active_sd] # <<>>
      BY <1>1, <2>2, EmptySeq, ServingType
    <3>2. Head(up[active_sd]) \in Message
      BY <3>1, HeadTailProperties
    <3>3. file_size' \in Nat
      BY <2>2, <3>2 DEF Message
    <3> QED
      BY <1>1, <2>2, <3>3, TakenType DEF Taken
  <2> QED
    BY <2>1, <2>2 DEF ReadSize
<1>4. \A k \in DOMAIN disk' : disk'[k] \in Seq(Message)
  BY StoreType, EmptySeq DEF ReadSize
<1>5. /\ cwd' \in Seq(STRING \cup Clients) /\ count' \in 0..file_count
      /\ \/ spc' = "sweep"
         \/ spc' = "name" /\ count' < file_count
         \/ spc' = "content" /\ UNCHANGED <<count, cwd>>
  <2>1. CASE at_end
    BY <1>1, <2>1, ContinueType DEF ReadSize
  <2>2. CASE ~at_end
    BY <1>1, <2>2 DEF ReadSize
  <2> QED
    BY <2>1, <2>2
<1>6. UNCHANGED <<clientVars, backlog, client_socket, active_sd, readfds, file_count,
                 file_name, downloaded, at_end>>
  BY DEF ReadSize
<1>7. TypeOK'
  BY <1>1, <1>2, <1>3, <1>4, <1>5, <1>6 DEF Typing, TypeOK, clientVars
<1>8. spc' = "content" => Stored' \in DOMAIN disk'
  BY <1>5, <1>6 DEF ReadSize, Store, Stored
<1>9. ServerGrounded'
  BY <1>1, <1>5, <1>6, <1>8 DEF Typing, Grounded, ServerGrounded, Serving
<1> QED BY <1>3, <1>6, <1>7, <1>9, ClientsUnmoved DEF Typing, Grounded

LEMMA ReadContentTyping == ASSUME Typing, ReadContent PROVE Typing'
<1>1. spc = "content"
  BY DEF ReadContent
<1>2. Serving /\ count < file_count /\ Stored \in DOMAIN disk
  BY <1>1 DEF Typing, Grounded, ServerGrounded, Serving
<1>3. /\ active_sd \in Clients /\ count \in Nat /\ file_count \in Nat /\ downloaded \in Nat
      /\ up[active_sd] \in Seq(Message) /\ Len(up[active_sd]) \in Nat
      /\ cwd \in Seq(STRING \cup Clients)
  BY <1>2, ServingType
<1>4. PICK n \in 1..Len(up[active_sd]) :
        /\ Store(Stored, disk[Stored] \o SubSeq(up[active_sd], 1, n))
        /\ up' = [up EXCEPT ![active_sd] = SubSeq(@, n + 1, Len(@))]
        /\ IF downloaded + n = file_size
           THEN Confirm /\ CloseFile
           ELSE /\ downloaded' = downloaded + n
                /\ UNCHANGED <<spc, count, cwd, down, broken>>
  BY DEF ReadContent
<1>5. UNCHANGED <<clientVars, backlog, client_socket, active_sd, readfds, file_count,
                 file_name, file_size, at_end>>
  BY DEF ReadContent
<1>6. down' \in [Clients -> Seq({"greeting", "CONFIRM"})] /\ broken' \subseteq Clients
  BY <1>2, <1>4, ConfirmType DEF Typing, TypeOK
<1>7. up' \in [Clients -> Seq(Message)] /\ \A c \in Clients : HasNames(c)'
  BY <1>2, <1>4, TakenType DEF Taken
<1>8. disk[Stored] \o SubSeq(up[active_sd], 1, n) \in Seq(Message)
  <2>1. \A i \in 1..n : up[active_sd][i] \in Message
    BY <1>3, ElementOfSeq
  <2>2. SubSeq(up[active_sd], 1, n) \in Seq(Message)
    BY <2>1, SubSeqProperties
  <2>3. disk[Stored] \in Seq(Message)
    BY <1>2 DEF Typing, TypeOK
  <2> QED
    BY <2>2, <2>3, ConcatProperties
<1>9. (\A k \in DOMAIN disk' : disk'[k] \in Seq(Message)) /\ DOMAIN disk' = DOMAIN disk \cup {Stored}
  BY <1>4, <1>8, StoreType
<1>10. /\ cwd' \in Seq(STRING \cup Clients) /\ count' \in 0..file_count /\ downloaded' \in Nat
       /\ \/ spc' = "sweep"
          \/ spc' = "name" /\ count' < file_count
          \/ spc' = "content" /\ UNCHANGED <<count, cwd>>
  <2>1. CASE downloaded + n = file_size
    BY <1>2, <1>3, <1>4, <2>1, ContinueType DEF CloseFile
  <2>2. CASE downloaded + n # file_size
    BY <1>1, <1>2, <1>3, <1>4, <2>2
  <2> QED
    BY <2>1, <2>2
<1>11. TypeOK'
  BY <1>5, <1>6, <1>7, <1>9, <1>10 DEF Typing, TypeOK, clientVars
<1>12. ServerGrounded'
  BY <1>2, <1>5, <1>9, <1>10 DEF Typing, Grounded, ServerGrounded, Serving, Stored
<1> QED BY <1>5, <1>7, <1>11, <1>12, ClientsUnmoved DEF Typing, Grounded

LEMMA ContentEndsTyping == ASSUME Typing, ContentEnds PROVE Typing'
<1> DEFINE junk == [what |-> "junk", file |-> 0, part |-> 0]
<1>1. spc = "content"
  BY DEF ContentEnds
<1>2. Serving /\ count < file_count /\ Stored \in DOMAIN disk
  BY <1>1 DEF Typing, Grounded, ServerGrounded, Serving
<1>3. active_sd \in Clients /\ count \in Nat /\ file_count \in Nat
  BY <1>2, ServingType
<1>4. UNCHANGED <<clientVars, up, backlog, client_socket, active_sd, readfds, file_count,
                 file_name, file_size>> /\ at_end' = TRUE /\ CloseFile
  BY DEF ContentEnds
<1>5. down' \in [Clients -> Seq({"greeting", "CONFIRM"})] /\ broken' \subseteq Clients
  BY <1>2, ConfirmType DEF ContentEnds, Typing, TypeOK
<1>6. \A k \in DOMAIN disk' : disk'[k] \in Seq(Message)
  <2>1. disk[Stored] \in Seq(Message) /\ junk \in Message
    BY <1>2 DEF Typing, TypeOK, Message, What
  <2>2. Append(disk[Stored], junk) \in Seq(Message)
    BY <2>1, AppendProperties
  <2>3. CASE UNCHANGED disk
    BY <2>3 DEF Typing, TypeOK
  <2>4. CASE Store(Stored, Append(disk[Stored], junk))
    BY <2>2, <2>4, StoreType
  <2> QED
    BY <2>3, <2>4 DEF ContentEnds
<1>7. /\ cwd' \in Seq(STRING \cup Clients) /\ count' \in 0..file_count /\ downloaded' = 0
      /\ \/ spc' = "sweep"
         \/ spc' = "name" /\ count' < file_count
  BY <1>2, <1>3, <1>4, ContinueType DEF CloseFile
<1>8. TypeOK'
  BY <1>4, <1>5, <1>6, <1>7 DEF Typing, TypeOK, clientVars
<1>9. ServerGrounded'
  BY <1>2, <1>4, <1>7 DEF Typing, Grounded, ServerGrounded, Serving
<1> QED BY <1>4, <1>8, <1>9, ClientsUnmoved DEF Typing, Grounded

LEMMA SweepTyping == ASSUME Typing, Sweep PROVE Typing'
<1>1. client_socket' \in [1..Slots -> Clients \cup {None}]
  BY DEF Sweep, Typing, TypeOK
<1>2. /\ up' \in [Clients -> Seq(Message)]
      /\ \A c \in Clients : up'[c] = up[c] \/ up'[c] = <<>>
  BY EmptySeq DEF Sweep, Typing, TypeOK
<1>3. /\ UNCHANGED <<clientVars, down, backlog, broken, active_sd, readfds, locals, cwd, disk>>
      /\ spc' = "select"
  BY DEF Sweep
<1>4. TypeOK'
  BY <1>1, <1>2, <1>3 DEF Typing, TypeOK, clientVars, locals
<1>5. \A c \in Clients : HasNames(c)'
  BY <1>2, EmptySeq DEF Typing, Grounded, HasNames
<1>6. ServerGrounded'
  <2>1. active_sd' = None => \A i \in 1..Slots : client_socket'[i] = None
    BY <1>3 DEF Sweep, Typing, Grounded, ServerGrounded
  <2> QED
    BY <1>3, <2>1 DEF ServerGrounded, Serving
<1> QED BY <1>3, <1>4, <1>5, <1>6, ClientsUnmoved DEF Typing, Grounded

LEMMA EndTyping ==
  ASSUME Typing, ServerDies \/ KillServer
  PROVE  Typing'
<1>1. /\ UNCHANGED <<clientVars, network, client_socket, active_sd, readfds, locals, cwd, disk>>
      /\ spc' = "dead"
  BY DEF ServerDies, KillServer
<1>2. TypeOK'
  BY <1>1 DEF Typing, TypeOK, clientVars, network, locals
<1>3. ServerGrounded'
  BY <1>1 DEF Typing, Grounded, ServerGrounded, Serving
<1> QED BY <1>1, <1>2, <1>3, ClientsUnmoved DEF Typing, Grounded, network

LEMMA TypingNext == Typing /\ [Next]_vars => Typing'
<1> SUFFICES ASSUME Typing, [Next]_vars PROVE Typing'
  OBVIOUS
<1>1. ASSUME NEW c \in Clients, ClientStep(c) PROVE Typing'
  BY <1>1, ConnectTyping, SendCountTyping, CountConfirmedTyping, NextFileTyping,
     SendSizeTyping, StartContentTyping, SendChunkTyping, ReceivedTyping DEF ClientStep
<1>2. CASE ServerStep
  BY <1>2, SelectTyping, AcceptTyping, ReadCountTyping, ReadNameTyping, ReadSizeTyping,
     ReadContentTyping, ContentEndsTyping, SweepTyping, EndTyping DEF ServerStep
<1>3. ASSUME NEW c \in Clients, KillClient(c) PROVE Typing'
  BY <1>3, KillClientTyping
<1>4. CASE KillServer
  BY <1>4, EndTyping
<1>5. CASE UNCHANGED vars
  <2>1. UNCHANGED <<clientVars, network, serverVars>>
    BY <1>5 DEF vars
  <2>2. TypeOK'
    BY <2>1 DEF Typing, TypeOK, clientVars, network, serverVars, locals
  <2>3. ServerGrounded'
    BY <2>1, ServerUnmoved DEF network
  <2> QED BY <2>1, <2>2, <2>3, ClientsUnmoved DEF Typing, Grounded, network
<1> QED
  BY <1>1, <1>2, <1>3, <1>4, <1>5 DEF Next

LEMMA TypingInvariant == Spec => []Typing
BY TypingInit, TypingNext, PTL DEF Spec

(* Every reachable state is well typed, for every value of the constants:  *)
(* the server never reads a socket, a file or a message that is not there. *)
THEOREM TransferTypes == Spec => []TypeOK
<1>1. Typing => TypeOK
  BY DEF Typing
<1> QED BY TypingInvariant, <1>1, PTL

-----------------------------------------------------------------------------
(* Sequences of one message, and directories *)

LEMMA Singleton ==
  ASSUME NEW x
  PROVE  Head(<<x>>) = x /\ Tail(<<x>>) = <<>> /\ <<x>> # <<>> /\ Len(<<x>>) = 1 /\ <<x>>[1] = x
OBVIOUS

LEMMA EmptyAppend == ASSUME NEW x PROVE Append(<<>>, x) = <<x>>
OBVIOUS

(* Two clients have different directories. *)
LEMMA HomesDiffer ==
  ASSUME NEW c \in Clients, NEW d \in Clients, Home(c) = Home(d)
  PROVE  c = d
<1>1. Directory \in Seq(STRING \cup Clients)
  BY DirectoryType
<1>2. <<c>> \in Seq(STRING \cup Clients) /\ <<d>> \in Seq(STRING \cup Clients)
  <2>1. c \in STRING \cup Clients /\ d \in STRING \cup Clients
    OBVIOUS
  <2>2. \A S : \A x \in S : <<x>> \in Seq(S)
    OBVIOUS
  <2> QED
    BY <2>1, <2>2
<1>3. Len(Directory) \in Nat
  BY <1>1, LenProperties
<1>4. Len(<<c>>) = 1 /\ Len(<<d>>) = 1
  BY Singleton
<1>5. /\ (Directory \o <<c>>)[Len(Directory) + 1] = <<c>>[Len(Directory) + 1 - Len(Directory)]
      /\ (Directory \o <<d>>)[Len(Directory) + 1] = <<d>>[Len(Directory) + 1 - Len(Directory)]
  BY <1>1, <1>2, <1>3, <1>4, ConcatProperties
<1>6. Len(Directory) + 1 - Len(Directory) = 1
  BY <1>3
<1>7. (Directory \o <<c>>)[Len(Directory) + 1] = c /\ (Directory \o <<d>>)[Len(Directory) + 1] = d
  BY <1>5, <1>6, Singleton
<1> QED
  BY <1>7 DEF Home

-----------------------------------------------------------------------------
(* The two ends in step: the steps of the clients *)

LEMMA LockstepInit == Orderly /\ Init => Lockstep
<1> SUFFICES ASSUME Orderly, Init PROVE Lockstep
  OBVIOUS
<1>1. Typing
  BY TypingInit
<1>2. Len(backlog) = 0 /\ DOMAIN disk = {} /\ spc = "select" /\ cwd = <<>>
  <2>1. backlog = <<>> /\ disk = <<>> /\ spc = "select" /\ cwd = <<>>
    BY DEF Init
  <2>2. \A S : <<>> \in Seq(S) /\ Len(<<>>) = 0
    BY EmptySeq
  <2>3. DOMAIN <<>> = {}
    OBVIOUS
  <2> QED
    BY <2>1, <2>2, <2>3
<1>3. StoredIsPrefix
  BY <1>2 DEF StoredIsPrefix
<1>4. ~Serving /\ \A c \in Clients : ~Queued(c) /\ ~Served(c)
  BY <1>2 DEF Serving, Queued, Served
<1>5. Table /\ Folder /\ Ended
  <2>1. client_socket = [i \in 1..Slots |-> None]
    BY DEF Init
  <2>2. Table
    BY <1>2, <1>4, <2>1 DEF Table
  <2> QED
    BY <1>2, <1>4, <2>2 DEF Folder, Ended
<1>6. \A c \in Clients : Link(c)
  <2> SUFFICES ASSUME NEW c \in Clients PROVE Link(c)
    OBVIOUS
  <2>1. /\ cpc[c] = "start" /\ up[c] = <<>> /\ down[c] = <<>> /\ current[c] = 0 /\ confirmed[c] = 0
        /\ Len(Files[c]) \in Nat
    BY FilesLength DEF Init
  <2> QED
    BY <1>4, <2>1 DEF Link, Pipe, Place, Waiting, Kept, Done
<1> QED
  BY <1>1, <1>3, <1>5, <1>6 DEF Lockstep, InLine

(* What is about a client is kept by a step that leaves the client and the *)
(* server alone.                                                           *)
SameFor(c) ==
  /\ cpc'[c] = cpc[c] /\ current'[c] = current[c] /\ sent'[c] = sent[c]
  /\ confirmed'[c] = confirmed[c] /\ up'[c] = up[c] /\ down'[c] = down[c]
  /\ Queued(c)' <=> Queued(c)

LEMMA LinkSame ==
  ASSUME NEW c \in Clients, Link(c), SameFor(c), UNCHANGED serverVars
  PROVE  Link(c)'
<1>1. UNCHANGED <<spc, client_socket, active_sd, readfds, file_count, count, file_name,
                  file_size, downloaded, at_end, cwd, disk>>
  BY DEF serverVars, locals
<1>2. Served(c)' <=> Served(c)
  BY <1>1 DEF Served, Serving
<1>3. Pipe(c)'
  BY <1>1, <1>2 DEF Link, SameFor, Pipe, Filling, Opened, Named, Stored
<1>4. cpc[c] # "killed" => Place(c)'
  BY <1>1, <1>2 DEF Link, SameFor, Place, AtCount, AtName, AtSize, AtContent, Waiting, Finished,
                    Opened, Named
<1>5. cpc[c] # "killed" => Kept(c)'
  BY <1>1, <1>2 DEF Link, SameFor, Kept, Done, StoredWhole
<1> QED
  BY <1>3, <1>4, <1>5 DEF Link, SameFor

(* A step of one client that ends where it is linked to the server again. *)
LEMMA ClientKeeps ==
  ASSUME Lockstep, Typing', spc # "dead", NEW c \in Clients, NEW pc, pc # "start",
         UNCHANGED serverVars, UNCHANGED backlog,
         cpc' = [cpc EXCEPT ![c] = pc], cpc[c] # "start", ~Gone(c),
         \A d \in Clients : d # c =>
           /\ current'[d] = current[d] /\ sent'[d] = sent[d] /\ confirmed'[d] = confirmed[d]
           /\ up'[d] = up[d] /\ down'[d] = down[d],
         Link(c)'
  PROVE  Lockstep'
<1>1. /\ UNCHANGED <<spc, client_socket, active_sd, readfds, file_count, count, file_name,
                     file_size, downloaded, at_end, cwd, disk>>
      /\ Serving' <=> Serving
  BY DEF serverVars, locals, Serving
<1>2. \A d \in Clients : cpc'[d] = IF d = c THEN pc ELSE cpc[d]
  BY DEF Lockstep, Typing, TypeOK
<1>3. \A d : Queued(d)' <=> Queued(d)
  BY DEF Queued
<1>4. Table'
  <2>1. \A i \in 1..Slots : client_socket[i] # None => client_socket[i] \in Clients
    BY DEF Lockstep, Typing, TypeOK
  <2>2. \A i \in 1..Len(backlog) : backlog[i] \in Clients
    BY ElementOfSeq DEF Lockstep, Typing, TypeOK
  <2> QED
    BY <1>1, <1>2, <1>3, <2>1, <2>2 DEF Lockstep, InLine, Table
<1>5. Folder'
  BY <1>1 DEF Lockstep, InLine, Folder
<1>6. Ended'
  <2>1. Serving /\ at_end => active_sd # c /\ active_sd \in Clients
    BY DEF Lockstep, InLine, Ended, AtEnd, Typing, Grounded, ServerGrounded
  <2> QED
    BY <1>1, <1>2, <2>1 DEF Lockstep, InLine, Ended, AtEnd, Gone
<1>7. StoredIsPrefix'
  BY <1>1 DEF Lockstep, StoredIsPrefix
<1>8. ASSUME NEW d \in Clients PROVE Link(d)'
  <2>1. CASE d # c
    BY <1>2, <1>3, <2>1, LinkSame DEF SameFor, Lockstep, InLine
  <2> QED
    BY <2>1
<1> QED
  BY <1>4, <1>5, <1>6, <1>7, <1>8 DEF Lockstep, InLine

(* A step of a client to a server that has died. *)
LEMMA DeadKeeps ==
  ASSUME Lockstep, Typing', spc = "dead", UNCHANGED <<spc, disk>>
  PROVE  Lockstep'
BY DEF Lockstep, StoredIsPrefix

LEMMA ConnectKeeps ==
  ASSUME Lockstep, Typing', NEW c \in Clients, Connect(c)
  PROVE  Lockstep'
<1>1. /\ cpc[c] = "start" /\ cpc' = [cpc EXCEPT ![c] = "greet"] /\ backlog' = Append(backlog, c)
      /\ spc # "dead"
      /\ UNCHANGED <<current, sent, confirmed, up, down, broken, serverVars>>
  BY DEF Connect
<1>2. /\ UNCHANGED <<spc, client_socket, active_sd, readfds, file_count, count, file_name,
                     file_size, downloaded, at_end, cwd, disk>>
      /\ Serving' <=> Serving
  BY <1>1 DEF serverVars, locals, Serving
<1>3. \A d \in Clients : cpc'[d] = IF d = c THEN "greet" ELSE cpc[d]
  BY <1>1 DEF Lockstep, Typing, TypeOK
<1>4. /\ Len(backlog) \in Nat /\ Len(backlog') = Len(backlog) + 1 /\ backlog'[Len(backlog) + 1] = c
      /\ \A k \in 1..Len(backlog) : backlog'[k] = backlog[k] /\ backlog[k] \in Clients
  <2>1. backlog \in Seq(Clients)
    BY DEF Lockstep, Typing, TypeOK
  <2>2. Len(backlog) \in Nat /\ \A k \in 1..Len(backlog) : backlog[k] \in Clients
    BY <2>1, LenProperties, ElementOfSeq
  <2> QED
    BY <1>1, <2>1, <2>2, AppendProperties
<1>5. \A d : Queued(d)' <=> Queued(d) \/ d = c
  BY <1>4 DEF Queued
<1>6. ~Queued(c)
  BY <1>1 DEF Lockstep, InLine, Table, Queued
<1>7. Table'
  <2>1. \A i \in 1..Slots : client_socket[i] # None => client_socket[i] \in Clients
    BY DEF Lockstep, Typing, TypeOK
  <2>2. \A i \in 1..Slots : client_socket[i] # None => client_socket[i] # c
    BY <1>1, <2>1 DEF Lockstep, InLine, Table
  <2>3. \A i \in 1..Slots : client_socket'[i] # None =>
          cpc'[client_socket'[i]] # "start" /\ ~Queued(client_socket[i])'
    BY <1>1, <1>2, <1>3, <1>5, <2>1, <2>2 DEF Lockstep, InLine, Table
  <2>4. \A i, j \in 1..Len(backlog') : backlog'[i] = backlog'[j] => i = j
    <3>1. \A i \in 1..Len(backlog) : backlog[i] # c
      BY <1>6 DEF Queued
    <3>2. \A i, j \in 1..Len(backlog) : backlog[i] = backlog[j] => i = j
      BY <1>1 DEF Lockstep, InLine, Table
    <3> QED
      BY <1>4, <3>1, <3>2
  <2>5. \A i \in 1..Len(backlog') : cpc'[backlog'[i]] # "start"
    <3>1. \A i \in 1..Len(backlog) : cpc[backlog[i]] # "start"
      BY <1>1 DEF Lockstep, InLine, Table
    <3> QED
      BY <1>3, <1>4, <3>1
  <2>6. /\ \A i, j \in 1..Slots : client_socket[i] = client_socket[j] /\ client_socket[i] # None => i = j
        /\ Serving => \E i \in 1..Slots : client_socket[i] = active_sd
    BY <1>1 DEF Lockstep, InLine, Table
  <2> QED
    BY <1>2, <2>3, <2>4, <2>5, <2>6 DEF Table
<1>8. Folder'
  BY <1>1, <1>2 DEF Lockstep, InLine, Folder
<1>9. Ended'
  <2>1. Serving /\ at_end => active_sd # c /\ active_sd \in Clients
    BY <1>1 DEF Lockstep, InLine, Ended, AtEnd, Gone, Typing, Grounded, ServerGrounded
  <2> QED
    BY <1>1, <1>2, <1>3, <2>1 DEF Lockstep, InLine, Ended, AtEnd, Gone
<1>10. StoredIsPrefix'
  BY <1>2 DEF Lockstep, StoredIsPrefix
<1>11. ASSUME NEW d \in Clients PROVE Link(d)'
  <2>1. CASE d # c
    BY <1>1, <1>3, <1>5, <2>1, LinkSame DEF SameFor, Lockstep, InLine
  <2>2. CASE d = c
    <3>1. Pipe(c) /\ Place(c) /\ Kept(c)
      BY <1>1 DEF Lockstep, InLine, Link
    <3>2. ~Served(c)
      BY <1>1, <3>1 DEF Place, Served, Serving, AtCount, AtName, AtSize, AtContent
    <3>3. ~Served(c)'
      BY <1>2, <3>2 DEF Served
    <3>4. down[c] = <<>> /\ current[c] = 0
      BY <1>1, <3>1, <3>2 DEF Place, Waiting, Finished
    <3>5. Place(c)'
      BY <1>1, <1>3, <1>5, <3>3, <3>4 DEF Place, Waiting
    <3>6. Pipe(c)' /\ Kept(c)'
      BY <1>1, <1>2, <3>1, <3>2, <3>3 DEF Pipe, Kept, Done, StoredWhole
    <3> QED
      BY <2>2, <3>5, <3>6 DEF Link
  <2> QED
    BY <2>1, <2>2
<1> QED
  BY <1>1, <1>7, <1>8, <1>9, <1>10, <1>11 DEF Lockstep, InLine

(* What a client finds where it stands. *)
LEMMA Standing ==
  ASSUME Lockstep, spc # "dead", NEW c \in Clients, cpc[c] # "killed"
  PROVE  /\ Pipe(c) /\ Place(c) /\ Kept(c)
         /\ Len(Files[c]) \in Nat /\ current[c] \in Nat /\ current[c] <= Len(Files[c])
BY CurrentType DEF Lockstep, InLine, Link

(* A reply is read, and an only message written, while the server lives. *)
LEMMA ReadLive ==
  ASSUME Typing, spc # "dead", NEW c \in Clients, ReadReply(c)
  PROVE  /\ down[c] # <<>> /\ down'[c] = Tail(down[c])
         /\ \A d \in Clients : d # c => down'[d] = down[d]
BY DEF Typing, TypeOK, ReadReply

LEMMA WriteLive ==
  ASSUME Typing, spc # "dead", NEW c \in Clients, NEW m \in Message, NEW pc, Write(c, <<m>>, pc)
  PROVE  /\ cpc' = [cpc EXCEPT ![c] = pc] /\ cpc'[c] = pc
         /\ up'[c] = Append(up[c], m)
         /\ up[c] = <<>> => up'[c] = <<m>>
         /\ \A d \in Clients : d # c => up'[d] = up[d]
<1>1. /\ up' = [up EXCEPT ![c] = @ \o <<m>>] /\ cpc' = [cpc EXCEPT ![c] = pc]
  BY DEF Write
<1>2. up \in [Clients -> Seq(Message)] /\ up[c] \in Seq(Message) /\ cpc'[c] = pc
  BY <1>1 DEF Typing, TypeOK
<1>3. up[c] \o <<m>> = Append(up[c], m)
  BY <1>2, AppendIsConcat
<1> QED
  BY <1>1, <1>2, <1>3, EmptyAppend

LEMMA SendCountKeeps ==
  ASSUME Lockstep, Typing', NEW c \in Clients, SendCount(c)
  PROVE  Lockstep'
<1>1. CASE spc = "dead"
  BY <1>1, DeadKeeps DEF SendCount, serverVars
<1>2. CASE spc # "dead"
  <2>1. /\ cpc[c] = "greet" /\ ReadReply(c) /\ Write(c, <<CountOf(c)>>, "count")
        /\ UNCHANGED <<current, sent, confirmed, backlog, serverVars>>
    BY DEF SendCount, CountOf
  <2>2. Pipe(c) /\ Place(c) /\ Kept(c)
    BY <1>2, <2>1, Standing
  <2>3. down[c] # <<>> /\ down'[c] = Tail(down[c]) /\ \A d \in Clients : d # c => down'[d] = down[d]
    BY <1>2, <2>1, ReadLive DEF Lockstep
  <2>4. Served(c) /\ spc = "count"
    BY <2>1, <2>2, <2>3 DEF Place, Served, Serving, AtName, AtSize, AtContent, Waiting, Finished
  <2>5. down[c] = <<"greeting">> /\ up[c] = <<>> /\ current[c] = 0
    BY <2>1, <2>2, <2>4 DEF Place, AtCount
  <2>6. CountOf(c) \in Message
    BY FilesLength DEF CountOf, Message, What
  <2>7. /\ cpc' = [cpc EXCEPT ![c] = "count"] /\ cpc'[c] = "count" /\ up'[c] = <<CountOf(c)>>
        /\ \A d \in Clients : d # c => up'[d] = up[d]
    BY <1>2, <2>1, <2>5, <2>6, WriteLive DEF Lockstep
  <2>8. down'[c] = <<>>
    BY <2>3, <2>5, Singleton
  <2>9. UNCHANGED <<spc, active_sd, count, cwd, disk, current, confirmed>> /\ (Served(c)' <=> Served(c))
    BY <2>1 DEF serverVars, locals, Served, Serving
  <2>10. Place(c)'
    BY <2>4, <2>5, <2>7, <2>8, <2>9 DEF Place, AtCount, CountOf
  <2>11. Pipe(c)'
    BY <2>4, <2>7, <2>9 DEF Pipe, CountOf
  <2>12. Kept(c)'
    BY <2>2, <2>9 DEF Kept, Done, StoredWhole
  <2> QED
    BY <1>2, <2>1, <2>3, <2>7, <2>10, <2>11, <2>12, ClientKeeps DEF Link, Gone
<1> QED
  BY <1>1, <1>2

LEMMA CountConfirmedKeeps ==
  ASSUME Lockstep, Typing', NEW c \in Clients, CountConfirmed(c)
  PROVE  Lockstep'
<1>1. CASE spc = "dead"
  BY <1>1, DeadKeeps DEF CountConfirmed, serverVars
<1>2. CASE spc # "dead"
  <2>1. /\ cpc[c] = "count" /\ ReadReply(c) /\ cpc' = [cpc EXCEPT ![c] = "next"]
        /\ UNCHANGED <<current, sent, confirmed, up, backlog, broken, serverVars>>
    BY DEF CountConfirmed
  <2>2. Pipe(c) /\ Place(c) /\ Kept(c)
    BY <1>2, <2>1, Standing
  <2>3. down[c] # <<>> /\ down'[c] = Tail(down[c]) /\ \A d \in Clients : d # c => down'[d] = down[d]
    BY <1>2, <2>1, ReadLive DEF Lockstep
  <2>4. \/ /\ Served(c) /\ spc = "name" /\ AtName(c) /\ up[c] = <<>> /\ current[c] = 0 /\ count = 0
        \/ ~Served(c) /\ Finished(c)
    BY <2>1, <2>2, <2>3 DEF Place, Served, Serving, AtCount, AtName, AtSize, AtContent, Waiting, Finished
  <2>5. down[c] = <<"CONFIRM">>
    BY <2>1, <2>3, <2>4 DEF AtName, Finished
  <2>6. down'[c] = <<>> /\ cpc'[c] = "next"
    <3>1. cpc'[c] = "next"
      BY <2>1 DEF Lockstep, Typing, TypeOK
    <3> QED
      BY <2>3, <2>5, <3>1, Singleton
  <2>7. /\ UNCHANGED <<spc, active_sd, count, file_count, file_name, file_size, downloaded, cwd, disk,
                       current, confirmed, up>>
        /\ (Served(c)' <=> Served(c)) /\ (Queued(c)' <=> Queued(c))
    BY <2>1 DEF serverVars, locals, Served, Serving, Queued
  <2>8. Place(c)'
    BY <2>4, <2>6, <2>7 DEF Place, AtName, Finished
  <2>9. Pipe(c)' /\ Kept(c)'
    BY <2>2, <2>7 DEF Pipe, Filling, Opened, Named, Stored, Kept, Done, StoredWhole
  <2> QED
    BY <1>2, <2>1, <2>3, <2>8, <2>9, ClientKeeps DEF Link, Gone
<1> QED
  BY <1>1, <1>2

LEMMA NextFileKeeps ==
  ASSUME Orderly, Lockstep, Typing', NEW c \in Clients, NextFile(c)
  PROVE  Lockstep'
<1>1. CASE spc = "dead"
  BY <1>1, DeadKeeps DEF NextFile, serverVars
<1>2. CASE spc # "dead"
  <2>1. cpc[c] = "next" /\ UNCHANGED <<sent, confirmed, down, backlog, serverVars>>
    BY DEF NextFile
  <2>2. /\ Pipe(c) /\ Place(c) /\ Kept(c)
        /\ Len(Files[c]) \in Nat /\ current[c] \in Nat /\ current[c] <= Len(Files[c])
    BY <1>2, <2>1, Standing
  <2>3. \/ /\ Served(c) /\ spc = "name" /\ AtName(c) /\ current[c] = count /\ count < Len(Files[c])
        \/ /\ Served(c) /\ spc = "content" /\ AtContent(c) /\ current[c] = Len(Files[c])
        \/ ~Served(c) /\ Finished(c)
    <3>1. spc = "name" => count < file_count
      BY DEF Lockstep, Typing, Grounded, ServerGrounded
    <3> QED
      BY <2>1, <2>2, <3>1 DEF Place, Served, Serving, AtCount, AtName, AtSize, AtContent, Waiting, Finished
  <2>4. down[c] = <<>> /\ up[c] = <<>>
    BY <2>1, <2>2, <2>3 DEF AtName, AtContent, Finished, Pipe
  <2>5. /\ UNCHANGED <<spc, active_sd, count, file_count, file_name, file_size, downloaded, cwd, disk,
                       sent, confirmed, down>>
        /\ (Served(c)' <=> Served(c)) /\ (Queued(c)' <=> Queued(c))
    BY <2>1 DEF serverVars, locals, Served, Serving, Queued
  <2>6. CASE current[c] < Len(Files[c])
    <3>1. Served(c) /\ spc = "name" /\ AtName(c) /\ current[c] = count /\ count < Len(Files[c])
      BY <2>2, <2>3, <2>6 DEF Finished
    <3>2. count + 1 \in 1..Len(Files[c])
      BY <2>2, <3>1
    <3>3. NameParts(c, count + 1) = <<NameOf(count + 1)>> /\ NameOf(count + 1) \in Message
      <4>1. ~Files[c][count + 1].long
        BY <3>2 DEF Orderly
      <4>2. NameOf(count + 1) \in Message
        BY <2>2, <3>1 DEF NameOf, Message, What
      <4> QED
        BY <3>2, <4>1, <4>2, NamePartsType
    <3>4. Write(c, <<NameOf(count + 1)>>, "name") /\ current' = [current EXCEPT ![c] = @ + 1]
      BY <2>6, <3>1, <3>3 DEF NextFile
    <3>5. /\ cpc' = [cpc EXCEPT ![c] = "name"] /\ cpc'[c] = "name" /\ up'[c] = <<NameOf(count + 1)>>
          /\ \A d \in Clients : d # c => up'[d] = up[d]
      BY <1>2, <2>4, <3>3, <3>4, WriteLive DEF Lockstep
    <3>6. current'[c] = count + 1 /\ \A d \in Clients : d # c => current'[d] = current[d]
      BY <3>1, <3>4, CurrentType DEF Lockstep
    <3>7. Place(c)'
      BY <2>4, <2>5, <3>1, <3>5, <3>6 DEF Place, AtName, NameOf
    <3>8. Pipe(c)'
      BY <2>5, <3>1, <3>5 DEF Pipe, NameOf
    <3>9. Kept(c)'
      BY <2>2, <2>5, <3>1 DEF Kept, Done, StoredWhole
    <3> QED
      BY <1>2, <2>1, <3>5, <3>6, <3>7, <3>8, <3>9, ClientKeeps DEF Link, Gone
  <2>7. CASE ~(current[c] < Len(Files[c]))
    <3>1. cpc' = [cpc EXCEPT ![c] = "closed"] /\ UNCHANGED <<up, current, broken>>
      BY <2>7 DEF NextFile
    <3>2. cpc'[c] = "closed"
      BY <3>1 DEF Lockstep, Typing, TypeOK
    <3>3. ~(Served(c) /\ spc = "name")
      BY <2>2, <2>3, <2>7
    <3>4. Place(c)'
      BY <2>1, <2>3, <2>4, <2>5, <3>1, <3>2, <3>3 DEF Place, AtContent, Opened, Named, Finished
    <3>5. Pipe(c)' /\ Kept(c)'
      BY <2>2, <2>5, <3>1 DEF Pipe, Filling, Opened, Named, Stored, Kept, Done, StoredWhole
    <3> QED
      BY <1>2, <2>1, <3>1, <3>4, <3>5, ClientKeeps DEF Link, Gone
  <2> QED
    BY <2>6, <2>7
<1> QED
  BY <1>1, <1>2

LEMMA SendSizeKeeps ==
  ASSUME Lockstep, Typing', NEW c \in Clients, SendSize(c)
  PROVE  Lockstep'
<1>1. CASE spc = "dead"
  BY <1>1, DeadKeeps DEF SendSize, serverVars
<1>2. CASE spc # "dead"
  <2>1. /\ cpc[c] = "name" /\ ReadReply(c)
        /\ Write(c, <<SizeOf(c, current[c])>>, "size")
        /\ UNCHANGED <<current, sent, confirmed, backlog, serverVars>>
    BY DEF SendSize, SizeOf, File
  <2>2. Pipe(c) /\ Place(c) /\ Kept(c)
    BY <1>2, <2>1, Standing
  <2>3. down[c] # <<>> /\ down'[c] = Tail(down[c]) /\ \A d \in Clients : d # c => down'[d] = down[d]
    BY <1>2, <2>1, ReadLive DEF Lockstep
  <2>4. Served(c) /\ spc = "size"
    BY <2>1, <2>2, <2>3 DEF Place, Served, Serving, AtCount, AtName, AtContent, Waiting, Finished
  <2>5. /\ down[c] = <<"CONFIRM">> /\ up[c] = <<>> /\ current[c] = count + 1 /\ Named(c)
        /\ file_count = Len(Files[c])
    BY <2>1, <2>2, <2>4 DEF Place, AtSize
  <2>6. SizeOf(c, current[c]) \in Message
    BY <2>1, FileOfClient, CurrentType DEF SizeOf, Message, What, FileRecord, File, Lockstep
  <2>7. /\ cpc' = [cpc EXCEPT ![c] = "size"] /\ cpc'[c] = "size"
        /\ up'[c] = <<SizeOf(c, count + 1)>>
        /\ \A d \in Clients : d # c => up'[d] = up[d]
    BY <1>2, <2>1, <2>5, <2>6, WriteLive DEF Lockstep
  <2>8. down'[c] = <<>>
    BY <2>3, <2>5, Singleton
  <2>9. /\ UNCHANGED <<spc, active_sd, count, file_count, file_name, cwd, disk, current, confirmed>>
        /\ (Served(c)' <=> Served(c))
    BY <2>1 DEF serverVars, locals, Served, Serving
  <2>10. Place(c)'
    BY <2>4, <2>5, <2>7, <2>8, <2>9 DEF Place, AtSize, SizeOf, Named
  <2>11. Pipe(c)'
    BY <2>4, <2>5, <2>7, <2>9 DEF Pipe, SizeOf, Named
  <2>12. Kept(c)'
    BY <2>2, <2>9 DEF Kept, Done, StoredWhole
  <2> QED
    BY <1>2, <2>1, <2>3, <2>7, <2>10, <2>11, <2>12, ClientKeeps DEF Link, Gone
<1> QED
  BY <1>1, <1>2

LEMMA StartContentKeeps ==
  ASSUME Orderly, Lockstep, Typing', NEW c \in Clients, StartContent(c)
  PROVE  Lockstep'
<1>1. CASE spc = "dead"
  BY <1>1, DeadKeeps DEF StartContent, serverVars
<1>2. CASE spc # "dead"
  <2> DEFINE pc == IF File(c).size = 0 THEN "next" ELSE "content"
  <2>1. /\ cpc[c] = "size" /\ ReadReply(c)
        /\ sent' = [sent EXCEPT ![c] = 0] /\ cpc' = [cpc EXCEPT ![c] = pc]
        /\ UNCHANGED <<current, confirmed, up, backlog, broken, serverVars>>
    BY DEF StartContent
  <2>2. Pipe(c) /\ Place(c) /\ Kept(c) /\ Len(Files[c]) \in Nat
    BY <1>2, <2>1, Standing
  <2>3. down[c] # <<>> /\ down'[c] = Tail(down[c]) /\ \A d \in Clients : d # c => down'[d] = down[d]
    BY <1>2, <2>1, ReadLive DEF Lockstep
  <2>4. Served(c) /\ spc = "content"
    BY <2>1, <2>2, <2>3 DEF Place, Served, Serving, AtCount, AtName, AtSize, Waiting, Finished
  <2>5. /\ down[c] = <<"CONFIRM">> /\ up[c] = <<>> /\ current[c] = count + 1 /\ Opened(c)
        /\ file_count = Len(Files[c]) /\ downloaded = 0
    BY <2>1, <2>2, <2>4 DEF Place, AtContent
  <2>6. File(c).size = file_size /\ File(c).size \in Nat /\ current[c] \in 1..Len(Files[c])
    BY <2>1, <2>5, FileOfClient DEF Opened, File, FileRecord, Lockstep
  <2>7. file_size = 0 => current[c] = Len(Files[c])
    BY <2>2, <2>6 DEF Orderly, File
  <2>8. /\ cpc'[c] = pc /\ sent'[c] = 0
        /\ \A d \in Clients : d # c => sent'[d] = sent[d]
    BY <2>1 DEF Lockstep, Typing, TypeOK
  <2>9. down'[c] = <<>> /\ Len(<<>>) = 0
    BY <2>3, <2>5, Singleton, EmptySeq
  <2>10. /\ UNCHANGED <<spc, active_sd, count, file_count, file_name, file_size, downloaded, cwd, disk,
                        current, confirmed, up>>
         /\ (Served(c)' <=> Served(c))
    BY <2>1 DEF serverVars, locals, Served, Serving
  <2>11. Place(c)'
    <3>1. AtContent(c)'
      BY <2>5, <2>6, <2>7, <2>8, <2>9, <2>10 DEF AtContent, Opened, Named
    <3> QED
      BY <2>4, <2>10, <3>1 DEF Place
  <2>12. Pipe(c)' /\ Kept(c)'
    BY <2>2, <2>10 DEF Pipe, Filling, Opened, Named, Stored, Kept, Done, StoredWhole
  <2>13. pc # "start"
    OBVIOUS
  <2> HIDE DEF pc
  <2> QED
    BY <1>2, <2>1, <2>3, <2>8, <2>11, <2>12, <2>13, ClientKeeps DEF Link, Gone
<1> QED
  BY <1>1, <1>2

LEMMA SendChunkKeeps ==
  ASSUME Lockstep, Typing', NEW c \in Clients, SendChunk(c)
  PROVE  Lockstep'
<1>1. CASE spc = "dead"
  BY <1>1, DeadKeeps DEF SendChunk, serverVars
<1>2. CASE spc # "dead"
  <2> DEFINE pc == IF sent[c] + 1 = File(c).size THEN "confirm" ELSE "content"
             m  == Content(c, current[c])[sent[c] + 1]
  <2>1. /\ cpc[c] = "content" /\ Write(c, <<m>>, pc) /\ sent' = [sent EXCEPT ![c] = @ + 1]
        /\ UNCHANGED <<current, confirmed, down, backlog, serverVars>>
    BY DEF SendChunk
  <2>2. Pipe(c) /\ Place(c) /\ Kept(c) /\ Len(Files[c]) \in Nat
    BY <1>2, <2>1, Standing
  <2>3. Served(c) /\ spc = "content"
    BY <2>1, <2>2 DEF Place, Served, Serving, AtCount, AtName, AtSize, Waiting, Finished
  <2>4. /\ down[c] = <<>> /\ current[c] = count + 1 /\ Opened(c) /\ file_count = Len(Files[c])
        /\ downloaded < file_size /\ sent[c] = downloaded + Len(up[c]) /\ sent[c] < file_size
    BY <2>1, <2>2, <2>3 DEF Place, AtContent
  <2>5. Filling(c)
    BY <2>2, <2>3 DEF Pipe
  <2>6. File(c).size = file_size /\ current[c] \in 1..Len(Files[c])
    BY <2>1, <2>4, FileOfClient DEF Opened, File, Lockstep
  <2>7. /\ up[c] \in Seq(Message) /\ Len(up[c]) \in Nat /\ downloaded \in Nat /\ file_size \in Nat
        /\ sent[c] \in Nat /\ count \in Nat
    BY <2>3, ServingType, CurrentType DEF Lockstep, Served
  <2>8. m = Chunk(count + 1, sent[c] + 1) /\ m \in Message
    <3>1. sent[c] + 1 \in 1..Files[c][current[c]].size
      BY <2>4, <2>6, <2>7 DEF File
    <3> QED
      BY <2>4, <2>6, <3>1, ChunkType
  <2>9. pc # "start"
    OBVIOUS
  <2>10. /\ cpc' = [cpc EXCEPT ![c] = pc] /\ cpc'[c] = pc /\ up'[c] = Append(up[c], m)
         /\ \A d \in Clients : d # c => up'[d] = up[d]
    BY <1>2, <2>1, <2>8, WriteLive DEF Lockstep
  <2>11. sent'[c] = sent[c] + 1 /\ \A d \in Clients : d # c => sent'[d] = sent[d]
    BY <2>1, CurrentType DEF Lockstep
  <2>12. pc = IF sent[c] + 1 = file_size THEN "confirm" ELSE "content"
    BY <2>6
  <2> HIDE DEF pc, m
  <2>13. /\ UNCHANGED <<spc, active_sd, count, file_count, file_name, file_size, downloaded, cwd, disk,
                        current, confirmed, down>>
         /\ (Served(c)' <=> Served(c))
    BY <2>1 DEF serverVars, locals, Served, Serving
  <2>14. /\ Len(up'[c]) = Len(up[c]) + 1 /\ up'[c][Len(up[c]) + 1] = m
         /\ \A k \in 1..Len(up[c]) : up'[c][k] = up[c][k]
    BY <2>7, <2>8, <2>10, AppendProperties
  <2>15. Place(c)'
    <3>1. sent'[c] = downloaded + Len(up'[c]) /\ (cpc'[c] = "content" <=> sent'[c] < file_size)
      <4>1. sent'[c] = downloaded + Len(up'[c])
        BY <2>4, <2>7, <2>11, <2>14
      <4>2. sent[c] + 1 = file_size <=> ~(sent'[c] < file_size)
        BY <2>4, <2>7, <2>11
      <4> QED
        BY <2>10, <2>12, <4>1, <4>2
    <3>2. cpc'[c] \in {"content", "confirm"}
      BY <2>10, <2>12
    <3>3. Opened(c)'
      BY <2>4, <2>13 DEF Opened, Named
    <3>4. AtContent(c)'
      BY <2>4, <2>13, <3>1, <3>2, <3>3 DEF AtContent
    <3> QED
      BY <2>3, <2>13, <3>4 DEF Place
  <2>16. Pipe(c)'
    <3>1. Opened(c)' /\ Stored' = Stored
      BY <2>4, <2>13 DEF Opened, Named, Stored
    <3>2. downloaded + Len(up'[c]) <= file_size
      BY <2>4, <2>7, <2>14
    <3>3. \A k \in 1..Len(up'[c]) : up'[c][k] = Chunk(count + 1, downloaded + k)
      <4>1. \A k \in 1..Len(up[c]) : up[c][k] = Chunk(count + 1, downloaded + k)
        BY <2>5 DEF Filling
      <4>2. up'[c][Len(up[c]) + 1] = Chunk(count + 1, downloaded + (Len(up[c]) + 1))
        <5>1. sent[c] + 1 = downloaded + (Len(up[c]) + 1)
          BY <2>4, <2>7
        <5> QED
          BY <2>8, <2>14, <5>1
      <4>3. \A k \in 1..Len(up'[c]) : k \in 1..Len(up[c]) \/ k = Len(up[c]) + 1
        BY <2>7, <2>14
      <4> QED
        BY <2>14, <4>1, <4>2, <4>3
    <3>4. Filling(c)'
      BY <2>5, <2>13, <3>1, <3>2, <3>3 DEF Filling, Chunk
    <3> QED
      BY <2>3, <2>13, <3>4 DEF Pipe
  <2>17. Kept(c)'
    BY <2>2, <2>13 DEF Kept, Done, StoredWhole
  <2> QED
    BY <1>2, <2>1, <2>9, <2>10, <2>11, <2>15, <2>16, <2>17, ClientKeeps DEF Link, Gone
<1> QED
  BY <1>1, <1>2

LEMMA ReceivedKeeps ==
  ASSUME Lockstep, Typing', NEW c \in Clients, Received(c)
  PROVE  Lockstep'
<1>1. CASE spc = "dead"
  BY <1>1, DeadKeeps DEF Received, serverVars
<1>2. CASE spc # "dead"
  <2>1. /\ cpc[c] = "confirm" /\ ReadReply(c) /\ cpc' = [cpc EXCEPT ![c] = "next"]
        /\ confirmed' = [confirmed EXCEPT ![c] = current[c]]
        /\ UNCHANGED <<current, sent, up, backlog, broken, serverVars>>
    BY DEF Received
  <2>2. /\ Pipe(c) /\ Place(c) /\ Kept(c)
        /\ current[c] \in Nat /\ current[c] <= Len(Files[c])
    BY <1>2, <2>1, Standing
  <2>3. down[c] # <<>> /\ down'[c] = Tail(down[c]) /\ \A d \in Clients : d # c => down'[d] = down[d]
    BY <1>2, <2>1, ReadLive DEF Lockstep
  <2>4. \/ /\ Served(c) /\ spc = "name" /\ AtName(c) /\ up[c] = <<>> /\ current[c] = count
        \/ ~Served(c) /\ Finished(c)
    BY <2>1, <2>2, <2>3 DEF Place, Served, Serving, AtCount, AtName, AtSize, AtContent, Waiting, Finished
  <2>5. down[c] = <<"CONFIRM">>
    BY <2>1, <2>3, <2>4 DEF AtName, Finished
  <2>6. /\ cpc'[c] = "next" /\ confirmed'[c] = current[c]
        /\ \A d \in Clients : d # c => confirmed'[d] = confirmed[d]
    BY <2>1 DEF Lockstep, Typing, TypeOK
  <2>7. down'[c] = <<>>
    BY <2>3, <2>5, Singleton
  <2>8. /\ UNCHANGED <<spc, active_sd, count, file_count, file_name, file_size, downloaded, cwd, disk,
                       current, up>>
        /\ (Served(c)' <=> Served(c)) /\ (Queued(c)' <=> Queued(c))
    BY <2>1 DEF serverVars, locals, Served, Serving, Queued
  <2>9. Place(c)'
    BY <2>4, <2>6, <2>7, <2>8 DEF Place, AtName, Finished
  <2>10. Pipe(c)'
    BY <2>2, <2>8 DEF Pipe, Filling, Opened, Named, Stored
  <2>11. Kept(c)'
    <3>1. Done(c) = current[c] /\ Done(c)' = Done(c)
      BY <2>4, <2>8 DEF Done
    <3> QED
      BY <2>2, <2>6, <2>8, <3>1 DEF Kept, StoredWhole
  <2> QED
    BY <1>2, <2>1, <2>3, <2>6, <2>9, <2>10, <2>11, ClientKeeps DEF Link, Gone
<1> QED
  BY <1>1, <1>2

(* What a client that is killed wrote is still there to be read. *)
LEMMA KillClientKeeps ==
  ASSUME Lockstep, Typing', NEW c \in Clients, KillClient(c)
  PROVE  Lockstep'
<1>1. CASE spc = "dead"
  BY <1>1, DeadKeeps DEF KillClient, serverVars
<1>2. CASE spc # "dead"
  <2>1. /\ cpc[c] # "start" /\ ~Gone(c) /\ cpc' = [cpc EXCEPT ![c] = "killed"]
        /\ UNCHANGED <<current, sent, confirmed, up, down, backlog, serverVars>>
    BY DEF KillClient
  <2>2. cpc'[c] = "killed"
    BY <2>1 DEF Lockstep, Typing, TypeOK
  <2>3. Pipe(c)
    BY <1>2 DEF Lockstep, InLine, Link
  <2>4. /\ UNCHANGED <<spc, active_sd, count, file_count, file_name, file_size, downloaded, cwd, disk, up>>
        /\ (Served(c)' <=> Served(c))
    BY <2>1 DEF serverVars, locals, Served, Serving
  <2>5. Pipe(c)'
    BY <2>3, <2>4 DEF Pipe, Filling, Opened, Named, Stored
  <2> QED
    BY <1>2, <2>1, <2>2, <2>5, ClientKeeps DEF Link
<1> QED
  BY <1>1, <1>2

-----------------------------------------------------------------------------
(* The two ends in step: the steps of the server *)

(* A client that is not served is kept by a step of the server that leaves *)
(* it and its files alone.                                                 *)
LEMMA OthersKeep ==
  ASSUME NEW d \in Clients, Link(d), UNCHANGED clientVars, up'[d] = up[d], down'[d] = down[d],
         Queued(d)' <=> Queued(d), ~Served(d), ~Served(d)',
         \A i \in 1..Len(Files[d]) : StoredWhole(d, i) => StoredWhole(d, i)'
  PROVE  Link(d)'
<1>1. Pipe(d)'
  BY DEF Link, Pipe
<1>2. cpc[d] # "killed" => Place(d)'
  BY DEF Link, Place, Waiting, Finished, clientVars
<1>3. cpc[d] # "killed" => Kept(d)'
  BY DEF Link, Kept, Done, clientVars
<1> QED
  BY <1>1, <1>2, <1>3 DEF Link, clientVars

(* What is stored in the directory of one client leaves the others' files. *)
LEMMA StoredElsewhere ==
  ASSUME Typing, NEW c \in Clients, NEW i \in 1..Len(Files[c]), NEW data \in Seq(Message),
         NEW a \in Clients, cwd = Home(a), Store(Stored, data),
         c = a => Files[c][i].name # file_name,
         StoredWhole(c, i)
  PROVE  StoredWhole(c, i)'
<1> DEFINE key == <<Home(c), Files[c][i].name>>
<1>1. key # Stored
  BY HomesDiffer DEF Stored
<1>2. key \in DOMAIN disk /\ disk[key] = Content(c, i)
  BY DEF StoredWhole
<1> QED
  BY <1>1, <1>2, StoreType DEF StoredWhole

(* A step of the server while it serves, which leaves the client it serves *)
(* linked to it again.                                                     *)
LEMMA ServerKeeps ==
  ASSUME Lockstep, Typing', Serving, spc' # "dead",
         UNCHANGED <<clientVars, backlog, client_socket, active_sd>>,
         \A d \in Clients : d # active_sd =>
           /\ up'[d] = up[d] /\ down'[d] = down[d]
           /\ \A i \in 1..Len(Files[d]) : StoredWhole(d, i) => StoredWhole(d, i)',
         Folder', Ended', StoredIsPrefix',
         NEW a, a = active_sd, Link(a)'
  PROVE  Lockstep'
<1>1. InLine
  BY DEF Lockstep, Serving
<1>2. \A d : Queued(d)' <=> Queued(d)
  BY DEF Queued
<1>3. Table'
  <2>1. UNCHANGED cpc
    BY DEF clientVars
  <2> QED
    BY <1>1, <1>2, <2>1 DEF InLine, Table, Serving
<1>4. ASSUME NEW d \in Clients, d # active_sd PROVE Link(d)'
  <2>1. ~Served(d) /\ ~Served(d)'
    BY <1>4 DEF Served
  <2> QED
    BY <1>1, <1>2, <1>4, <2>1, OthersKeep DEF InLine
<1> QED
  BY <1>3, <1>4 DEF Lockstep, InLine

(* The client that is served has been taken from the queue. *)
LEMMA ServedIsNotQueued ==
  ASSUME Lockstep, Serving
  PROVE  /\ InLine /\ active_sd \in Clients /\ Served(active_sd) /\ ~Queued(active_sd)
         /\ cwd = Home(active_sd) /\ Link(active_sd)
         /\ Len(Files[active_sd]) \in Nat
<1>1. InLine /\ active_sd \in Clients
  BY DEF Lockstep, Serving, Typing, Grounded, ServerGrounded
<1>2. active_sd # None
  BY <1>1, FileTransferAssumption
<1> QED
  BY <1>1, <1>2, FilesLength DEF InLine, Table, Folder, Served

(* Leaving a client's directory is going back to where it was entered. *)
LEMMA ContinueFolder ==
  ASSUME Orderly, Lockstep, Serving, UNCHANGED active_sd,
         NEW done, NEW total, Continue(done, total)
  PROVE  Folder'
<1>1. cwd = Home(active_sd)
  BY ServedIsNotQueued
<1>2. CASE spc' = "name" /\ UNCHANGED cwd
  BY <1>1, <1>2 DEF Folder, Serving
<1>3. CASE spc' = "sweep" /\ LeaveDirectory
  <2>1. Directory = <<>> => cwd' = <<>>
    <3>1. SUFFICES ASSUME Directory = <<>> PROVE cwd' = <<>>
      OBVIOUS
    <3>2. cwd = <<active_sd>>
      <4>1. <<active_sd>> \in Seq({active_sd})
        OBVIOUS
      <4> QED
        BY <1>1, <3>1, <4>1, ConcatEmptySeq DEF Home
    <3>3. Len(cwd) - 1 = 0
      BY <3>2, Singleton
    <3>4. SubSeq(cwd, 1, 0) = <<>>
      BY SubSeqEmpty
    <3> QED
      BY <1>3, <3>1, <3>3, <3>4 DEF LeaveDirectory
  <2> QED
    BY <1>3, <2>1 DEF Folder, Serving
<1> QED
  BY <1>2, <1>3 DEF Continue

(* What is stored of a file is a beginning of it. *)
LEMMA PrefixKept ==
  ASSUME Lockstep, NEW c \in Clients, cwd = Home(c), NEW data \in Seq(Message), Store(Stored, data),
         \/ Genuine(data) = 0
         \/ \E i \in 1..Len(Files[c]) : file_name = Files[c][i].name /\ BeginningOf(c, i, data)
  PROVE  StoredIsPrefix'
<1>1. /\ DOMAIN disk' = DOMAIN disk \cup {Stored} /\ disk'[Stored] = data
      /\ \A k \in DOMAIN disk : k # Stored => disk'[k] = disk[k]
  BY StoreType DEF Lockstep
<1>2. Stored[1] = Home(c) /\ Stored[2] = file_name
  BY DEF Stored
<1> SUFFICES ASSUME NEW key \in DOMAIN disk'
             PROVE  \E d \in Clients :
                      /\ key[1] = Home(d)
                      /\ \/ Genuine(disk'[key]) = 0
                         \/ \E i \in 1..Len(Files[d]) : /\ key[2] = Files[d][i].name
                                                        /\ BeginningOf(d, i, disk'[key])
  BY DEF StoredIsPrefix
<1>3. CASE key = Stored
  BY <1>1, <1>2, <1>3
<1>4. CASE key # Stored
  BY <1>1, <1>4 DEF Lockstep, StoredIsPrefix
<1> QED
  BY <1>3, <1>4

LEMMA SelectKeeps == ASSUME Lockstep, Typing', Select PROVE Lockstep'
<1>1. /\ spc = "select" /\ spc' \in {"accept", "sweep"}
      /\ UNCHANGED <<clientVars, network, client_socket, active_sd, locals, cwd, disk>>
  BY DEF Select
<1>2. /\ InLine /\ ~Serving /\ ~Serving' /\ spc' # "dead"
      /\ UNCHANGED <<cpc, up, down, backlog, client_socket, active_sd, cwd, disk>>
      /\ \A d : (Queued(d)' <=> Queued(d)) /\ ~Served(d) /\ ~Served(d)'
  BY <1>1 DEF Lockstep, Serving, Served, Queued, clientVars, network
<1>3. Table' /\ Folder' /\ Ended'
  BY <1>1, <1>2 DEF InLine, Table, Folder, Ended, Serving
<1>4. StoredIsPrefix'
  BY <1>2 DEF Lockstep, StoredIsPrefix
<1>5. \A d \in Clients : Link(d)'
  BY <1>1, <1>2, OthersKeep DEF InLine, StoredWhole
<1> QED
  BY <1>3, <1>4, <1>5 DEF Lockstep, InLine

(* The table has room for every client. *)
LEMMA RoomForAll ==
  ASSUME Orderly, Lockstep, spc = "accept"
  PROVE  \E i \in 1..Slots : client_socket[i] = None
<1> SUFFICES ASSUME \A i \in 1..Slots : client_socket[i] # None PROVE FALSE
  OBVIOUS
<1> DEFINE c == Head(backlog)
           others == Clients \ {c}
<1>1. backlog # <<>> /\ backlog \in Seq(Clients)
  BY DEF Lockstep, Typing, TypeOK, Grounded, ServerGrounded
<1>2. c \in Clients /\ c = backlog[1] /\ 1 \in 1..Len(backlog)
  BY <1>1, HeadTailProperties, EmptySeq, LenProperties
<1>3. Queued(c)
  BY <1>2 DEF Queued
<1> HIDE DEF c
<1>4. client_socket \in [1..Slots -> others]
  <2>1. client_socket \in [1..Slots -> Clients \cup {None}]
    BY DEF Lockstep, Typing, TypeOK
  <2>2. Table
    BY DEF Lockstep, InLine
  <2>3. \A i \in 1..Slots : client_socket[i] # c
    BY <1>3, <2>2 DEF Table
  <2> QED
    BY <2>1, <2>3
<1>5. /\ IsFiniteSet(others) /\ Cardinality(others) = Cardinality(Clients) - 1
      /\ Cardinality(Clients) \in Nat
  BY <1>2, FS_RemoveElement, FS_CardinalityType DEF Orderly
<1>6. IsFiniteSet(1..Slots) /\ Cardinality(1..Slots) = Slots /\ Slots \in Nat
  <2>1. Slots \in Nat
    BY FileTransferAssumption
  <2> QED
    BY <2>1, FS_Interval
<1>7. Cardinality(others) < Cardinality(1..Slots)
  BY <1>5, <1>6 DEF Orderly
<1>8. \E i, j \in 1..Slots : i # j /\ client_socket[i] = client_socket[j]
  BY <1>4, <1>5, <1>6, <1>7, FS_PigeonHole
<1> QED
  BY <1>8 DEF Lockstep, InLine, Table

LEMMA AcceptKeeps == ASSUME Orderly, Lockstep, Typing', Accept PROVE Lockstep'
<1> DEFINE free == {i \in 1..Slots : client_socket[i] = None}
<1>0. PICK c : c = Head(backlog)
  OBVIOUS
<1>1. /\ spc = "accept" /\ spc' = "count" /\ backlog' = Tail(backlog) /\ EnterDirectory(c)
      /\ down' = IF Gone(c) THEN down ELSE [down EXCEPT ![c] = Append(@, "greeting")]
      /\ file_count' = 0 /\ count' = 0 /\ downloaded' = 0 /\ at_end' = FALSE
      /\ UNCHANGED <<clientVars, up, readfds, file_name, file_size, disk>>
  BY <1>0 DEF Accept
<1>2. backlog # <<>> /\ backlog \in Seq(Clients)
  BY <1>1 DEF Lockstep, Typing, TypeOK, Grounded, ServerGrounded
<1>3. /\ c \in Clients /\ c = backlog[1] /\ Len(backlog) \in Nat \ {0}
      /\ Len(backlog') = Len(backlog) - 1
      /\ \A k \in 1..Len(backlog') : backlog'[k] = backlog[k + 1]
  BY <1>0, <1>1, <1>2, HeadTailProperties, EmptySeq
<1>4. PICK i \in free : client_socket' = [client_socket EXCEPT ![i] = c] /\ active_sd' = c
  <2>1. free # {}
    BY <1>1, RoomForAll
  <2> QED
    BY <1>0, <2>1 DEF Accept
<1>5. InLine /\ ~Serving /\ Serving' /\ c # None
  BY <1>1, <1>3, FileTransferAssumption DEF Lockstep, Serving
<1>6. Queued(c) /\ ~Queued(c)' /\ \A d : d # c => (Queued(d)' <=> Queued(d))
  <2>1. \A j, k \in 1..Len(backlog) : backlog[j] = backlog[k] => j = k
    BY <1>5 DEF InLine, Table
  <2>2. Queued(c)
    BY <1>3 DEF Queued
  <2>3. ~Queued(c)'
    <3>1. \A k \in 1..Len(backlog') : k + 1 \in 1..Len(backlog) /\ k + 1 # 1 /\ 1 \in 1..Len(backlog)
      BY <1>3
    <3> QED
      BY <1>3, <2>1, <3>1 DEF Queued
  <2>4. ASSUME NEW d, d # c PROVE Queued(d)' <=> Queued(d)
    <3>1. Queued(d)' => Queued(d)
      BY <1>3 DEF Queued
    <3>2. ASSUME NEW k \in 1..Len(backlog), backlog[k] = d PROVE Queued(d)'
      <4>1. k # 1
        BY <1>3, <2>4, <3>2
      <4>2. k - 1 \in 1..Len(backlog') /\ backlog'[k - 1] = backlog[k]
        BY <1>3, <4>1
      <4> QED
        BY <3>2, <4>2 DEF Queued
    <3> QED
      BY <3>1, <3>2 DEF Queued
  <2> QED
    BY <2>2, <2>3, <2>4
<1>7. client_socket \in [1..Slots -> Clients \cup {None}] /\ cpc' = cpc
  BY <1>1 DEF Lockstep, Typing, TypeOK, clientVars
<1>8. Table'
  <2>1. \A j \in 1..Slots : client_socket[j] # c
    BY <1>5, <1>6 DEF InLine, Table
  <2>2. cpc[c] # "start"
    BY <1>3, <1>5 DEF InLine, Table
  <2>3. \A j \in 1..Slots : client_socket'[j] # None =>
          cpc'[client_socket'[j]] # "start" /\ ~Queued(client_socket[j])'
    <3>1. \A j \in 1..Slots : client_socket'[j] = IF j = i THEN c ELSE client_socket[j]
      BY <1>4, <1>7
    <3>2. CASE client_socket'[i] = c
      <4>1. ASSUME NEW j \in 1..Slots, client_socket'[j] = c PROVE ~Queued(client_socket[j])'
        BY <1>6, <4>1 DEF Queued
      <4>2. ASSUME NEW j \in 1..Slots, client_socket'[j] # c, client_socket'[j] # None
            PROVE  /\ client_socket'[j] = client_socket[j] /\ cpc[client_socket[j]] # "start"
                   /\ ~Queued(client_socket[j])'
        <5>1. client_socket'[j] = client_socket[j]
          BY <3>1, <4>2
        <5>2. ~Queued(client_socket[j]) /\ cpc[client_socket[j]] # "start"
          BY <1>5, <4>2, <5>1 DEF InLine, Table
        <5>3. Queued(client_socket[j])' <=> \E k \in 1..Len(backlog') : backlog'[k] = client_socket[j]
          BY <5>1 DEF Queued
        <5> QED
          BY <1>6, <4>2, <5>1, <5>2, <5>3 DEF Queued
      <4> QED
        BY <1>7, <2>2, <4>1, <4>2
    <3> QED
      BY <3>1, <3>2
  <2>4. \A j, k \in 1..Slots :
          client_socket'[j] = client_socket'[k] /\ client_socket'[j] # None => j = k
    BY <1>4, <1>5, <1>7, <2>1 DEF InLine, Table
  <2>5. \A j, k \in 1..Len(backlog') : backlog'[j] = backlog'[k] => j = k
    <3>1. \A j, k \in 1..Len(backlog) : backlog[j] = backlog[k] => j = k
      BY <1>5 DEF InLine, Table
    <3>2. \A j \in 1..Len(backlog') : j + 1 \in 1..Len(backlog)
      BY <1>3
    <3> QED
      BY <1>3, <3>1, <3>2
  <2>6. \A j \in 1..Len(backlog') : cpc'[backlog'[j]] # "start"
    BY <1>3, <1>5, <1>7 DEF InLine, Table
  <2>7. \E j \in 1..Slots : client_socket'[j] = active_sd'
    BY <1>4, <1>7
  <2> QED
    BY <2>3, <2>4, <2>5, <2>6, <2>7 DEF Table, Queued
<1>9. Folder'
  <2>1. cwd' = Home(c)
    <3>1. CASE Absolute
      BY <1>1, <3>1 DEF EnterDirectory, Home
    <3>2. CASE ~Absolute
      <4>1. Directory = <<>> /\ cwd = <<>>
        BY <1>1, <1>5, <3>2 DEF Orderly, InLine, Folder
      <4>2. <<>> \o <<>> = <<>>
        <5>1. <<>> \in Seq({})
          BY EmptySeq
        <5> QED
          BY <5>1, ConcatEmptySeq
      <4> QED
        BY <1>1, <3>2, <4>1, <4>2 DEF EnterDirectory, Home
    <3> QED
      BY <3>1, <3>2
  <2> QED
    BY <1>4, <1>5, <2>1 DEF Folder
<1>10. Ended'
  BY <1>1 DEF Ended
<1>11. StoredIsPrefix'
  BY <1>1 DEF Lockstep, StoredIsPrefix
<1>12. ASSUME NEW d \in Clients, d # c PROVE Link(d)'
  <2>1. ~Served(d) /\ ~Served(d)'
    BY <1>4, <1>5, <1>12 DEF Served
  <2>2. down'[d] = down[d]
    BY <1>1, <1>12 DEF Lockstep, Typing, TypeOK
  <2>3. \A j \in 1..Len(Files[d]) : StoredWhole(d, j) => StoredWhole(d, j)'
    BY <1>1 DEF StoredWhole
  <2> QED
    BY <1>1, <1>5, <1>6, <1>12, <2>1, <2>2, <2>3, OthersKeep DEF InLine
<1>13. Link(c)'
  <2>1. Link(c) /\ ~Served(c) /\ Served(c)'
    BY <1>3, <1>4, <1>5 DEF InLine, Served
  <2>2. up'[c] = <<>>
    BY <1>1, <2>1 DEF Link, Pipe
  <2>3. Pipe(c)'
    BY <1>1, <2>1, <2>2 DEF Pipe
  <2>4. ASSUME cpc[c] # "killed" PROVE Place(c)' /\ Kept(c)'
    <3>1. cpc[c] = "greet" /\ down[c] = <<>> /\ current[c] = 0
      BY <1>6, <2>1, <2>4 DEF Link, Place, Waiting, Finished
    <3>2. down'[c] = <<"greeting">>
      <4>1. ~Gone(c)
        BY <3>1 DEF Gone
      <4>2. down'[c] = Append(down[c], "greeting")
        BY <1>1, <1>3, <4>1 DEF Lockstep, Typing, TypeOK
      <4> QED
        BY <3>1, <4>2, EmptyAppend
    <3>3. Place(c)'
      BY <1>1, <1>7, <2>1, <2>2, <3>1, <3>2 DEF Place, AtCount, clientVars
    <3>4. Kept(c)'
      <4>1. Done(c) = 0 /\ Done(c)' = 0 /\ confirmed' = confirmed
        BY <1>1, <2>1, <3>1 DEF Done, clientVars
      <4> QED
        BY <1>1, <2>1, <2>4, <4>1 DEF Link, Kept, StoredWhole
    <3> QED
      BY <3>3, <3>4
  <2> QED
    BY <1>7, <2>3, <2>4 DEF Link
<1> QED
  BY <1>8, <1>9, <1>10, <1>11, <1>12, <1>13 DEF Lockstep, InLine

(* The reply goes to the client that is served and to nobody else. *)
LEMMA ConfirmReaches ==
  ASSUME Typing, Serving, Confirm, NEW a, a = active_sd
  PROVE  /\ \A d \in Clients : d # a => down'[d] = down[d]
         /\ ~Gone(a) => down'[a] = Append(down[a], "CONFIRM")
<1>1. a \in Clients /\ down \in [Clients -> Seq({"greeting", "CONFIRM"})]
  BY DEF Typing, TypeOK, Grounded, ServerGrounded
<1> QED
  BY <1>1 DEF Confirm

(* Where the loop over the files goes on. *)
LEMMA ContinueTo ==
  ASSUME NEW done, NEW total, Continue(done, total), UNCHANGED active_sd, NEW a, a = active_sd
  PROVE  /\ spc' = IF done < total THEN "name" ELSE "sweep"
         /\ Serving' <=> done < total
         /\ Served(a)' <=> done < total
         /\ spc' # "dead"
BY DEF Continue, Serving, Served

LEMMA ReadCountKeeps == ASSUME Orderly, Lockstep, Typing', ReadCount PROVE Lockstep'
<1>0. PICK a : a = active_sd
  OBVIOUS
<1>1. /\ spc = "count" /\ Serving /\ Confirm /\ Continue(0, file_count')
      /\ \/ up[a] # <<>> /\ up' = [up EXCEPT ![a] = Tail(@)]
            /\ file_count' = IF Head(up[a]).what = "count" THEN Head(up[a]).part ELSE 0
         \/ up[a] = <<>> /\ Gone(a) /\ UNCHANGED up
      /\ UNCHANGED <<clientVars, backlog, client_socket, active_sd, readfds, count,
                     file_name, file_size, downloaded, at_end, disk>>
  BY <1>0 DEF ReadCount, Serving, AtEnd
<1>2. /\ InLine /\ a \in Clients /\ Served(a) /\ ~Queued(a) /\ cwd = Home(a) /\ Link(a)
      /\ Len(Files[a]) \in Nat /\ up \in [Clients -> Seq(Message)] /\ count = 0
  <2>1. count = 0
    BY <1>1 DEF Lockstep, Typing, Grounded, ServerGrounded
  <2>2. up \in [Clients -> Seq(Message)]
    BY DEF Lockstep, Typing, TypeOK
  <2> QED
    BY <1>0, <1>1, <2>1, <2>2, ServedIsNotQueued
<1>3. /\ spc' = IF 0 < file_count' THEN "name" ELSE "sweep"
      /\ Serving' <=> 0 < file_count'
      /\ Served(a)' <=> 0 < file_count'
      /\ spc' # "dead"
  BY <1>0, <1>1, ContinueTo
<1>4. /\ \A d \in Clients : d # a => up'[d] = up[d] /\ down'[d] = down[d]
      /\ ~Gone(a) => down'[a] = Append(down[a], "CONFIRM")
  <2>1. \A d \in Clients : d # a => up'[d] = up[d]
    BY <1>1, <1>2
  <2> QED
    BY <1>0, <1>1, <2>1, ConfirmReaches DEF Lockstep
<1>5. Folder'
  BY <1>1, ContinueFolder
<1>6. up[a] = <<>> \/ up[a] = <<CountOf(a)>>
  BY <1>1, <1>2 DEF Link, Pipe
<1>7. up'[a] = <<>>
  <2>1. CASE up[a] = <<>>
    BY <1>1, <2>1
  <2>2. CASE up[a] # <<>>
    <3>1. up'[a] = Tail(up[a])
      BY <1>1, <1>2, <2>2
    <3> QED
      BY <1>6, <2>2, <3>1, Singleton
  <2> QED
    BY <2>1, <2>2
<1>8. Ended'
  BY <1>1, <1>2, <1>3 DEF InLine, Ended, Serving
<1>9. StoredIsPrefix'
  BY <1>1 DEF Lockstep, StoredIsPrefix
<1>10. Pipe(a)'
  BY <1>3, <1>7 DEF Pipe
<1>11. ASSUME cpc[a] # "killed" PROVE Place(a)' /\ Kept(a)'
  <2>1. AtCount(a) /\ Kept(a)
    BY <1>1, <1>2, <1>11 DEF Link, Place
  <2>2. up[a] # <<>>
    BY <1>1, <2>1 DEF AtCount, Gone
  <2>3. /\ cpc[a] = "count" /\ down[a] = <<>> /\ up[a] = <<CountOf(a)>> /\ current[a] = 0
    BY <2>1, <2>2 DEF AtCount
  <2>4. file_count' = Len(Files[a])
    <3>1. Head(up[a]) = CountOf(a)
      BY <2>3, Singleton
    <3> QED
      BY <1>1, <2>2, <3>1 DEF CountOf
  <2>5. down'[a] = <<"CONFIRM">>
    BY <1>4, <2>3, EmptyAppend DEF Gone
  <2>6. cpc' = cpc /\ current' = current /\ confirmed' = confirmed /\ (Queued(a)' <=> Queued(a))
    BY <1>1 DEF clientVars, Queued
  <2>7. Place(a)'
    <3>1. CASE 0 < Len(Files[a])
      <4>1. AtName(a)'
        BY <1>1, <1>2, <1>7, <2>3, <2>4, <2>5, <2>6 DEF AtName
      <4> QED
        BY <1>3, <2>4, <3>1, <4>1 DEF Place
    <3>2. CASE ~(0 < Len(Files[a]))
      <4>1. Finished(a)'
        BY <1>2, <2>3, <2>5, <2>6, <3>2 DEF Finished
      <4> QED
        BY <1>3, <2>4, <3>2, <4>1 DEF Place
    <3> QED
      BY <3>1, <3>2
  <2>8. Kept(a)'
    <3>1. Done(a) = 0 /\ Done(a)' = 0
      BY <1>1, <1>2, <2>3, <2>6 DEF Done
    <3> QED
      BY <1>1, <2>1, <2>6, <3>1 DEF Kept, StoredWhole
  <2> QED
    BY <2>7, <2>8
<1>12. Link(a)'
  BY <1>1, <1>10, <1>11 DEF Link, clientVars
<1>13. \A d \in Clients : \A i \in 1..Len(Files[d]) : StoredWhole(d, i) => StoredWhole(d, i)'
  BY <1>1 DEF StoredWhole
<1> QED
  BY <1>0, <1>1, <1>3, <1>4, <1>5, <1>8, <1>9, <1>12, <1>13, ServerKeeps

LEMMA ReadNameKeeps == ASSUME Orderly, Lockstep, Typing', ReadName PROVE Lockstep'
<1>0. PICK a : a = active_sd
  OBVIOUS
<1>1. /\ spc = "name" /\ spc' = "size" /\ Serving /\ Serving' /\ Confirm
      /\ \/ up[a] # <<>> /\ up' = [up EXCEPT ![a] = Tail(@)]
            /\ file_name' = IF Head(up[a]).what = "name" THEN Files[a][Head(up[a]).file].name ELSE ""
         \/ up[a] = <<>> /\ Gone(a) /\ UNCHANGED up
      /\ UNCHANGED <<clientVars, backlog, client_socket, active_sd, readfds, file_count,
                     count, file_size, downloaded, at_end, cwd, disk>>
  BY <1>0 DEF ReadName, Serving, AtEnd
<1>2. /\ InLine /\ a \in Clients /\ Served(a) /\ ~Queued(a) /\ cwd = Home(a) /\ Link(a)
      /\ Len(Files[a]) \in Nat /\ up \in [Clients -> Seq(Message)]
  <2>1. up \in [Clients -> Seq(Message)]
    BY DEF Lockstep, Typing, TypeOK
  <2> QED
    BY <1>0, <1>1, <2>1, ServedIsNotQueued
<1>3. Served(a)'
  BY <1>0, <1>1 DEF Served
<1>4. /\ \A d \in Clients : d # a => up'[d] = up[d] /\ down'[d] = down[d]
      /\ ~Gone(a) => down'[a] = Append(down[a], "CONFIRM")
  <2>1. \A d \in Clients : d # a => up'[d] = up[d]
    BY <1>1, <1>2
  <2> QED
    BY <1>0, <1>1, <2>1, ConfirmReaches DEF Lockstep
<1>5. Folder'
  BY <1>0, <1>1, <1>2 DEF Folder
<1>6. up[a] = <<>> \/ (up[a] = <<NameOf(count + 1)>> /\ count < Len(Files[a]))
  BY <1>1, <1>2 DEF Link, Pipe
<1>7. up'[a] = <<>>
  <2>1. CASE up[a] = <<>>
    BY <1>1, <2>1
  <2>2. CASE up[a] # <<>>
    <3>1. up'[a] = Tail(up[a])
      BY <1>1, <1>2, <2>2
    <3> QED
      BY <1>6, <2>2, <3>1, Singleton
  <2> QED
    BY <2>1, <2>2
<1>8. Ended'
  <2>1. at_end => AtEnd
    BY <1>1, <1>2 DEF InLine, Ended
  <2>2. AtEnd => AtEnd'
    BY <1>0, <1>1, <1>7 DEF AtEnd, Gone, clientVars
  <2> QED
    BY <1>1, <1>2, <2>1, <2>2 DEF InLine, Ended
<1>9. StoredIsPrefix'
  BY <1>1 DEF Lockstep, StoredIsPrefix
<1>10. Pipe(a)'
  BY <1>1, <1>3, <1>7 DEF Pipe
<1>11. ASSUME cpc[a] # "killed" PROVE Place(a)' /\ Kept(a)'
  <2>1. AtName(a) /\ Kept(a)
    BY <1>1, <1>2, <1>11 DEF Link, Place
  <2>2. up[a] # <<>>
    BY <1>1, <2>1 DEF AtName, Gone
  <2>3. /\ cpc[a] = "name" /\ down[a] = <<>> /\ up[a] = <<NameOf(count + 1)>>
        /\ count < Len(Files[a]) /\ current[a] = count + 1 /\ file_count = Len(Files[a])
    BY <1>6, <2>1, <2>2 DEF AtName
  <2>4. file_name' = Files[a][count + 1].name
    <3>1. Head(up[a]) = NameOf(count + 1)
      BY <2>3, Singleton
    <3>2. file_name' = IF Head(up[a]).what = "name" THEN Files[a][Head(up[a]).file].name ELSE ""
      BY <1>1, <2>2
    <3>3. NameOf(count + 1).what = "name" /\ NameOf(count + 1).file = count + 1
      BY DEF NameOf
    <3> QED
      BY <3>1, <3>2, <3>3
  <2>5. down'[a] = <<"CONFIRM">>
    BY <1>4, <2>3, EmptyAppend DEF Gone
  <2>6. cpc' = cpc /\ current' = current /\ confirmed' = confirmed
    BY <1>1 DEF clientVars
  <2>7. AtSize(a)'
    BY <1>1, <1>7, <2>3, <2>4, <2>5, <2>6 DEF AtSize, Named
  <2>8. Place(a)'
    BY <1>1, <1>3, <2>7 DEF Place
  <2>9. Kept(a)'
    BY <1>1, <1>2, <1>3, <2>1, <2>6 DEF Kept, Done, StoredWhole
  <2> QED
    BY <2>8, <2>9
<1>12. Link(a)'
  BY <1>1, <1>10, <1>11 DEF Link, clientVars
<1>13. \A d \in Clients : \A i \in 1..Len(Files[d]) : StoredWhole(d, i) => StoredWhole(d, i)'
  BY <1>1 DEF StoredWhole
<1> QED
  BY <1>0, <1>1, <1>4, <1>5, <1>8, <1>9, <1>12, <1>13, ServerKeeps DEF Serving

(* What the server writes to the file that it is at leaves all others. *)
LEMMA StoringKeeps ==
  ASSUME Orderly, Lockstep, Serving, NEW a, a = active_sd,
         NEW data \in Seq(Message), Store(Stored, data)
  PROVE  /\ \A d \in Clients : d # a =>
              \A i \in 1..Len(Files[d]) : StoredWhole(d, i) => StoredWhole(d, i)'
         /\ Named(a) => \A i \in 1..Len(Files[a]) :
                          i # count + 1 /\ StoredWhole(a, i) => StoredWhole(a, i)'
<1>1. a \in Clients /\ cwd = Home(a) /\ Len(Files[a]) \in Nat /\ Typing
  BY ServedIsNotQueued DEF Lockstep
<1>2. ASSUME NEW d \in Clients, d # a, NEW i \in 1..Len(Files[d]), StoredWhole(d, i)
      PROVE  StoredWhole(d, i)'
  BY <1>1, <1>2, StoredElsewhere
<1>3. ASSUME Named(a), NEW i \in 1..Len(Files[a]), i # count + 1, StoredWhole(a, i)
      PROVE  StoredWhole(a, i)'
  <2>1. count + 1 \in 1..Len(Files[a])
    BY <1>1, <1>3, ServingType DEF Named
  <2>2. Files[a][i].name # file_name
    BY <1>1, <1>3, <2>1 DEF Named, Orderly
  <2> QED
    BY <1>1, <1>3, <2>2, StoredElsewhere
<1> QED
  BY <1>2, <1>3

LEMMA ReadSizeKeeps == ASSUME Orderly, Lockstep, Typing', ReadSize PROVE Lockstep'
<1>0. PICK a : a = active_sd
  OBVIOUS
<1>1. /\ spc = "size" /\ Serving /\ Confirm /\ Store(Stored, <<>>)
      /\ \/ \E n \in 1..Len(up[a]) :
              /\ file_size' = IF Head(up[a]).what = "size" THEN Head(up[a]).part ELSE 0
              /\ up' = [up EXCEPT ![a] = SubSeq(@, n + 1, Len(@))]
         \/ up[a] = <<>> /\ Gone(a) /\ UNCHANGED up
      /\ IF at_end
         THEN count' = count + 1 /\ Continue(count + 1, file_count)
         ELSE spc' = "content" /\ UNCHANGED <<count, cwd>>
      /\ UNCHANGED <<clientVars, backlog, client_socket, active_sd, readfds, file_count,
                     file_name, downloaded, at_end>>
  BY <1>0 DEF ReadSize, Serving, AtEnd
<1>2. /\ InLine /\ a \in Clients /\ Served(a) /\ ~Queued(a) /\ cwd = Home(a) /\ Link(a)
      /\ Len(Files[a]) \in Nat /\ up \in [Clients -> Seq(Message)] /\ count \in Nat
      /\ downloaded = 0
  <2>1. up \in [Clients -> Seq(Message)]
    BY DEF Lockstep, Typing, TypeOK
  <2>2. downloaded = 0
    BY <1>1 DEF Lockstep, InLine, Ended
  <2> QED
    BY <1>0, <1>1, <2>1, <2>2, ServedIsNotQueued, ServingType DEF Lockstep
<1>3. up[a] = <<>> \/ (Named(a) /\ up[a] = <<SizeOf(a, count + 1)>>)
  BY <1>1, <1>2 DEF Link, Pipe
<1>4. up'[a] = <<>> /\ \A d \in Clients : d # a => up'[d] = up[d]
  <2>1. CASE up[a] = <<>>
    <3>1. Len(up[a]) = 0
      BY <2>1, EmptySeq
    <3> QED
      BY <1>1, <2>1, <3>1
  <2>2. CASE up[a] # <<>>
    <3>1. Len(up[a]) = 1
      BY <1>3, <2>2, Singleton
    <3>2. up' = [up EXCEPT ![a] = SubSeq(@, 2, 1)]
      BY <1>1, <1>2, <2>2, <3>1
    <3>3. SubSeq(up[a], 2, 1) = <<>>
      BY SubSeqEmpty
    <3> QED
      BY <1>2, <3>2, <3>3
  <2> QED
    BY <2>1, <2>2
<1>5. /\ \A d \in Clients : d # a => up'[d] = up[d] /\ down'[d] = down[d]
      /\ ~Gone(a) => down'[a] = Append(down[a], "CONFIRM")
  BY <1>0, <1>1, <1>4, ConfirmReaches DEF Lockstep
<1>6. spc' \in {"name", "sweep", "content"} /\ (at_end \/ spc' = "content") /\ spc' # "dead"
  BY <1>0, <1>1, ContinueTo
<1>7. Folder'
  <2>1. CASE at_end
    BY <1>1, <2>1, ContinueFolder
  <2>2. CASE ~at_end
    BY <1>0, <1>1, <1>2, <2>2 DEF Folder, Serving
  <2> QED
    BY <2>1, <2>2
<1>8. Ended'
  <2>1. at_end => AtEnd /\ spc' # "content"
    BY <1>0, <1>1, <1>2, ContinueTo DEF InLine, Ended
  <2>2. AtEnd => AtEnd'
    BY <1>0, <1>1, <1>4 DEF AtEnd, Gone, clientVars
  <2> QED
    BY <1>1, <1>2, <1>6, <2>1, <2>2 DEF Ended
<1>9. <<>> \in Seq(Message) /\ Len(<<>>) = 0
  BY EmptySeq
<1>10. StoredIsPrefix'
  <2>1. Genuine(<<>>) = 0
    BY <1>9 DEF Genuine
  <2> QED
    BY <1>1, <1>2, <1>9, <2>1, PrefixKept
<1>11. disk'[Stored] = <<>>
  BY <1>1, <1>9, StoreType DEF Lockstep
<1>12. Pipe(a)'
  <2>1. spc' = "content" => Stored' = Stored
    BY <1>0, <1>1, ContinueTo DEF Stored
  <2>2. spc' = "content" => Filling(a)'
    BY <1>1, <1>2, <1>4, <1>9, <1>11, <2>1 DEF Filling
  <2> QED
    BY <1>4, <1>6, <2>2 DEF Pipe
<1>13. ASSUME cpc[a] # "killed" PROVE Place(a)' /\ Kept(a)'
  <2>1. AtSize(a) /\ Kept(a)
    BY <1>1, <1>2, <1>13 DEF Link, Place
  <2>2. ~Gone(a)
    BY <2>1 DEF AtSize, Gone
  <2>3. up[a] # <<>>
    BY <1>1, <2>2, EmptySeq
  <2>4. /\ cpc[a] = "size" /\ down[a] = <<>> /\ up[a] = <<SizeOf(a, count + 1)>>
        /\ Named(a) /\ current[a] = count + 1 /\ file_count = Len(Files[a])
    BY <2>1, <2>3 DEF AtSize
  <2>5. ~at_end
    BY <1>0, <1>1, <1>2, <2>2 DEF InLine, Ended, AtEnd
  <2>6. spc' = "content" /\ UNCHANGED <<count, cwd>> /\ Served(a)'
    BY <1>0, <1>1, <2>5 DEF Served, Serving
  <2>7. file_size' = Files[a][count + 1].size
    <3>1. Head(up[a]) = SizeOf(a, count + 1)
      BY <2>4, Singleton
    <3>2. file_size' = IF Head(up[a]).what = "size" THEN Head(up[a]).part ELSE 0
      BY <1>1, <2>2
    <3>3. SizeOf(a, count + 1).what = "size" /\ SizeOf(a, count + 1).part = Files[a][count + 1].size
      BY DEF SizeOf
    <3> QED
      BY <3>1, <3>2, <3>3
  <2>8. down'[a] = <<"CONFIRM">>
    BY <1>5, <2>2, <2>4, EmptyAppend
  <2>9. cpc' = cpc /\ current' = current /\ confirmed' = confirmed
    BY <1>1 DEF clientVars
  <2>10. Opened(a)'
    BY <1>1, <2>4, <2>6, <2>7 DEF Opened, Named
  <2>11. AtContent(a)'
    BY <1>1, <1>2, <1>4, <2>4, <2>6, <2>8, <2>9, <2>10 DEF AtContent
  <2>12. Place(a)'
    BY <2>6, <2>11 DEF Place
  <2>13. Kept(a)'
    <3>1. Done(a) = count /\ Done(a)' = count
      BY <1>2, <2>6 DEF Done
    <3>2. \A i \in 1..Len(Files[a]) : i # count + 1 /\ StoredWhole(a, i) => StoredWhole(a, i)'
      BY <1>0, <1>1, <1>9, <2>4, StoringKeeps
    <3>3. \A i \in 1..Len(Files[a]) : i <= count => i # count + 1
      BY <1>2
    <3> QED
      BY <2>1, <2>9, <3>1, <3>2, <3>3 DEF Kept
  <2> QED
    BY <2>12, <2>13
<1>14. Link(a)'
  BY <1>1, <1>12, <1>13 DEF Link, clientVars
<1>15. \A d \in Clients : d # a =>
         \A i \in 1..Len(Files[d]) : StoredWhole(d, i) => StoredWhole(d, i)'
  BY <1>0, <1>1, <1>9, StoringKeeps
<1> QED
  BY <1>0, <1>1, <1>5, <1>6, <1>7, <1>8, <1>10, <1>14, <1>15, ServerKeeps

LEMMA ChunksJoined ==
  ASSUME NEW s \in Seq(Message), NEW t \in Seq(Message), NEW i,
         \A k \in 1..Len(s) : s[k] = Chunk(i, k),
         \A k \in 1..Len(t) : t[k] = Chunk(i, Len(s) + k)
  PROVE  /\ s \o t \in Seq(Message) /\ Len(s \o t) = Len(s) + Len(t)
         /\ \A k \in 1..(Len(s) + Len(t)) : (s \o t)[k] = Chunk(i, k)
<1>1. Len(s) \in Nat /\ Len(t) \in Nat
  BY LenProperties
<1>2. /\ s \o t \in Seq(Message) /\ Len(s \o t) = Len(s) + Len(t)
      /\ \A k \in 1..(Len(s) + Len(t)) : (s \o t)[k] = IF k <= Len(s) THEN s[k] ELSE t[k - Len(s)]
  BY ConcatProperties
<1>3. ASSUME NEW k \in 1..(Len(s) + Len(t)) PROVE (s \o t)[k] = Chunk(i, k)
  <2>1. CASE k <= Len(s)
    BY <1>1, <1>2, <2>1
  <2>2. CASE ~(k <= Len(s))
    <3>1. k - Len(s) \in 1..Len(t) /\ Len(s) + (k - Len(s)) = k
      BY <1>1, <2>2
    <3>2. (s \o t)[k] = t[k - Len(s)]
      BY <1>2, <2>2
    <3> QED
      BY <3>1, <3>2
  <2> QED
    BY <2>1, <2>2
<1> QED
  BY <1>2, <1>3

(* What is read of the content are the next chunks of the file that was    *)
(* announced, and no more than its size.                                   *)
Appended(a, n, data) ==
  /\ data \in Seq(Message) /\ Len(data) = downloaded + n
  /\ \A k \in 1..(downloaded + n) : data[k] = Chunk(count + 1, k)

LEMMA ContentIsNext ==
  ASSUME Lockstep, spc = "content", NEW a, a = active_sd, NEW n \in 1..Len(up[a]),
         NEW data, data = disk[Stored] \o SubSeq(up[a], 1, n)
  PROVE  /\ Filling(a) /\ Opened(a) /\ downloaded + Len(up[a]) <= file_size
         /\ Appended(a, n, data) /\ BeginningOf(a, count + 1, data)
         /\ downloaded + n = file_size => data = Content(a, count + 1)
<1>1. Serving
  BY DEF Serving
<1>2. /\ a \in Clients /\ Served(a) /\ Link(a) /\ InLine
      /\ downloaded \in Nat /\ file_size \in Nat /\ count \in Nat
      /\ up[a] \in Seq(Message) /\ Len(up[a]) \in Nat /\ n \in Nat /\ n > 0 /\ n <= Len(up[a])
  BY <1>1, ServedIsNotQueued, ServingType DEF Lockstep, InLine
<1>3. Filling(a)
  BY <1>2 DEF Link, Pipe
<1>4. Opened(a) /\ downloaded + Len(up[a]) <= file_size
  BY <1>2, <1>3 DEF Filling
<1>5. disk[Stored] \in Seq(Message)
  BY <1>1 DEF Lockstep, Typing, TypeOK, Grounded, ServerGrounded
<1>6. /\ SubSeq(up[a], 1, n) \in Seq(Message) /\ Len(SubSeq(up[a], 1, n)) = n
      /\ \A k \in 1..n : SubSeq(up[a], 1, n)[k] = up[a][k]
  <2>1. \A k \in 1..n : up[a][k] \in Message
    BY <1>2, ElementOfSeq
  <2> QED
    BY <1>2, <2>1, SubSeqProperties
<1>7. data \in Seq(Message) /\ Len(data) = downloaded + n
      /\ \A k \in 1..(downloaded + n) : data[k] = Chunk(count + 1, k)
  <2>1. PICK s, t, i : s = disk[Stored] /\ t = SubSeq(up[a], 1, n) /\ i = count + 1
    OBVIOUS
  <2>2. /\ s \in Seq(Message) /\ t \in Seq(Message) /\ data = s \o t
        /\ Len(s) = downloaded /\ Len(t) = n
    BY <1>3, <1>5, <1>6, <2>1 DEF Filling
  <2>3. \A k \in 1..Len(s) : s[k] = Chunk(i, k)
    BY <1>3, <2>1, <2>2 DEF Filling
  <2>4. \A k \in 1..Len(t) : t[k] = Chunk(i, Len(s) + k)
    <3>1. \A k \in 1..n : k \in 1..Len(up[a])
      BY <1>2
    <3> QED
      BY <1>3, <1>6, <2>1, <2>2, <3>1 DEF Filling
  <2>5. /\ s \o t \in Seq(Message) /\ Len(s \o t) = Len(s) + Len(t)
        /\ \A k \in 1..(Len(s) + Len(t)) : (s \o t)[k] = Chunk(i, k)
    <3>1. s \in Seq(Message) /\ t \in Seq(Message)
      BY <2>2
    <3> QED
      BY <2>3, <2>4, <3>1, ChunksJoined DEF Chunk
  <2> QED
    BY <2>1, <2>2, <2>5
<1>9. count + 1 \in 1..Len(Files[a]) /\ Files[a][count + 1].size = file_size
  BY <1>2, <1>4, FilesLength DEF Opened, Named
<1>10. \A k \in 1..file_size : Content(a, count + 1)[k] = Chunk(count + 1, k)
  BY <1>2, <1>9, ChunkType
<1>11. Genuine(data) = downloaded + n
  <2>1. downloaded + n \in 1..(downloaded + n)
    BY <1>2
  <2>2. data[Len(data)] = Chunk(count + 1, downloaded + n)
    BY <1>7, <2>1
  <2> QED
    BY <1>7, <2>2 DEF Genuine, Chunk
<1>12. BeginningOf(a, count + 1, data)
  <2>1. downloaded + n <= file_size
    BY <1>2, <1>4
  <2>2. \A k \in 1..(downloaded + n) : k \in 1..file_size
    BY <1>2, <2>1
  <2> QED
    BY <1>7, <1>9, <1>10, <1>11, <2>1, <2>2 DEF BeginningOf
<1>13. ASSUME downloaded + n = file_size PROVE data = Content(a, count + 1)
  <2>1. data \in [1..file_size -> Message]
    BY <1>7, <1>13, LenProperties
  <2>2. \A k \in 1..file_size : data[k] = Content(a, count + 1)[k]
    BY <1>7, <1>10, <1>13
  <2>3. Content(a, count + 1) = [k \in 1..file_size |-> Content(a, count + 1)[k]]
    BY <1>9 DEF Content
  <2> QED
    BY <2>1, <2>2, <2>3
<1> QED
  BY <1>3, <1>4, <1>7, <1>12, <1>13 DEF Appended

LEMMA ReadContentKeeps == ASSUME Orderly, Lockstep, Typing', ReadContent PROVE Lockstep'
<1>0. PICK a : a = active_sd
  OBVIOUS
<1>1. /\ spc = "content" /\ Serving
      /\ UNCHANGED <<clientVars, backlog, client_socket, active_sd, readfds, file_count,
                     file_name, file_size, at_end>>
  BY DEF ReadContent, Serving
<1>2. PICK n \in 1..Len(up[a]) :
        /\ Store(Stored, disk[Stored] \o SubSeq(up[a], 1, n))
        /\ up' = [up EXCEPT ![a] = SubSeq(@, n + 1, Len(@))]
        /\ IF downloaded + n = file_size
           THEN Confirm /\ CloseFile
           ELSE /\ downloaded' = downloaded + n
                /\ UNCHANGED <<spc, count, cwd, down, broken>>
  BY <1>0 DEF ReadContent
<1>3. PICK data : data = disk[Stored] \o SubSeq(up[a], 1, n)
  OBVIOUS
<1>4. /\ Filling(a) /\ Opened(a) /\ downloaded + Len(up[a]) <= file_size
      /\ Appended(a, n, data) /\ BeginningOf(a, count + 1, data)
      /\ downloaded + n = file_size => data = Content(a, count + 1)
  BY <1>0, <1>1, <1>3, ContentIsNext
<1>5. /\ InLine /\ a \in Clients /\ Served(a) /\ ~Queued(a) /\ cwd = Home(a) /\ Link(a)
      /\ Len(Files[a]) \in Nat /\ up \in [Clients -> Seq(Message)] /\ count \in Nat
      /\ downloaded \in Nat /\ file_size \in Nat
      /\ up[a] \in Seq(Message) /\ Len(up[a]) \in Nat /\ n \in Nat /\ n > 0 /\ n <= Len(up[a])
  BY <1>0, <1>1, ServedIsNotQueued, ServingType DEF Lockstep
<1>6. data \in Seq(Message) /\ Len(data) = downloaded + n /\ Store(Stored, data)
  BY <1>2, <1>3, <1>4 DEF Appended
<1>7. disk'[Stored] = data /\ Stored \in DOMAIN disk'
  BY <1>6, StoreType DEF Lockstep
<1>8. up'[a] = SubSeq(up[a], n + 1, Len(up[a])) /\ \A d \in Clients : d # a => up'[d] = up[d]
  BY <1>2, <1>5
<1>9. Len(up'[a]) = Len(up[a]) - n /\ \A k \in 1..(Len(up[a]) - n) : up'[a][k] = up[a][n + k]
  <2>1. \A k \in (n + 1)..Len(up[a]) : up[a][k] \in Message
    BY <1>5, ElementOfSeq
  <2>2. n + 1 \in Int /\ Len(up[a]) \in Int
    BY <1>5
  <2>3. /\ Len(up'[a]) = IF n + 1 <= Len(up[a]) THEN Len(up[a]) - (n + 1) + 1 ELSE 0
        /\ \A k \in 1..(Len(up[a]) - (n + 1) + 1) : up'[a][k] = up[a][(n + 1) + k - 1]
    BY <1>8, <2>1, <2>2, SubSeqProperties
  <2>4. Len(up[a]) - (n + 1) + 1 = Len(up[a]) - n /\ \A k \in Int : (n + 1) + k - 1 = n + k
    BY <1>5
  <2>5. Len(up'[a]) = Len(up[a]) - n
    BY <1>5, <2>3
  <2>6. ASSUME NEW k \in 1..(Len(up[a]) - n) PROVE up'[a][k] = up[a][n + k]
    BY <2>3, <2>4
  <2> QED
    BY <2>5, <2>6
<1>10. StoredIsPrefix'
  <2>1. count + 1 \in 1..Len(Files[a]) /\ file_name = Files[a][count + 1].name
    BY <1>4, <1>5 DEF Opened, Named
  <2> QED
    BY <1>4, <1>5, <1>6, <2>1, PrefixKept
<1>11. /\ \A d \in Clients : d # a =>
            \A i \in 1..Len(Files[d]) : StoredWhole(d, i) => StoredWhole(d, i)'
       /\ \A i \in 1..Len(Files[a]) : i # count + 1 /\ StoredWhole(a, i) => StoredWhole(a, i)'
  BY <1>0, <1>1, <1>4, <1>6, StoringKeeps DEF Opened
<1>12. PICK next : next = count + 1
  OBVIOUS
<1>13. cpc' = cpc /\ current' = current /\ confirmed' = confirmed /\ sent' = sent
       /\ (Queued(a)' <=> Queued(a))
  BY <1>1 DEF clientVars, Queued
<1>14. ASSUME cpc[a] # "killed"
       PROVE  /\ cpc[a] \in {"content", "confirm"} /\ down[a] = <<>> /\ current[a] = count + 1
              /\ file_count = Len(Files[a]) /\ sent[a] = downloaded + Len(up[a])
              /\ (cpc[a] = "content" <=> sent[a] < file_size) /\ Kept(a)
  <2>1. AtContent(a) /\ Kept(a)
    BY <1>1, <1>5, <1>14 DEF Link, Place
  <2>2. up[a] # <<>>
    BY <1>5, EmptySeq
  <2> QED
    BY <2>1, <2>2 DEF AtContent
<1>15. CASE downloaded + n = file_size
  <2>1. Confirm /\ downloaded' = 0 /\ count' = count + 1 /\ Continue(count + 1, file_count)
    BY <1>2, <1>15 DEF CloseFile
  <2>2. /\ spc' = IF count + 1 < file_count THEN "name" ELSE "sweep"
        /\ Serving' <=> count + 1 < file_count
        /\ Served(a)' <=> count + 1 < file_count
        /\ spc' # "dead"
    BY <1>0, <1>1, <2>1, ContinueTo
  <2>3. up'[a] = <<>> /\ Len(up[a]) = n
    <3>1. Len(up[a]) = n
      BY <1>4, <1>5, <1>15
    <3> QED
      BY <1>5, <1>8, <3>1, SubSeqEmpty
  <2>4. /\ \A d \in Clients : d # a => up'[d] = up[d] /\ down'[d] = down[d]
        /\ ~Gone(a) => down'[a] = Append(down[a], "CONFIRM")
    BY <1>0, <1>1, <1>8, <2>1, ConfirmReaches DEF Lockstep
  <2>5. Folder'
    BY <1>1, <2>1, ContinueFolder
  <2>6. Ended'
    BY <1>1, <1>5, <2>1, <2>2 DEF InLine, Ended, Serving
  <2>7. Pipe(a)'
    BY <2>2, <2>3 DEF Pipe
  <2>8. ASSUME cpc[a] # "killed" PROVE Place(a)' /\ Kept(a)'
    <3>1. cpc[a] = "confirm" /\ down'[a] = <<"CONFIRM">>
      BY <1>5, <1>14, <1>15, <2>3, <2>4, <2>8, EmptyAppend DEF Gone
    <3>2. Place(a)'
      <4>1. CASE count + 1 < file_count
        <5>1. AtName(a)'
          BY <1>1, <1>13, <1>14, <2>1, <2>3, <2>8, <3>1 DEF AtName
        <5> QED
          BY <2>2, <4>1, <5>1 DEF Place
      <4>2. CASE ~(count + 1 < file_count)
        <5>1. count + 1 = Len(Files[a])
          BY <1>4, <1>5, <1>14, <2>8, <4>2 DEF Opened, Named
        <5>2. Finished(a)'
          BY <1>5, <1>13, <1>14, <2>8, <3>1, <5>1 DEF Finished
        <5> QED
          BY <2>2, <4>2, <5>2 DEF Place
      <4> QED
        BY <4>1, <4>2
    <3>3. Kept(a)'
      <4>1. Done(a) = count /\ Done(a)' = count + 1
        BY <1>5, <1>13, <1>14, <2>1, <2>8 DEF Done
      <4>2. StoredWhole(a, next)'
        <5>1. Stored = <<Home(a), Files[a][next].name>>
          BY <1>4, <1>12, <1>5 DEF Stored, Opened, Named
        <5>2. data = Content(a, next)
          BY <1>4, <1>15, <1>12
        <5> QED
          BY <1>7, <5>1, <5>2 DEF StoredWhole
      <4>3. /\ confirmed[a] <= count
            /\ \A i \in 1..Len(Files[a]) : i <= count /\ Files[a][i].size > 0 => StoredWhole(a, i)
        BY <1>14, <2>8, <4>1 DEF Kept
      <4>4. confirmed[a] <= count + 1 /\ count + 1 <= Len(Files[a])
        <5>1. confirmed[a] \in Nat
          BY <1>5 DEF Lockstep, Typing, TypeOK
        <5> QED
          BY <1>4, <1>5, <4>3, <5>1 DEF Opened, Named
      <4>5. \A i \in 1..Len(Files[a]) : i <= count + 1 => i <= count \/ i = count + 1
        BY <1>5
      <4>6. \A i \in 1..Len(Files[a]) : i <= count => i # count + 1
        BY <1>5
      <4>7. \A i \in 1..Len(Files[a]) : i <= count + 1 /\ Files[a][i].size > 0 => StoredWhole(a, i)'
        <5>1. ASSUME NEW i \in 1..Len(Files[a]), i <= count + 1, Files[a][i].size > 0
              PROVE  StoredWhole(a, i)'
          <6>1. CASE i <= count
            BY <1>11, <4>3, <4>6, <5>1, <6>1
          <6>2. CASE i = count + 1
            BY <1>12, <4>2, <6>2
          <6> QED
            BY <4>5, <5>1, <6>1, <6>2
        <5> QED
          BY <5>1
      <4> QED
        BY <1>13, <4>1, <4>4, <4>7 DEF Kept
    <3> QED
      BY <3>2, <3>3
  <2>9. Link(a)'
    BY <1>13, <2>7, <2>8 DEF Link
  <2> QED
    BY <1>0, <1>1, <1>10, <1>11, <2>2, <2>4, <2>5, <2>6, <2>9, ServerKeeps
<1>16. CASE downloaded + n # file_size
  <2>1. downloaded' = downloaded + n /\ UNCHANGED <<spc, count, cwd, down, broken>>
    BY <1>2, <1>16
  <2>2. Serving' /\ Served(a)' /\ Stored' = Stored
    BY <1>0, <1>1, <2>1 DEF Serving, Served, Stored
  <2>3. downloaded' + Len(up'[a]) = downloaded + Len(up[a])
    BY <1>5, <1>9, <2>1
  <2>4. Filling(a)'
    <3>1. Opened(a)'
      BY <1>1, <1>4, <2>1 DEF Opened, Named
    <3>2. \A k \in 1..downloaded' : data[k] = Chunk(count + 1, k)
      BY <1>4, <2>1 DEF Appended
    <3>3. ASSUME NEW k \in 1..Len(up'[a]) PROVE up'[a][k] = Chunk(count + 1, downloaded' + k)
      <4>1. n + k \in 1..Len(up[a]) /\ k \in 1..(Len(up[a]) - n) /\ downloaded + (n + k) = downloaded' + k
        BY <1>5, <1>9, <2>1
      <4>2. up[a][n + k] = Chunk(count + 1, downloaded + (n + k))
        BY <1>4, <4>1 DEF Filling
      <4> QED
        BY <1>9, <4>1, <4>2
    <3>4. /\ Len(disk'[Stored']) = downloaded' /\ downloaded' + Len(up'[a]) <= file_size'
          /\ \A k \in 1..downloaded' : disk'[Stored'][k] = Chunk(count' + 1, k)
      BY <1>1, <1>4, <1>6, <1>7, <2>1, <2>2, <2>3, <3>2
    <3>5. \A k \in 1..Len(up'[a]) : up'[a][k] = Chunk(count' + 1, downloaded' + k)
      BY <2>1, <3>3
    <3> QED
      BY <3>1, <3>4, <3>5 DEF Filling, Chunk
  <2>5. Pipe(a)'
    BY <1>1, <2>1, <2>2, <2>4 DEF Pipe
  <2>6. Folder' /\ Ended'
    BY <1>0, <1>1, <1>5, <2>1, <2>2 DEF InLine, Folder, Ended
  <2>7. ASSUME cpc[a] # "killed" PROVE Place(a)' /\ Kept(a)'
    <3>1. downloaded' < file_size
      BY <1>4, <1>5, <1>16, <2>1
    <3>2. sent[a] = downloaded' + Len(up'[a])
      BY <1>14, <2>3, <2>7
    <3>3. Opened(a)'
      BY <1>1, <1>4, <2>1 DEF Opened, Named
    <3>4. AtContent(a)'
      BY <1>1, <1>13, <1>14, <2>1, <2>7, <3>1, <3>2, <3>3 DEF AtContent
    <3>5. Place(a)'
      BY <1>1, <2>1, <2>2, <3>4 DEF Place
    <3>6. Kept(a)'
      <4>1. Done(a) = count /\ Done(a)' = count
        BY <1>5, <2>1, <2>2 DEF Done
      <4>2. \A i \in 1..Len(Files[a]) : i <= count => i # count + 1
        BY <1>5
      <4> QED
        BY <1>11, <1>13, <1>14, <2>7, <4>1, <4>2 DEF Kept
    <3> QED
      BY <3>5, <3>6
  <2>8. Link(a)'
    BY <1>13, <2>5, <2>7 DEF Link
  <2>9. \A d \in Clients : d # a => up'[d] = up[d] /\ down'[d] = down[d]
    BY <1>8, <2>1
  <2>10. spc' # "dead"
    BY <1>1, <2>1
  <2> QED
    BY <1>0, <1>1, <1>10, <1>11, <2>6, <2>8, <2>9, <2>10, ServerKeeps
<1> QED
  BY <1>15, <1>16

(* A connection that ended leaves a beginning of the file, and whatever a  *)
(* length of -1 appends to it.                                             *)
LEMMA JunkAtTheEnd ==
  ASSUME Lockstep, spc = "content", NEW a, a = active_sd, NEW junk \in Message, junk.what = "junk",
         NEW data, data = Append(disk[Stored], junk)
  PROVE  /\ data \in Seq(Message)
         /\ Genuine(data) = 0 \/ (Opened(a) /\ BeginningOf(a, count + 1, data))
<1>1. Serving
  BY DEF Serving
<1>2. /\ a \in Clients /\ Served(a) /\ Link(a) /\ Filling(a)
      /\ downloaded \in Nat /\ file_size \in Nat /\ count \in Nat /\ Len(up[a]) \in Nat
  <2>1. a \in Clients /\ Served(a) /\ Link(a)
    BY <1>1, ServedIsNotQueued
  <2> QED
    BY <1>1, <2>1, ServingType DEF Lockstep, Link, Pipe
<1>3. disk[Stored] \in Seq(Message) /\ Len(disk[Stored]) = downloaded
  BY <1>1, <1>2 DEF Lockstep, Typing, TypeOK, Grounded, ServerGrounded, Filling
<1>4. /\ data \in Seq(Message) /\ Len(data) = downloaded + 1 /\ data[downloaded + 1] = junk
      /\ \A k \in 1..downloaded : data[k] = disk[Stored][k]
  BY <1>3, AppendProperties
<1>5. Genuine(data) = downloaded
  <2>1. data # <<>>
    BY <1>2, <1>4, EmptySeq
  <2>2. data[Len(data)].what = "junk" /\ Len(data) - 1 = downloaded
    BY <1>2, <1>4
  <2> QED
    BY <2>1, <2>2 DEF Genuine
<1>6. ASSUME downloaded # 0 PROVE Opened(a) /\ BeginningOf(a, count + 1, data)
  <2>1. downloaded + Len(up[a]) > 0
    BY <1>2, <1>6
  <2>2. Opened(a) /\ downloaded + Len(up[a]) <= file_size
    BY <1>2, <2>1 DEF Filling
  <2>3. downloaded <= file_size /\ \A k \in 1..downloaded : k \in 1..file_size
    BY <1>2, <2>2
  <2>4. count + 1 \in 1..Len(Files[a]) /\ Files[a][count + 1].size = file_size
    BY <1>2, <2>2, FilesLength DEF Opened, Named
  <2>5. \A k \in 1..file_size : Content(a, count + 1)[k] = Chunk(count + 1, k)
    BY <1>2, <2>4, ChunkType
  <2>6. \A k \in 1..downloaded : data[k] = Content(a, count + 1)[k]
    BY <1>2, <1>4, <2>3, <2>5 DEF Filling
  <2> QED
    BY <1>5, <2>2, <2>3, <2>4, <2>6 DEF BeginningOf
<1> QED
  BY <1>4, <1>5, <1>6

LEMMA ContentEndsKeeps == ASSUME Orderly, Lockstep, Typing', ContentEnds PROVE Lockstep'
<1>0. PICK a, junk : a = active_sd /\ junk = [what |-> "junk", file |-> 0, part |-> 0]
  OBVIOUS
<1>1. /\ spc = "content" /\ Serving /\ up[a] = <<>> /\ Gone(a) /\ at_end' = TRUE
      /\ UNCHANGED disk \/ Store(Stored, Append(disk[Stored], junk))
      /\ IF downloaded = file_size THEN Confirm ELSE UNCHANGED <<down, broken>>
      /\ downloaded' = 0 /\ count' = count + 1 /\ Continue(count + 1, file_count)
      /\ UNCHANGED <<clientVars, up, backlog, client_socket, active_sd, readfds, file_count,
                     file_name, file_size>>
  BY <1>0 DEF ContentEnds, CloseFile, Serving, AtEnd
<1>2. /\ InLine /\ a \in Clients /\ Served(a) /\ ~Queued(a) /\ cwd = Home(a) /\ Link(a)
      /\ Len(Files[a]) \in Nat /\ count \in Nat /\ file_count \in Nat
  BY <1>0, <1>1, ServedIsNotQueued, ServingType DEF Lockstep
<1>3. PICK data : data = Append(disk[Stored], junk)
  OBVIOUS
<1>4. /\ data \in Seq(Message)
      /\ Genuine(data) = 0 \/ (Opened(a) /\ BeginningOf(a, count + 1, data))
  <2>1. junk \in Message /\ junk.what = "junk"
    BY <1>0 DEF Message, What
  <2> QED
    BY <1>0, <1>1, <1>3, <2>1, JunkAtTheEnd
<1>5. /\ spc' = IF count + 1 < file_count THEN "name" ELSE "sweep"
      /\ Serving' <=> count + 1 < file_count
      /\ Served(a)' <=> count + 1 < file_count
      /\ spc' # "dead"
  BY <1>0, <1>1, ContinueTo
<1>6. UNCHANGED down
  BY <1>0, <1>1 DEF Confirm
<1>7. Folder'
  BY <1>1, ContinueFolder
<1>8. Ended'
  <2>1. AtEnd'
    BY <1>0, <1>1 DEF AtEnd, Gone, clientVars
  <2> QED
    BY <1>1, <1>5, <2>1 DEF Ended, Serving
<1>9. StoredIsPrefix'
  <2>1. CASE UNCHANGED disk
    BY <2>1 DEF Lockstep, StoredIsPrefix
  <2>2. CASE Store(Stored, data)
    <3>1. Opened(a) => count + 1 \in 1..Len(Files[a]) /\ file_name = Files[a][count + 1].name
      BY <1>2 DEF Opened, Named
    <3> QED
      BY <1>2, <1>4, <2>2, <3>1, PrefixKept
  <2> QED
    BY <1>1, <1>3, <2>1, <2>2
<1>10. /\ \A d \in Clients : d # a =>
            \A i \in 1..Len(Files[d]) : StoredWhole(d, i) => StoredWhole(d, i)'
       /\ Named(a) => \A i \in 1..Len(Files[a]) :
                        i # count + 1 /\ StoredWhole(a, i) => StoredWhole(a, i)'
  <2>1. CASE UNCHANGED disk
    BY <2>1 DEF StoredWhole
  <2>2. CASE Store(Stored, data)
    BY <1>0, <1>1, <1>4, <2>2, StoringKeeps
  <2> QED
    BY <1>1, <1>3, <2>1, <2>2
<1>11. Pipe(a)'
  BY <1>1, <1>5 DEF Pipe
<1>12. cpc' = cpc /\ current' = current /\ confirmed' = confirmed /\ (Queued(a)' <=> Queued(a))
  BY <1>1 DEF clientVars, Queued
<1>13. ASSUME cpc[a] # "killed" PROVE Place(a)' /\ Kept(a)'
  <2>1. AtContent(a) /\ Kept(a)
    BY <1>1, <1>2, <1>13 DEF Link, Place
  <2>2. /\ cpc[a] = "closed" /\ down[a] = <<>> /\ file_size = 0 /\ Opened(a)
        /\ current[a] = count + 1 /\ current[a] = Len(Files[a]) /\ file_count = Len(Files[a])
    BY <1>1, <1>13, <2>1 DEF AtContent, Gone
  <2>3. ~(count + 1 < file_count)
    BY <1>2, <2>2
  <2>4. Finished(a)' /\ ~Served(a)'
    BY <1>2, <1>5, <1>6, <1>12, <2>2, <2>3 DEF Finished
  <2>5. Kept(a)'
    <3>1. Done(a) = count /\ Done(a)' = count + 1
      BY <1>2, <1>12, <2>2, <2>4 DEF Done
    <3>2. /\ confirmed[a] <= count
          /\ \A i \in 1..Len(Files[a]) : i <= count /\ Files[a][i].size > 0 => StoredWhole(a, i)
      BY <2>1, <3>1 DEF Kept
    <3>3. confirmed[a] <= count + 1
      <4>1. confirmed[a] \in Nat
        BY <1>2 DEF Lockstep, Typing, TypeOK
      <4> QED
        BY <1>2, <3>2, <4>1
    <3>4. ASSUME NEW i \in 1..Len(Files[a]), Files[a][i].size > 0 PROVE StoredWhole(a, i)'
      <4>1. i # count + 1
        BY <2>2, <3>4 DEF Opened
      <4>2. i <= count
        BY <1>2, <2>2, <4>1
      <4> QED
        BY <1>10, <2>2, <3>2, <3>4, <4>1, <4>2 DEF Opened
    <3> QED
      BY <1>12, <2>2, <3>1, <3>3, <3>4 DEF Kept
  <2> QED
    BY <2>4, <2>5 DEF Place
<1>14. Link(a)'
  BY <1>11, <1>12, <1>13 DEF Link
<1> QED
  BY <1>0, <1>1, <1>5, <1>6, <1>7, <1>8, <1>9, <1>10, <1>14, ServerKeeps

(* Nothing is on its way to the server when it sweeps its table. *)
LEMMA SweepKeeps == ASSUME Lockstep, Typing', Sweep PROVE Lockstep'
<1>1. /\ spc = "sweep" /\ spc' = "select"
      /\ client_socket' = [i \in 1..Slots |->
            IF client_socket[i] \in readfds /\ up[client_socket[i]] = <<>>
            THEN None ELSE client_socket[i]]
      /\ up' = [c \in Clients |->
            IF c \in readfds /\ \E i \in 1..Slots : client_socket[i] = c THEN <<>> ELSE up[c]]
      /\ UNCHANGED <<clientVars, down, backlog, active_sd, at_end, downloaded, cwd, disk>>
  BY DEF Sweep, locals
<1>2. /\ InLine /\ ~Serving /\ ~Serving' /\ spc' # "dead"
      /\ \A d : (Queued(d)' <=> Queued(d)) /\ ~Served(d) /\ ~Served(d)'
  BY <1>1 DEF Lockstep, Serving, Served, Queued
<1>3. \A d \in Clients : up'[d] = up[d]
  <2>1. \A d \in Clients : up[d] = <<>>
    BY <1>2 DEF InLine, Link, Pipe
  <2> QED
    BY <1>1, <2>1
<1>4. \A i \in 1..Slots : client_socket'[i] = None \/ client_socket'[i] = client_socket[i]
  BY <1>1
<1>5. Table'
  <2>1. Table /\ cpc' = cpc /\ backlog' = backlog
    BY <1>1, <1>2 DEF InLine, clientVars
  <2>2. \A i \in 1..Slots : client_socket'[i] # None =>
          cpc'[client_socket'[i]] # "start" /\ ~Queued(client_socket[i])'
    BY <1>4, <2>1 DEF Table, Queued
  <2>3. \A i, j \in 1..Slots :
          client_socket'[i] = client_socket'[j] /\ client_socket'[i] # None => i = j
    BY <1>4, <2>1 DEF Table
  <2>4. /\ \A i, j \in 1..Len(backlog') : backlog'[i] = backlog'[j] => i = j
        /\ \A i \in 1..Len(backlog') : cpc'[backlog'[i]] # "start"
    BY <2>1 DEF Table
  <2> QED
    BY <1>2, <2>2, <2>3, <2>4 DEF Table
<1>6. Folder' /\ Ended'
  BY <1>1, <1>2 DEF InLine, Folder, Ended, Serving
<1>7. StoredIsPrefix'
  BY <1>1 DEF Lockstep, StoredIsPrefix
<1>8. \A d \in Clients : Link(d)'
  BY <1>1, <1>2, <1>3, OthersKeep DEF InLine, StoredWhole
<1> QED
  BY <1>5, <1>6, <1>7, <1>8 DEF Lockstep, InLine

LEMMA ServerEndKeeps ==
  ASSUME Lockstep, Typing', ServerDies \/ KillServer
  PROVE  Lockstep'
<1>1. spc' = "dead" /\ UNCHANGED disk
  BY DEF ServerDies, KillServer
<1> QED
  BY <1>1 DEF Lockstep, StoredIsPrefix

-----------------------------------------------------------------------------
(* The two ends in step: every reachable state *)

LEMMA LockstepNext == Orderly /\ Lockstep /\ [Next]_vars => Lockstep'
<1> SUFFICES ASSUME Orderly, Lockstep, [Next]_vars PROVE Lockstep'
  OBVIOUS
<1>0. Typing'
  BY TypingNext DEF Lockstep
<1>1. ASSUME NEW c \in Clients, ClientStep(c) PROVE Lockstep'
  BY <1>0, <1>1, ConnectKeeps, SendCountKeeps, CountConfirmedKeeps, NextFileKeeps, SendSizeKeeps,
     StartContentKeeps, SendChunkKeeps, ReceivedKeeps DEF ClientStep
<1>2. CASE ServerStep
  BY <1>0, <1>2, SelectKeeps, AcceptKeeps, ReadCountKeeps, ReadNameKeeps, ReadSizeKeeps,
     ReadContentKeeps, ContentEndsKeeps, SweepKeeps, ServerEndKeeps DEF ServerStep
<1>3. ASSUME NEW c \in Clients, KillClient(c) PROVE Lockstep'
  BY <1>0, <1>3, KillClientKeeps
<1>4. CASE KillServer
  BY <1>0, <1>4, ServerEndKeeps
<1>5. CASE UNCHANGED vars
  <2>1. UNCHANGED <<clientVars, network, serverVars>>
    BY <1>5 DEF vars
  <2>2. /\ UNCHANGED <<cpc, current, sent, confirmed, up, down, backlog>>
        /\ UNCHANGED <<spc, client_socket, active_sd, count, file_count, file_name, file_size,
                       downloaded, at_end, cwd, disk>>
    BY <2>1 DEF clientVars, network, serverVars, locals
  <2>3. StoredIsPrefix'
    BY <2>2 DEF Lockstep, StoredIsPrefix
  <2>4. CASE spc = "dead"
    BY <1>0, <2>2, <2>3, <2>4 DEF Lockstep
  <2>5. CASE spc # "dead"
    <3>1. InLine
      BY <2>5 DEF Lockstep
    <3>2. Table' /\ Folder' /\ Ended'
      BY <2>2, <3>1 DEF InLine, Table, Folder, Ended, Serving, Queued, AtEnd, Gone
    <3>3. \A c \in Clients : Link(c)'
      BY <2>1, <2>2, <3>1, LinkSame DEF InLine, SameFor, Queued
    <3> QED
      BY <1>0, <2>3, <3>2, <3>3 DEF Lockstep, InLine
  <2> QED
    BY <2>4, <2>5
<1> QED
  BY <1>1, <1>2, <1>3, <1>4, <1>5 DEF Next

LEMMA LockstepInvariant == ASSUME Orderly PROVE Spec => []Lockstep
<1>1. Init => Lockstep
  BY LockstepInit
<1>2. Lockstep /\ [Next]_vars => Lockstep'
  BY LockstepNext
<1> QED
  BY <1>1, <1>2, PTL DEF Spec

(* Whatever the order of the steps of any number of clients, and whoever   *)
(* is killed when: what is on its way to the server is what it is about to *)
(* read, and a client that waits for a reply that is not on its way is the *)
(* one that the server reads from.                                         *)
THEOREM TransferServedInStep == ASSUME Orderly PROVE Spec => []ServedInStep
<1>1. Lockstep => InStep
  <2> SUFFICES ASSUME Lockstep, spc \in {"name", "size", "content"}, NEW k \in 1..Len(up[active_sd])
               PROVE  LET m == up[active_sd][k]
                      IN  m.what = (IF spc = "content" THEN "data" ELSE spc) /\ m.file = count + 1
    BY DEF InStep
  <2>0. PICK a : a = active_sd
    OBVIOUS
  <2>1. Serving
    BY DEF Serving
  <2>2. Pipe(a) /\ Served(a)
    BY <2>0, <2>1, ServedIsNotQueued DEF Link
  <2>3. ASSUME NEW m, up[a] = <<m>> PROVE up[a][k] = m
    <3>1. k = 1
      BY <2>0, <2>3, Singleton
    <3> QED
      BY <2>3, <3>1, Singleton
  <2>4. k \in 1..Len(up[a]) /\ up[a] # <<>>
    BY <2>0, EmptySeq
  <2>5. CASE spc = "name"
    BY <2>0, <2>2, <2>3, <2>4, <2>5 DEF Pipe, NameOf
  <2>6. CASE spc = "size"
    BY <2>0, <2>2, <2>3, <2>4, <2>6 DEF Pipe, SizeOf
  <2>7. CASE spc = "content"
    <3>1. up[a][k] = Chunk(count + 1, downloaded + k)
      BY <2>2, <2>4, <2>7 DEF Pipe, Filling
    <3>2. up[a][k].what = "data" /\ up[a][k].file = count + 1
      BY <3>1 DEF Chunk
    <3> QED
      BY <2>0, <2>7, <3>2
  <2> QED
    BY <2>5, <2>6, <2>7
<1>2. Lockstep => WaitingIsServed
  <2> SUFFICES ASSUME Lockstep, NEW c \in Clients,
                      cpc[c] \in {"count", "name", "size", "content", "confirm"},
                      down[c] = <<>>, spc # "dead"
               PROVE  active_sd = c /\ spc \in {"count", "name", "size", "content"}
    BY DEF WaitingIsServed
  <2>1. Place(c)
    BY DEF Lockstep, InLine, Link
  <2>2. <<"CONFIRM">> # <<>>
    BY Singleton
  <2>3. Served(c)
    BY <2>1, <2>2 DEF Place, Waiting, Finished
  <2> QED
    BY <2>3 DEF Served, Serving
<1> QED
  BY LockstepInvariant, <1>1, <1>2, PTL DEF ServedInStep

(* Whatever the order of the steps of any number of clients, and whoever   *)
(* is killed when: a file that a client reports as received is in its      *)
(* directory, whole, and the directories hold beginnings of their clients' *)
(* files and no other bytes.                                               *)
THEOREM TransferDiskIsTrue == ASSUME Orderly PROVE Spec => []DiskIsTrue
<1>1. Lockstep => ConfirmedIsStored
  <2> SUFFICES ASSUME Lockstep, spc # "dead", NEW c \in Clients, cpc[c] # "killed",
                      NEW i \in 1..confirmed[c], Files[c][i].size > 0
               PROVE  StoredWhole(c, i)
    BY DEF ConfirmedIsStored
  <2>1. Kept(c)
    BY DEF Lockstep, InLine, Link
  <2>2. confirmed[c] \in Nat /\ confirmed[c] <= Len(Files[c]) /\ Len(Files[c]) \in Nat
    BY FilesLength DEF Lockstep, Typing, TypeOK
  <2>3. i \in 1..Len(Files[c])
    BY <2>2
  <2>4. Done(c) \in Nat
    <3>1. current[c] \in Nat
      BY DEF Lockstep, Typing, TypeOK
    <3>2. Served(c) => count \in Nat
      BY ServingType DEF Lockstep, Served
    <3> QED
      BY <3>1, <3>2 DEF Done
  <2>5. i <= Done(c)
    BY <2>1, <2>2, <2>4 DEF Kept
  <2> QED
    BY <2>1, <2>3, <2>5 DEF Kept
<1>2. Lockstep => StoredIsPrefix
  BY DEF Lockstep
<1> QED
  BY LockstepInvariant, <1>1, <1>2, PTL DEF DiskIsTrue

=============================================================================
