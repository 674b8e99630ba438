----------------------- MODULE EncryptedTransferProofs -----------------------
(***************************************************************************)
(* For every set of clients that fits the table of users, every file, key  *)
(* and chaining value, every table of the ciphers that fits a block, and   *)
(* whoever is killed when: the two ends of each connection stay in step, a *)
(* network undoes itself, an encrypted picture opens, and the server       *)
(* stores each file that a client sends to the end once, whole.            *)
(***************************************************************************)
EXTENDS EncryptedTransfer, FiniteSetTheorems, SequenceTheorems, WellFoundedInduction, TLAPS

PCs    == {"start", "key", "iv", "name", "data", "end", "done", "killed"}
Fields == {"ip", "rrk", "iv", "file_name", "isTxt", "key_flag", "file_name_flag",
           "file_size_flag", "EOC_flag", "server_key", "hex_data"}

(* The variables are the tables that they are meant to be. *)
Tables ==
  /\ pc \in [Clients -> PCs]
  /\ fd \in [Clients -> Fds \cup {NotAccepted, Closed}]
  /\ DOMAIN toServer = Clients /\ DOMAIN toClient = Clients
  /\ DOMAIN rk = Clients /\ DOMAIN chain = Clients
  /\ DOMAIN users = Fds /\ \A f \in Fds : DOMAIN users[f] = Fields

(* A descriptor is one client's; who waits to be accepted waits once and   *)
(* has none.                                                               *)
Descriptors ==
  /\ \A c, d \in Clients : fd[c] \in Fds /\ fd[c] = fd[d] => c = d
  /\ backlog \in Seq(Clients)
  /\ \A i \in 1..Len(backlog) : fd[backlog[i]] = NotAccepted /\ pc[backlog[i]] # "start"
  /\ \A i, j \in 1..Len(backlog) : backlog[i] = backlog[j] => i = j

(* The round keys that both ends derive from the two keys of a connection. *)
Agreed(c) == generateRoundKeys(SharedKey(KeyOf[c], ServerKeyOf[c]))

(* What the server's entry u says of the client at each point of the       *)
(* dialogue: which flags are set, and that it holds the client's keys k.   *)
Flags(u, key, name, size) ==
  /\ u.key_flag = key /\ u.file_name_flag = name /\ u.file_size_flag = size
  /\ u.EOC_flag = FALSE

Holds(u, k, name, size) == Flags(u, TRUE, name, size) /\ u.rrk = Reverse(k)

Asks(ts, tc, message)   == ts = <<message>> /\ tc = << >>
IsAnswered(ts, tc)      == ts = << >> /\ \E message : tc = <<message>>

(* Where the client c stands, p, is what is on the wire in either          *)
(* direction, ts and tc, and what the entry u of its descriptor f holds.   *)
AtKey(c, ts, tc, f, u) ==
  \/ /\ Asks(ts, tc, Message("[public_key]", KeyOf[c]))
     /\ f \in Fds => Flags(u, FALSE, FALSE, FALSE) /\ u.server_key = ServerKeyOf[c]
  \/ /\ ts = << >> /\ tc = <<Message("[public_key]", ServerKeyOf[c])>>
     /\ f \in Fds /\ Holds(u, Agreed(c), FALSE, FALSE)

AtIv(c, ts, tc, f, u, k) ==
  /\ f \in Fds /\ Holds(u, k, FALSE, FALSE)
  /\ \/ Asks(ts, tc, Message("[iv]", IvOf[c]))
     \/ IsAnswered(ts, tc) /\ u.iv = IvOf[c]

AtName(c, ts, tc, f, u, k) ==
  /\ f \in Fds /\ u.iv = IvOf[c]
  /\ \/ Asks(ts, tc, Message("[file_name]", FileOf[c].name)) /\ Holds(u, k, FALSE, FALSE)
     \/ IsAnswered(ts, tc) /\ Holds(u, k, TRUE, FALSE)

AtData(c, ts, tc, f, u, k, iv) ==
  /\ f \in Fds
  /\ \/ /\ Asks(ts, tc, Message("[file_size]", calculate_file_size(c)))
        /\ Holds(u, k, TRUE, FALSE) /\ u.iv = iv
     \/ Asks(ts, tc, Message("block", iv)) /\ Holds(u, k, TRUE, TRUE)
     \/ IsAnswered(ts, tc) /\ Holds(u, k, TRUE, TRUE) /\ u.iv = iv

AtEnd(ts, tc, f, u, k) ==
  \/ Asks(ts, tc, Message("EOT", 0)) /\ f \in Fds /\ Holds(u, k, TRUE, TRUE)
  \/ ts = << >> /\ tc = << >> /\ f = Closed

Left(ts, tc, f, u) ==
  /\ tc = << >>
  /\ ts = << >> \/ \E message : ts = <<message>>
  /\ f \in Fds => u.EOC_flag = FALSE

Dialogue(c, p, ts, tc, f, u, k, iv) ==
  /\ p = "start"  => ts = << >> /\ tc = << >> /\ f = NotAccepted
  /\ p = "key"    => AtKey(c, ts, tc, f, u)
  /\ p = "iv"     => AtIv(c, ts, tc, f, u, k)
  /\ p = "name"   => AtName(c, ts, tc, f, u, k)
  /\ p = "data"   => AtData(c, ts, tc, f, u, k, iv)
  /\ p = "end"    => AtEnd(ts, tc, f, u, k)
  /\ p = "done"   => ts = << >> /\ tc = << >> /\ f = Closed
  /\ p = "killed" => Left(ts, tc, f, u)

Talk(c) == Dialogue(c, pc[c], toServer[c], toClient[c], fd[c], users[fd[c]], rk[c], chain[c])

StepInv == Tables /\ Descriptors /\ \A c \in Clients : Talk(c)

-----------------------------------------------------------------------------
LEMMA FdsAreNumbers ==
  /\ Fds \subseteq Nat
  /\ NotAccepted \notin Fds /\ Closed \notin Fds /\ NotAccepted # Closed
BY EncryptedTransferAssumption DEF Fds, NotAccepted, Closed

(* A stream of one message. *)
LEMMA OneMessage ==
  ASSUME NEW message
  PROVE  /\ <<message>> # << >> /\ Head(<<message>>) = message /\ Tail(<<message>>) = << >>
         /\ Append(<< >>, message) = <<message>>
         /\ Len(<<message>>) = 1 /\ Len(<< >>) = 0
OBVIOUS

(* Both ends derive the same keys. *)
LEMMA SameSecret ==
  ASSUME NEW c \in Clients
  PROVE  generateRoundKeys(SharedKey(ServerKeyOf[c], KeyOf[c])) = Agreed(c)
BY AgreementAssumption DEF Agreed, SharedKey

(* A set of numbers has a least one. *)
LEMMA LeastNumber ==
  ASSUME NEW S \in SUBSET Nat, S # {}
  PROVE  Min(S) \in S /\ \A n \in S : Min(S) <= n
<1>1. PICK m \in S : \A n \in S : <<n, m>> \notin OpToRel(<, Nat)
  BY WFMin, NatLessThanWellFounded, Zenon
<1>2. \A n \in S : ~(n < m)
  BY <1>1, Zenon DEF OpToRel
<1>3. \A n \in S : m <= n
  BY <1>2
<1> QED
  BY <1>3 DEF Min

(* A client that waits leaves a descriptor free: there are as many as      *)
(* clients.                                                                *)
LEMMA SomeFdIsFree ==
  ASSUME Tables, NEW c \in Clients, fd[c] = NotAccepted
  PROVE  Min(Fds \ OpenFds) \in Fds \ OpenFds
<1>1. IsFiniteSet(Clients \ {c}) /\ Cardinality(Clients \ {c}) = Cardinality(Clients) - 1
  BY EncryptedTransferAssumption, FS_RemoveElement
<1>2. Cardinality(Clients) \in Nat /\ Cardinality(Clients) <= Slots /\ Slots \in Nat
  BY EncryptedTransferAssumption, FS_CardinalityType
<1>3. /\ IsFiniteSet({fd[d] : d \in Clients \ {c}})
      /\ Cardinality({fd[d] : d \in Clients \ {c}}) <= Cardinality(Clients \ {c})
  <2> DEFINE image == {fd[d] : d \in Clients \ {c}}
             g     == [d \in Clients \ {c} |-> fd[d]]
  <2>1. g \in Surjection(Clients \ {c}, image)
    BY DEF Surjection
  <2> HIDE DEF g
  <2> QED
    BY <1>1, <2>1, FS_Surjection
<1>4. OpenFds \subseteq {fd[d] : d \in Clients \ {c}}
  BY FdsAreNumbers DEF OpenFds
<1>5. IsFiniteSet(OpenFds) /\ Cardinality(OpenFds) < Slots /\ Cardinality(OpenFds) \in Nat
  <2>1. /\ IsFiniteSet(OpenFds)
        /\ Cardinality(OpenFds) <= Cardinality({fd[d] : d \in Clients \ {c}})
    BY <1>3, <1>4, FS_Subset
  <2>2. Cardinality({fd[d] : d \in Clients \ {c}}) \in Nat /\ Cardinality(OpenFds) \in Nat
    BY <1>3, <2>1, FS_CardinalityType
  <2> QED
    BY <1>1, <1>2, <1>3, <2>1, <2>2
<1>6. IsFiniteSet(Fds) /\ Cardinality(Fds) = Slots
  <2>1. /\ IsFiniteSet(5 .. Slots + 4)
        /\ Cardinality(5 .. Slots + 4) = IF 5 > Slots + 4 THEN 0 ELSE (Slots + 4) - 5 + 1
    <3>1. Slots + 4 \in Int /\ 5 \in Int
      BY <1>2
    <3> QED
      BY <3>1, FS_Interval, Zenon
  <2> QED
    BY <1>2, <2>1 DEF Fds
<1>7. Fds \ OpenFds # {}
  <2>1. SUFFICES ASSUME Fds \subseteq OpenFds PROVE FALSE
    OBVIOUS
  <2>2. Cardinality(Fds) <= Cardinality(OpenFds)
    BY <1>5, <2>1, FS_Subset
  <2> QED
    BY <1>2, <1>5, <1>6, <2>2
<1> QED
  BY <1>7, FdsAreNumbers, LeastNumber

(* The client of a descriptor is the one it belongs to. *)
LEMMA ClientOfFd ==
  ASSUME Tables, Descriptors, NEW f \in OpenFds
  PROVE  /\ ClientAt(f) \in Clients /\ fd[ClientAt(f)] = f /\ f \in Fds
BY DEF OpenFds, ClientAt

-----------------------------------------------------------------------------
(* A step of one client, or of the server for it, leaves the dialogues of  *)
(* the others where they are.                                              *)
OthersStay(c) ==
  \A d \in Clients \ {c} :
    /\ pc'[d] = pc[d] /\ toServer'[d] = toServer[d] /\ toClient'[d] = toClient[d]
    /\ rk'[d] = rk[d] /\ chain'[d] = chain[d] /\ fd'[d] = fd[d]
    /\ fd[d] \in Fds => users'[fd[d]] = users[fd[d]]

(* What an entry says matters only to a client with a descriptor. *)
LEMMA NoEntryNeeded ==
  ASSUME NEW c, NEW p, NEW ts, NEW tc, NEW f, f \notin Fds, NEW u, NEW v, NEW k, NEW iv,
         Dialogue(c, p, ts, tc, f, u, k, iv)
  PROVE  Dialogue(c, p, ts, tc, f, v, k, iv)
BY DEF Dialogue, AtKey, AtIv, AtName, AtData, AtEnd, Left

LEMMA OthersTalk ==
  ASSUME StepInv, NEW c \in Clients, OthersStay(c), Talk(c)'
  PROVE  \A d \in Clients : Talk(d)'
<1> SUFFICES ASSUME NEW d \in Clients \ {c}  PROVE Talk(d)'
  OBVIOUS
<1>1. Dialogue(d, pc[d], toServer[d], toClient[d], fd[d], users[fd[d]], rk[d], chain[d])
  BY DEF StepInv, Talk
<1>2. /\ pc'[d] = pc[d] /\ toServer'[d] = toServer[d] /\ toClient'[d] = toClient[d]
      /\ rk'[d] = rk[d] /\ chain'[d] = chain[d] /\ fd'[d] = fd[d]
      /\ fd[d] \in Fds => users'[fd[d]] = users[fd[d]]
  BY DEF OthersStay
<1>3. Dialogue(d, pc[d], toServer[d], toClient[d], fd[d], users'[fd[d]], rk[d], chain[d])
  BY <1>1, <1>2, NoEntryNeeded, Zenon
<1> QED
  BY <1>2, <1>3 DEF Talk

(* Nobody is accepted, waits or gets a descriptor by a step that leaves    *)
(* the backlog alone and descriptors only closes.                          *)
LEMMA DescriptorsStay ==
  ASSUME Tables, Descriptors, UNCHANGED backlog,
         \A d \in Clients : /\ fd'[d] = fd[d] \/ (fd[d] # NotAccepted /\ fd'[d] = Closed)
                            /\ pc[d] # "start" => pc'[d] # "start"
  PROVE  Descriptors'
<1>1. \A i \in 1..Len(backlog) : backlog[i] \in Clients
  BY ElementOfSeq DEF Descriptors
<1>2. \A i \in 1..Len(backlog) : fd'[backlog[i]] = NotAccepted /\ pc'[backlog[i]] # "start"
  BY <1>1 DEF Descriptors
<1>3. \A c, d \in Clients : fd'[c] \in Fds /\ fd'[c] = fd'[d] => c = d
  BY FdsAreNumbers DEF Descriptors
<1> QED
  BY <1>2, <1>3 DEF Descriptors

LEMMA InitStepInv == Init => StepInv
<1> SUFFICES ASSUME Init  PROVE StepInv
  OBVIOUS
<1>1. Tables
  <2>1. \A f \in Fds : users[f] = NewUser("")
    BY Zenon DEF Init
  <2>2. DOMAIN NewUser("") = Fields
    BY DEF NewUser, Fields
  <2>5. pc = [c \in Clients |-> "start"] /\ fd = [c \in Clients |-> NotAccepted]
    BY Zenon DEF Init
  <2>3. pc \in [Clients -> PCs] /\ fd \in [Clients -> Fds \cup {NotAccepted, Closed}]
    BY <2>5 DEF PCs
  <2>4. /\ DOMAIN toServer = Clients /\ DOMAIN toClient = Clients
        /\ DOMAIN rk = Clients /\ DOMAIN chain = Clients /\ DOMAIN users = Fds
    BY Zenon DEF Init
  <2>6. \A f \in Fds : DOMAIN users[f] = Fields
    BY <2>1, <2>2, Zenon
  <2> QED
    BY <2>3, <2>4, <2>6 DEF Tables
<1>2. Descriptors
  <2>1. backlog = << >> /\ \A c \in Clients : fd[c] \notin Fds
    BY FdsAreNumbers, Zenon DEF Init
  <2>2. << >> \in Seq(Clients) /\ Len(<< >>) = 0
    OBVIOUS
  <2> QED
    BY <2>1, <2>2 DEF Descriptors
<1>3. \A c \in Clients : Talk(c)
  <2> SUFFICES ASSUME NEW c \in Clients  PROVE Talk(c)
    OBVIOUS
  <2>1. /\ pc[c] = "start" /\ fd[c] = NotAccepted
        /\ toServer[c] = << >> /\ toClient[c] = << >>
    BY Zenon DEF Init
  <2> QED
    BY <2>1 DEF Talk, Dialogue
<1> QED
  BY <1>1, <1>2, <1>3 DEF StepInv

-----------------------------------------------------------------------------
(* The client: each step takes the answer that is there and asks the next. *)

(* What a client finds where it goes on.                                   *)
LEMMA AnswerIsThere ==
  ASSUME NEW ts, NEW tc, NEW message, Asks(ts, tc, message), tc # << >>
  PROVE  FALSE
BY DEF Asks

(* A step of the client c that puts one message on the wire. *)
ClientAsks(c, p, message) ==
  /\ pc' = [pc EXCEPT ![c] = p] /\ p \in PCs \ {"start"}
  /\ toServer[c] = << >>
  /\ toServer' = [toServer EXCEPT ![c] = Append(@, message)]
  /\ UNCHANGED <<users, fd>>
  /\ DOMAIN rk' = Clients /\ DOMAIN chain' = Clients
  /\ \A d \in Clients \ {c} : rk'[d] = rk[d] /\ chain'[d] = chain[d]

LEMMA AskStep ==
  ASSUME StepInv, NEW c \in Clients, NEW p, NEW message, ClientAsks(c, p, message),
         \/ toClient' = [toClient EXCEPT ![c] = Tail(@)] /\ IsAnswered(toServer[c], toClient[c])
         \/ UNCHANGED toClient /\ toClient[c] = << >>
  PROVE  /\ Tables' /\ OthersStay(c) /\ pc'[c] = p
         /\ Asks(toServer'[c], toClient'[c], message)
<1> USE DEF StepInv, ClientAsks
<1>1. toServer'[c] = <<message>>
  BY OneMessage DEF Tables
<1>2. toClient'[c] = << >>
  BY OneMessage DEF Tables, IsAnswered
<1>3. Tables'
  BY DEF Tables
<1>4. OthersStay(c)
  BY DEF Tables, OthersStay
<1> QED
  BY <1>1, <1>2, <1>3, <1>4 DEF Asks, Tables

(* Where the dialogue of a client that goes on is. *)
LEMMA TalkAt ==
  ASSUME StepInv, NEW c \in Clients
  PROVE  Dialogue(c, pc[c], toServer[c], toClient[c], fd[c], users[fd[c]], rk[c], chain[c])
BY DEF StepInv, Talk

LEMMA StaysInStep ==
  ASSUME StepInv, NEW c \in Clients, Tables', OthersStay(c), Talk(c)', UNCHANGED <<backlog, fd>>,
         pc[c] # "start" => pc'[c] # "start"
  PROVE  StepInv'
<1>1. \A d \in Clients : pc[d] # "start" => pc'[d] # "start"
  BY DEF OthersStay
<1>2. Descriptors'
  BY <1>1, DescriptorsStay DEF StepInv
<1> QED
  BY <1>2, OthersTalk DEF StepInv

LEMMA ConnectStep ==
  ASSUME StepInv, NEW c \in Clients, Connect(c)
  PROVE  StepInv'
<1> DEFINE m == Message("[public_key]", KeyOf[c])
<1>1. pc[c] = "start" /\ UNCHANGED <<rk, chain, toClient, fd, users>>
  BY DEF Connect, Started
<1>2. toServer[c] = << >> /\ toClient[c] = << >> /\ fd[c] = NotAccepted
  BY <1>1, TalkAt DEF Dialogue
<1>3. ClientAsks(c, "key", m)
  BY <1>1, <1>2 DEF Connect, Send, ClientAsks, PCs, StepInv, Tables
<1> HIDE DEF m
<1>4. Tables' /\ OthersStay(c) /\ pc'[c] = "key" /\ Asks(toServer'[c], toClient'[c], m)
  BY <1>1, <1>2, <1>3, AskStep, Zenon
<1>5. fd'[c] \notin Fds
  BY <1>1, <1>2, FdsAreNumbers
<1>6. Talk(c)'
  BY <1>4, <1>5 DEF Talk, Dialogue, AtKey, m
<1>7. Descriptors'
  <2>1. backlog' = Append(backlog, c) /\ backlog \in Seq(Clients)
    BY DEF Connect, StepInv, Descriptors
  <2>2. /\ Len(backlog') = Len(backlog) + 1 /\ Len(backlog) \in Nat
        /\ \A i \in 1..Len(backlog) : backlog'[i] = backlog[i] /\ backlog[i] \in Clients
        /\ backlog'[Len(backlog) + 1] = c
        /\ backlog' \in Seq(Clients)
    BY <2>1, AppendProperties, LenProperties, ElementOfSeq
  <2>3. \A i \in 1..Len(backlog') : i \in 1..Len(backlog) \/ i = Len(backlog) + 1
    BY <2>2
  <2>4. \A i \in 1..Len(backlog) : backlog[i] # c /\ pc'[backlog[i]] # "start"
    BY <1>1, <1>4, <2>2 DEF StepInv, Descriptors, OthersStay
  <2>5. \A i \in 1..Len(backlog') : fd'[backlog'[i]] = NotAccepted /\ pc'[backlog'[i]] # "start"
    BY <1>1, <1>2, <1>4, <2>2, <2>3, <2>4 DEF StepInv, Descriptors
  <2>6. \A i, j \in 1..Len(backlog') : backlog'[i] = backlog'[j] => i = j
    BY <2>2, <2>3, <2>4 DEF StepInv, Descriptors
  <2> QED
    BY <1>1, <2>2, <2>5, <2>6 DEF StepInv, Descriptors
<1> QED
  BY <1>4, <1>6, <1>7, OthersTalk DEF StepInv

LEMMA TakeKeyStep ==
  ASSUME StepInv, NEW c \in Clients, TakeKey(c)
  PROVE  StepInv'
<1> DEFINE m == Message("[iv]", IvOf[c])
<1>1. pc[c] = "key" /\ toClient[c] # << >> /\ UNCHANGED <<chain, fd, users, backlog>>
  BY DEF TakeKey, Answered, serverVars
<1>2. /\ toServer[c] = << >> /\ toClient[c] = <<Message("[public_key]", ServerKeyOf[c])>>
      /\ fd[c] \in Fds /\ Holds(users[fd[c]], Agreed(c), FALSE, FALSE)
  BY <1>1, TalkAt DEF Dialogue, AtKey, Asks
<1>3. rk' = [rk EXCEPT ![c] = Agreed(c)]
  <2>1. Head(toClient[c]).value = ServerKeyOf[c]
    BY <1>2, OneMessage DEF Message
  <2> QED
    BY <2>1, Zenon DEF TakeKey, Agreed
<1>4. ClientAsks(c, "iv", m)
  BY <1>1, <1>2, <1>3 DEF TakeKey, Send, ClientAsks, PCs, StepInv, Tables
<1> HIDE DEF m
<1>5. toClient' = [toClient EXCEPT ![c] = Tail(@)] /\ IsAnswered(toServer[c], toClient[c])
  BY <1>2 DEF TakeKey, Receive, IsAnswered
<1>6. Tables' /\ OthersStay(c) /\ pc'[c] = "iv" /\ Asks(toServer'[c], toClient'[c], m)
  BY <1>4, <1>5, AskStep, Zenon
<1>7. rk'[c] = Agreed(c)
  BY <1>3 DEF StepInv, Tables
<1>8. Talk(c)'
  BY <1>1, <1>2, <1>6, <1>7 DEF Talk, Dialogue, AtIv, m
<1> QED
  BY <1>1, <1>6, <1>8, StaysInStep

LEMMA SendNameStep ==
  ASSUME StepInv, NEW c \in Clients, SendName(c)
  PROVE  StepInv'
<1> DEFINE m == Message("[file_name]", FileOf[c].name)
<1>1. pc[c] = "iv" /\ toClient[c] # << >> /\ UNCHANGED <<rk, chain, fd, users, backlog>>
  BY DEF SendName, Answered, serverVars
<1>2. /\ IsAnswered(toServer[c], toClient[c]) /\ users[fd[c]].iv = IvOf[c]
      /\ fd[c] \in Fds /\ Holds(users[fd[c]], rk[c], FALSE, FALSE)
  BY <1>1, TalkAt DEF Dialogue, AtIv, Asks
<1>4. ClientAsks(c, "name", m)
  BY <1>1, <1>2 DEF SendName, Send, ClientAsks, PCs, StepInv, Tables, IsAnswered
<1> HIDE DEF m
<1>5. toClient' = [toClient EXCEPT ![c] = Tail(@)]
  BY DEF SendName, Receive
<1>6. Tables' /\ OthersStay(c) /\ pc'[c] = "name" /\ Asks(toServer'[c], toClient'[c], m)
  BY <1>2, <1>4, <1>5, AskStep, Zenon
<1>8. Talk(c)'
  BY <1>1, <1>2, <1>6 DEF Talk, Dialogue, AtName, m
<1> QED
  BY <1>1, <1>6, <1>8, StaysInStep

LEMMA SendSizeStep ==
  ASSUME StepInv, NEW c \in Clients, SendSize(c)
  PROVE  StepInv'
<1> DEFINE m == Message("[file_size]", calculate_file_size(c))
<1>1. pc[c] = "name" /\ toClient[c] # << >> /\ UNCHANGED <<rk, fd, users, backlog>>
  BY DEF SendSize, Answered, serverVars
<1>2. /\ IsAnswered(toServer[c], toClient[c]) /\ users[fd[c]].iv = IvOf[c]
      /\ fd[c] \in Fds /\ Holds(users[fd[c]], rk[c], TRUE, FALSE)
  BY <1>1, TalkAt DEF Dialogue, AtName, Asks
<1>3. chain' = [chain EXCEPT ![c] = IvOf[c]]
  BY DEF SendSize
<1>4. ClientAsks(c, "data", m)
  BY <1>1, <1>2, <1>3 DEF SendSize, Send, ClientAsks, PCs, StepInv, Tables, IsAnswered
<1> HIDE DEF m
<1>5. toClient' = [toClient EXCEPT ![c] = Tail(@)]
  BY DEF SendSize, Receive
<1>6. Tables' /\ OthersStay(c) /\ pc'[c] = "data" /\ Asks(toServer'[c], toClient'[c], m)
  BY <1>2, <1>4, <1>5, AskStep, Zenon
<1>7. chain'[c] = IvOf[c]
  BY <1>3 DEF StepInv, Tables
<1>8. Talk(c)'
  BY <1>1, <1>2, <1>6, <1>7 DEF Talk, Dialogue, AtData, m
<1> QED
  BY <1>1, <1>6, <1>8, StaysInStep

(* A client that sends its file and has an answer is where the server is.  *)
LEMMA BetweenBlocks ==
  ASSUME StepInv, NEW c \in Clients, pc[c] = "data", toClient[c] # << >>
  PROVE  /\ IsAnswered(toServer[c], toClient[c]) /\ users[fd[c]].iv = chain[c]
         /\ fd[c] \in Fds /\ Holds(users[fd[c]], rk[c], TRUE, TRUE)
BY TalkAt DEF Dialogue, AtData, Asks

LEMMA EncryptStep ==
  ASSUME StepInv, NEW c \in Clients, CBC_encrypt(c)
  PROVE  StepInv'
<1>1. PICK written :
        /\ Send(c, Message("block", written))
        /\ chain' = [chain EXCEPT ![c] = written]
  BY DEF CBC_encrypt
<1> DEFINE m == Message("block", written)
<1>2. /\ pc[c] = "data" /\ toClient[c] # << >> /\ UNCHANGED <<pc, rk, fd, users, backlog>>
      /\ toClient' = [toClient EXCEPT ![c] = Tail(@)]
  BY DEF CBC_encrypt, Answered, Receive, serverVars
<1>3. /\ IsAnswered(toServer[c], toClient[c])
      /\ fd[c] \in Fds /\ Holds(users[fd[c]], rk[c], TRUE, TRUE)
  BY <1>2, BetweenBlocks
<1>4. ClientAsks(c, "data", m)
  BY <1>1, <1>2, <1>3 DEF Send, ClientAsks, PCs, StepInv, Tables, IsAnswered
<1> HIDE DEF m
<1>6. Tables' /\ OthersStay(c) /\ pc'[c] = "data" /\ Asks(toServer'[c], toClient'[c], m)
  BY <1>2, <1>3, <1>4, AskStep, Zenon
<1>7. chain'[c] = written
  BY <1>1 DEF StepInv, Tables
<1>8. Talk(c)'
  BY <1>2, <1>3, <1>6, <1>7 DEF Talk, Dialogue, AtData, m
<1> QED
  BY <1>2, <1>6, <1>8, StaysInStep

LEMMA EndTextStep ==
  ASSUME StepInv, NEW c \in Clients, EndText(c)
  PROVE  StepInv'
<1> DEFINE m == Message("EOT", 0)
<1>1. pc[c] = "data" /\ toClient[c] # << >> /\ UNCHANGED <<rk, chain, fd, users, backlog>>
  BY DEF EndText, Answered, serverVars
<1>2. /\ IsAnswered(toServer[c], toClient[c])
      /\ fd[c] \in Fds /\ Holds(users[fd[c]], rk[c], TRUE, TRUE)
  BY <1>1, BetweenBlocks
<1>4. ClientAsks(c, "end", m)
  BY <1>1, <1>2 DEF EndText, Send, ClientAsks, PCs, StepInv, Tables, IsAnswered
<1> HIDE DEF m
<1>5. toClient' = [toClient EXCEPT ![c] = Tail(@)]
  BY DEF EndText, Receive
<1>6. Tables' /\ OthersStay(c) /\ pc'[c] = "end" /\ Asks(toServer'[c], toClient'[c], m)
  BY <1>2, <1>4, <1>5, AskStep, Zenon
<1>8. Talk(c)'
  BY <1>1, <1>2, <1>6 DEF Talk, Dialogue, AtEnd, m
<1> QED
  BY <1>1, <1>6, <1>8, StaysInStep

LEMMA LeaveStep ==
  ASSUME StepInv, NEW c \in Clients, Leave(c)
  PROVE  StepInv'
<1>1. /\ pc[c] = "end" /\ fd[c] = Closed /\ pc' = [pc EXCEPT ![c] = "done"]
      /\ UNCHANGED <<rk, chain, fd, users, backlog, toServer, toClient>>
  BY DEF Leave, serverVars
<1>2. toServer[c] = << >> /\ toClient[c] = << >>
  BY <1>1, TalkAt, FdsAreNumbers DEF Dialogue, AtEnd
<1>3. Tables' /\ OthersStay(c) /\ pc'[c] = "done"
  BY <1>1 DEF StepInv, Tables, PCs, OthersStay
<1>4. Talk(c)'
  BY <1>1, <1>2, <1>3 DEF Talk, Dialogue
<1> QED
  BY <1>1, <1>3, <1>4, StaysInStep

(* Whatever a client was about, there is at most one message of it, and    *)
(* its entry is not at the end of the text.                                *)
LEMMA LittleIsLeft ==
  ASSUME StepInv, NEW c \in Clients
  PROVE  /\ toServer[c] = << >> \/ \E message : toServer[c] = <<message>>
         /\ fd[c] \in Fds => users[fd[c]].EOC_flag = FALSE
<1>1. pc[c] \in PCs
  BY DEF StepInv, Tables
<1>2. Dialogue(c, pc[c], toServer[c], toClient[c], fd[c], users[fd[c]], rk[c], chain[c])
  BY TalkAt
<1>3. NotAccepted \notin Fds /\ Closed \notin Fds
  BY FdsAreNumbers
<1> DEFINE Goal == /\ toServer[c] = << >> \/ \E message : toServer[c] = <<message>>
                   /\ fd[c] \in Fds => users[fd[c]].EOC_flag = FALSE
<1>4. CASE pc[c] \in {"start", "done"}
  BY <1>2, <1>3, <1>4 DEF Dialogue
<1>5. CASE pc[c] = "key"
  BY <1>2, <1>5 DEF Dialogue, AtKey, Asks, Holds, Flags
<1>6. CASE pc[c] = "iv"
  BY <1>2, <1>6 DEF Dialogue, AtIv, Asks, IsAnswered, Holds, Flags
<1>7. CASE pc[c] = "name"
  BY <1>2, <1>7 DEF Dialogue, AtName, Asks, IsAnswered, Holds, Flags
<1>8. CASE pc[c] = "data"
  BY <1>2, <1>8 DEF Dialogue, AtData, Asks, IsAnswered, Holds, Flags
<1>9. CASE pc[c] = "end"
  BY <1>2, <1>3, <1>9 DEF Dialogue, AtEnd, Asks, Holds, Flags
<1>10. CASE pc[c] = "killed"
  BY <1>2, <1>10 DEF Dialogue, Left
<1> QED
  BY <1>1, <1>4, <1>5, <1>6, <1>7, <1>8, <1>9, <1>10 DEF PCs

LEMMA KillStep ==
  ASSUME StepInv, NEW c \in Clients, Kill(c)
  PROVE  StepInv'
<1>1. /\ pc' = [pc EXCEPT ![c] = "killed"] /\ toClient' = [toClient EXCEPT ![c] = << >>]
      /\ UNCHANGED <<fd, users, backlog, toServer>>
      /\ rk' = [rk EXCEPT ![c] = << >>] /\ chain' = [chain EXCEPT ![c] = << >>]
  BY DEF Kill, serverVars
<1>2. /\ Tables' /\ OthersStay(c) /\ pc'[c] = "killed" /\ toClient'[c] = << >>
  BY <1>1 DEF StepInv, Tables, PCs, OthersStay
<1>3. Talk(c)'
  BY <1>1, <1>2, LittleIsLeft DEF Talk, Dialogue, Left
<1> QED
  BY <1>1, <1>2, <1>3, StaysInStep

-----------------------------------------------------------------------------
(* The server: it accepts a client, or serves the one of a descriptor.     *)

LEMMA AcceptStep ==
  ASSUME StepInv, register_new_client
  PROVE  StepInv'
<1>1. PICK c \in Clients : /\ backlog \in Seq(Clients) /\ backlog # << >> /\ c = Head(backlog)
                          /\ c = backlog[1] /\ 1 \in 1..Len(backlog) /\ Len(backlog) \in Nat
  <2>1. backlog \in Seq(Clients) /\ backlog # << >>
    BY DEF register_new_client, StepInv, Descriptors
  <2> QED
    BY <2>1, HeadTailProperties, LenProperties, ElementOfSeq
<1>2. fd[c] = NotAccepted /\ pc[c] # "start"
  BY <1>1 DEF StepInv, Descriptors
<1>3. PICK f \in Fds : f = Min(Fds \ OpenFds) /\ \A d \in Clients : fd[d] # f
  <2>1. Min(Fds \ OpenFds) \in Fds \ OpenFds
    BY <1>1, <1>2, SomeFdIsFree DEF StepInv
  <2> QED
    BY <2>1 DEF OpenFds
<1> DEFINE u == [NewUser(FileOf[c].ip) EXCEPT !.server_key = ServerKeyOf[c]]
<1>4. /\ fd' = [fd EXCEPT ![c] = f] /\ users' = [users EXCEPT ![f] = u]
      /\ backlog' = Tail(backlog)
      /\ UNCHANGED <<pc, rk, chain, toServer, toClient>>
  BY <1>1, <1>3, Zenon DEF register_new_client, clientVars
<1>5. DOMAIN u = Fields /\ Flags(u, FALSE, FALSE, FALSE) /\ u.server_key = ServerKeyOf[c]
  BY DEF NewUser, Fields, Flags
<1> HIDE DEF u
<1>6. Tables' /\ OthersStay(c) /\ fd'[c] = f /\ users'[f] = u
  BY <1>1, <1>3, <1>4, <1>5 DEF StepInv, Tables, OthersStay
<1>7. Talk(c)'
  <2>1. Dialogue(c, pc[c], toServer[c], toClient[c], fd[c], users[fd[c]], rk[c], chain[c])
    BY <1>1, TalkAt
  <2>2. pc[c] \notin {"start", "iv", "name", "data", "end", "done"}
    BY <1>2, <2>1, FdsAreNumbers DEF Dialogue, AtIv, AtName, AtData, AtEnd
  <2>3. Dialogue(c, pc[c], toServer[c], toClient[c], f, u, rk[c], chain[c])
    BY <1>2, <1>5, <2>1, <2>2, FdsAreNumbers DEF Dialogue, AtKey, Left, Flags
  <2> QED
    BY <1>4, <1>6, <2>3 DEF Talk
<1>8. Descriptors'
  <2>1. /\ backlog' \in Seq(Clients) /\ Len(backlog') = Len(backlog) - 1
        /\ \A i \in 1..Len(backlog') : backlog'[i] = backlog[i + 1]
    BY <1>1, <1>4, HeadTailProperties
  <2>2. \A i \in 1..Len(backlog') : i + 1 \in 1..Len(backlog) /\ i + 1 # 1
    BY <1>1, <2>1
  <2>3. \A i \in 1..Len(backlog') : backlog'[i] \in Clients \ {c}
    BY <1>1, <2>1, <2>2, ElementOfSeq DEF StepInv, Descriptors
  <2>4. \A i \in 1..Len(backlog') : fd'[backlog'[i]] = NotAccepted /\ pc'[backlog'[i]] # "start"
    <3> SUFFICES ASSUME NEW i \in 1..Len(backlog')
                 PROVE  fd'[backlog'[i]] = NotAccepted /\ pc'[backlog'[i]] # "start"
      OBVIOUS
    <3>1. \A k \in 1..Len(backlog) : fd[backlog[k]] = NotAccepted /\ pc[backlog[k]] # "start"
      BY DEF StepInv, Descriptors
    <3>2. backlog'[i] = backlog[i + 1] /\ i + 1 \in 1..Len(backlog)
      BY <2>1, <2>2
    <3>3. fd[backlog'[i]] = NotAccepted /\ pc[backlog'[i]] # "start"
      BY <3>1, <3>2
    <3>4. backlog'[i] \in Clients \ {c}
      BY <2>3
    <3> QED
      BY <1>6, <3>3, <3>4 DEF OthersStay
  <2>5. \A i, j \in 1..Len(backlog') : backlog'[i] = backlog'[j] => i = j
    <3> SUFFICES ASSUME NEW i \in 1..Len(backlog'), NEW j \in 1..Len(backlog'),
                        backlog'[i] = backlog'[j]
                 PROVE  i = j
      OBVIOUS
    <3>1. /\ i + 1 \in 1..Len(backlog) /\ j + 1 \in 1..Len(backlog)
          /\ backlog[i + 1] = backlog[j + 1]
      BY <2>1, <2>2
    <3>2. \A k, l \in 1..Len(backlog) : backlog[k] = backlog[l] => k = l
      BY DEF StepInv, Descriptors
    <3>3. i + 1 = j + 1
      BY <3>1, <3>2, Zenon
    <3> QED
      BY <1>1, <2>1, <3>3
  <2>6. \A d, e \in Clients : fd'[d] \in Fds /\ fd'[d] = fd'[e] => d = e
    <3>1. \A d, e \in Clients : fd[d] \in Fds /\ fd[d] = fd[e] => d = e
      BY DEF StepInv, Descriptors
    <3>2. fd'[c] = f /\ \A d \in Clients \ {c} : fd'[d] = fd[d]
      BY <1>6 DEF OthersStay
    <3> QED
      BY <1>3, <3>1, <3>2
  <2> QED
    BY <2>1, <2>4, <2>5, <2>6, Zenon DEF Descriptors
<1> QED
  BY <1>1, <1>6, <1>7, <1>8, OthersTalk DEF StepInv

(* What the message can be that the server finds, by what it knows of the  *)
(* client.                                                                 *)
LEMMA WhoAsks ==
  ASSUME StepInv, NEW c \in Clients, fd[c] \in Fds, toServer[c] # << >>, pc[c] # "killed"
  PROVE  LET ts == toServer[c]
             tc == toClient[c]
             u  == users[fd[c]]
         IN \/ /\ pc[c] = "key" /\ Asks(ts, tc, Message("[public_key]", KeyOf[c]))
               /\ Flags(u, FALSE, FALSE, FALSE) /\ u.server_key = ServerKeyOf[c]
            \/ /\ pc[c] = "iv" /\ Asks(ts, tc, Message("[iv]", IvOf[c]))
               /\ Holds(u, rk[c], FALSE, FALSE)
            \/ /\ pc[c] = "name" /\ Asks(ts, tc, Message("[file_name]", FileOf[c].name))
               /\ Holds(u, rk[c], FALSE, FALSE) /\ u.iv = IvOf[c]
            \/ /\ pc[c] = "data" /\ Asks(ts, tc, Message("[file_size]", calculate_file_size(c)))
               /\ Holds(u, rk[c], TRUE, FALSE) /\ u.iv = chain[c]
            \/ /\ pc[c] = "data" /\ Asks(ts, tc, Message("block", chain[c]))
               /\ Holds(u, rk[c], TRUE, TRUE)
            \/ /\ pc[c] = "end" /\ Asks(ts, tc, Message("EOT", 0))
               /\ Holds(u, rk[c], TRUE, TRUE)
<1>1. pc[c] \in PCs
  BY DEF StepInv, Tables
<1>2. Dialogue(c, pc[c], toServer[c], toClient[c], fd[c], users[fd[c]], rk[c], chain[c])
  BY TalkAt
<1>3. pc[c] # "start" /\ pc[c] # "done"
  BY <1>2, FdsAreNumbers DEF Dialogue
<1>4. CASE pc[c] = "key"
  BY <1>2, <1>4 DEF Dialogue, AtKey
<1>5. CASE pc[c] = "iv"
  BY <1>2, <1>5 DEF Dialogue, AtIv, IsAnswered
<1>6. CASE pc[c] = "name"
  BY <1>2, <1>6 DEF Dialogue, AtName, IsAnswered
<1>7. CASE pc[c] = "data"
  BY <1>2, <1>7 DEF Dialogue, AtData, IsAnswered
<1>8. CASE pc[c] = "end"
  BY <1>2, <1>8 DEF Dialogue, AtEnd
<1> QED
  BY <1>1, <1>3, <1>4, <1>5, <1>6, <1>7, <1>8 DEF PCs

(* The server has taken a message of c and made v of its entry. *)
Served(c, v) ==
  /\ UNCHANGED <<pc, rk, chain, backlog, fd>>
  /\ toServer' = [toServer EXCEPT ![c] = Tail(@)]
  /\ users' = [users EXCEPT ![fd[c]] = v] /\ DOMAIN v = Fields

LEMMA ServedStep ==
  ASSUME StepInv, NEW c \in Clients, fd[c] \in Fds, toServer[c] # << >>,
         NEW v, Served(c, v), NEW message, Answer(c, message),
         pc[c] = "killed" => v.EOC_flag = FALSE,
         pc[c] # "killed" /\ toClient[c] = << >> =>
           Dialogue(c, pc[c], << >>, <<message>>, fd[c], v, rk[c], chain[c])
  PROVE  StepInv'
<1>1. toServer'[c] = << >>
  <2>1. PICK m : toServer[c] = <<m>>
    BY LittleIsLeft
  <2> QED
    BY <2>1, OneMessage DEF Served, StepInv, Tables
<1>2. Tables' /\ OthersStay(c) /\ users'[fd[c]] = v /\ pc' = pc
  <2>1. Tables'
    BY DEF Served, Answer, StepInv, Tables
  <2>2. \A d \in Clients \ {c} : fd[d] # fd[c]
    BY DEF StepInv, Descriptors
  <2> QED
    BY <2>1, <2>2 DEF Served, Answer, StepInv, Tables, OthersStay
<1>3. CASE pc[c] = "killed"
  <2>1. toClient'[c] = toClient[c] /\ toClient[c] = << >>
    BY <1>3, TalkAt DEF Answer, StepInv, Tables, Dialogue, Left
  <2>2. Talk(c)'
    BY <1>1, <1>2, <1>3, <2>1 DEF Served, Talk, Dialogue, Left
  <2> QED
    BY <1>2, <2>2, StaysInStep DEF Served
<1>4. CASE pc[c] # "killed"
  <2>1. toClient[c] = << >>
    BY <1>4, WhoAsks DEF Asks
  <2>2. toClient'[c] = <<message>>
    BY <1>4, <2>1, OneMessage DEF Answer, StepInv, Tables
  <2>3. Dialogue(c, pc[c], << >>, <<message>>, fd[c], v, rk[c], chain[c])
    BY <1>4, <2>1
  <2>4. Talk(c)'
    BY <1>1, <1>2, <2>2, <2>3 DEF Served, Talk
  <2> QED
    BY <1>2, <2>4, StaysInStep DEF Served
<1> QED
  BY <1>3, <1>4

LEMMA ServeBlockStep ==
  ASSUME StepInv, NEW f \in OpenFds, ServeBlock(f)
  PROVE  StepInv'
<1> DEFINE c == ClientAt(f)
           u == users[f]
           in == Incoming(f)
           v == CBC_decrypt(u, in.value)
<1>1. c \in Clients /\ fd[c] = f /\ f \in Fds
  BY ClientOfFd DEF StepInv
<1>2. /\ toServer[c] # << >> /\ in = Head(toServer[c]) /\ in.tag # "EOT" /\ ExpectsText(u)
      /\ Answer(c, Message("ACK", 0))
  BY DEF ServeBlock, Readable, Incoming
<1>3. users' = [users EXCEPT ![f] = v]
  BY Zenon DEF ServeBlock
<1>4. /\ UNCHANGED <<pc, rk, chain, backlog, fd>>
      /\ toServer' = [toServer EXCEPT ![c] = Tail(@)]
  BY Zenon DEF ServeBlock, clientVars, Consume
<1>5. DOMAIN u = Fields
  BY <1>1 DEF StepInv, Tables
<1>6. /\ DOMAIN v = Fields /\ v.iv = in.value /\ v.rrk = u.rrk
      /\ v.key_flag = u.key_flag /\ v.file_name_flag = u.file_name_flag
      /\ v.file_size_flag = u.file_size_flag /\ v.EOC_flag = u.EOC_flag
  BY <1>5 DEF CBC_decrypt, Fields
<1> HIDE DEF c, u, in, v
<1>7. Served(c, v)
  BY <1>1, <1>3, <1>4, <1>6 DEF Served
<1>8. v.EOC_flag = FALSE
  BY <1>2, <1>6 DEF ExpectsText
<1>9. ASSUME pc[c] # "killed", toClient[c] = << >>
      PROVE  Dialogue(c, pc[c], << >>, <<Message("ACK", 0)>>, fd[c], v, rk[c], chain[c])
  <2>1. u = users[fd[c]]
    BY <1>1 DEF u
  <2>2. /\ pc[c] = "data" /\ toServer[c] = <<Message("block", chain[c])>>
        /\ Holds(u, rk[c], TRUE, TRUE)
    <3>1. u.key_flag /\ u.file_name_flag /\ u.file_size_flag
      BY <1>2 DEF ExpectsText
    <3>2. /\ ~Flags(u, FALSE, FALSE, FALSE)
          /\ ~Holds(u, rk[c], FALSE, FALSE) /\ ~Holds(u, rk[c], TRUE, FALSE)
      BY <3>1, Zenon DEF Holds, Flags
    <3>3. ~Asks(toServer[c], toClient[c], Message("EOT", 0))
      BY <1>2, OneMessage DEF Asks, Message
    <3> QED
      BY <1>1, <1>2, <1>9, <2>1, <3>2, <3>3, WhoAsks DEF Asks
  <2>3. in.value = chain[c]
    BY <1>2, <2>2, OneMessage DEF Message
  <2>4. Holds(v, rk[c], TRUE, TRUE) /\ v.iv = chain[c]
    BY <1>6, <2>2, <2>3 DEF Holds, Flags
  <2> QED
    BY <1>1, <2>2, <2>4 DEF Dialogue, AtData, IsAnswered
<1> QED
  BY <1>1, <1>2, <1>7, <1>8, <1>9, ServedStep

LEMMA ServeKeyStep ==
  ASSUME StepInv, NEW f \in OpenFds, ServeKey(f)
  PROVE  StepInv'
<1> DEFINE c == ClientAt(f)
           u == users[f]
           in == Incoming(f)
           key == IF in.tag = "[public_key]" THEN SharedKey(u.server_key, in.value) ELSE << >>
           v == [u EXCEPT !.key_flag = TRUE,
                          !.rrk = generateReverseRoundKeys(generateRoundKeys(key))]
           m == Message("[public_key]", u.server_key)
<1>1. c \in Clients /\ fd[c] = f /\ f \in Fds
  BY ClientOfFd DEF StepInv
<1>2. /\ toServer[c] # << >> /\ in = Head(toServer[c]) /\ ~u.key_flag /\ Answer(c, m)
  BY DEF ServeKey, Readable, Incoming
<1>3. users' = [users EXCEPT ![f] = v]
  BY <1>1 DEF ServeKey, StepInv, Tables
<1>4. /\ UNCHANGED <<pc, rk, chain, backlog, fd>>
      /\ toServer' = [toServer EXCEPT ![c] = Tail(@)]
  BY Zenon DEF ServeKey, clientVars, Consume
<1>5. DOMAIN u = Fields
  BY <1>1 DEF StepInv, Tables
<1>6. /\ DOMAIN v = Fields /\ v.key_flag = TRUE
      /\ v.rrk = generateReverseRoundKeys(generateRoundKeys(key))
      /\ v.file_name_flag = u.file_name_flag
      /\ v.file_size_flag = u.file_size_flag /\ v.EOC_flag = u.EOC_flag
  BY <1>5 DEF Fields
<1> HIDE DEF c, u, in, v, key
<1>7. Served(c, v)
  BY <1>1, <1>3, <1>4, <1>6 DEF Served
<1>8. v.EOC_flag = FALSE
  BY <1>1, <1>6, LittleIsLeft DEF u
<1>9. ASSUME pc[c] # "killed", toClient[c] = << >>
      PROVE  Dialogue(c, pc[c], << >>, <<m>>, fd[c], v, rk[c], chain[c])
  <2>1. u = users[fd[c]]
    BY <1>1 DEF u
  <2>2. /\ pc[c] = "key" /\ toServer[c] = <<Message("[public_key]", KeyOf[c])>>
        /\ Flags(u, FALSE, FALSE, FALSE) /\ u.server_key = ServerKeyOf[c]
    BY <1>1, <1>2, <1>9, <2>1, WhoAsks DEF Asks, Holds, Flags
  <2>3. in.tag = "[public_key]" /\ in.value = KeyOf[c]
    BY <1>2, <2>2, OneMessage DEF Message
  <2>4. generateRoundKeys(key) = Agreed(c)
    <3>1. key = SharedKey(ServerKeyOf[c], KeyOf[c])
      BY <2>2, <2>3 DEF key
    <3> QED
      BY <1>1, <3>1, SameSecret
  <2>5. v.rrk = Reverse(Agreed(c))
    BY <1>6, <2>4 DEF generateReverseRoundKeys
  <2>6. Holds(v, Agreed(c), FALSE, FALSE)
    BY <1>6, <2>2, <2>5 DEF Holds, Flags
  <2> QED
    BY <1>1, <2>2, <2>6 DEF Dialogue, AtKey
<1> QED
  BY <1>1, <1>2, <1>7, <1>8, <1>9, ServedStep

LEMMA ServeMarkerStep ==
  ASSUME StepInv, NEW f \in OpenFds, ServeMarker(f)
  PROVE  StepInv'
<1> DEFINE c == ClientAt(f)
           u == users[f]
           in == Incoming(f)
           named == [u EXCEPT !.file_name = <<u.ip, in.value>>, !.isTxt = isTxt(c),
                              !.file_name_flag = TRUE]
           m == Message("check", 0)
<1>1. c \in Clients /\ fd[c] = f /\ f \in Fds
  BY ClientOfFd DEF StepInv
<1>2. /\ toServer[c] # << >> /\ in = Head(toServer[c]) /\ Answer(c, m)
      /\ u.key_flag /\ ~(u.file_name_flag /\ u.file_size_flag)
      /\ in.tag \in {"[iv]", "[file_name]", "[file_size]"}
  BY DEF ServeMarker, Readable, Incoming
<1>3. PICK v : /\ users' = [users EXCEPT ![f] = v]
               /\ v = CASE in.tag = "[iv]" -> [u EXCEPT !.iv = in.value]
                        [] in.tag = "[file_name]" -> named
                        [] in.tag = "[file_size]" -> [u EXCEPT !.file_size_flag = TRUE]
  BY Zenon DEF ServeMarker
<1>4. /\ UNCHANGED <<pc, rk, chain, backlog, fd>>
      /\ toServer' = [toServer EXCEPT ![c] = Tail(@)]
  BY Zenon DEF ServeMarker, clientVars, Consume
<1>5. DOMAIN u = Fields
  BY <1>1 DEF StepInv, Tables
<1>6. in.tag = "[iv]" =>
        /\ DOMAIN v = Fields /\ v.iv = in.value /\ v.rrk = u.rrk
        /\ v.key_flag = u.key_flag /\ v.file_name_flag = u.file_name_flag
        /\ v.file_size_flag = u.file_size_flag /\ v.EOC_flag = u.EOC_flag
  BY <1>3, <1>5 DEF Fields
<1>7. in.tag = "[file_name]" =>
        /\ DOMAIN v = Fields /\ v.iv = u.iv /\ v.rrk = u.rrk
        /\ v.key_flag = u.key_flag /\ v.file_name_flag = TRUE
        /\ v.file_size_flag = u.file_size_flag /\ v.EOC_flag = u.EOC_flag
  <2>1. in.tag = "[file_name]" => v = named
    BY <1>3
  <2> QED
    BY <2>1, <1>5 DEF Fields
<1>8. in.tag = "[file_size]" =>
        /\ DOMAIN v = Fields /\ v.iv = u.iv /\ v.rrk = u.rrk
        /\ v.key_flag = u.key_flag /\ v.file_name_flag = u.file_name_flag
        /\ v.file_size_flag = TRUE /\ v.EOC_flag = u.EOC_flag
  <2>1. in.tag = "[file_size]" => v = [u EXCEPT !.file_size_flag = TRUE]
    BY <1>3
  <2> QED
    BY <2>1, <1>5 DEF Fields
<1> HIDE DEF c, u, in, named
<1>9. Served(c, v)
  BY <1>1, <1>2, <1>3, <1>4, <1>6, <1>7, <1>8 DEF Served
<1>10. u = users[fd[c]]
  BY <1>1 DEF u
<1>11. v.EOC_flag = FALSE
  BY <1>1, <1>2, <1>6, <1>7, <1>8, <1>10, LittleIsLeft
<1>12. ASSUME pc[c] # "killed", toClient[c] = << >>
       PROVE  Dialogue(c, pc[c], << >>, <<m>>, fd[c], v, rk[c], chain[c])
  <2>1. ~Flags(u, FALSE, FALSE, FALSE) /\ ~Holds(u, rk[c], TRUE, TRUE)
    BY <1>2, Zenon DEF Holds, Flags
  <2>2. \A tag, value : toServer[c] = <<Message(tag, value)>> => in.tag = tag /\ in.value = value
    BY <1>2, OneMessage DEF Message
  <2>3. CASE pc[c] = "iv" /\ toServer[c] = <<Message("[iv]", IvOf[c])>> /\ Holds(u, rk[c], FALSE, FALSE)
    <3>1. in.tag = "[iv]" /\ in.value = IvOf[c]
      BY <2>2, <2>3
    <3>2. Holds(v, rk[c], FALSE, FALSE) /\ v.iv = IvOf[c]
      BY <1>6, <2>3, <3>1 DEF Holds, Flags
    <3> QED
      BY <1>1, <2>3, <3>2 DEF Dialogue, AtIv, IsAnswered
  <2>4. CASE /\ pc[c] = "name" /\ toServer[c] = <<Message("[file_name]", FileOf[c].name)>>
             /\ Holds(u, rk[c], FALSE, FALSE) /\ u.iv = IvOf[c]
    <3>1. in.tag = "[file_name]"
      BY <2>2, <2>4
    <3>2. Holds(v, rk[c], TRUE, FALSE) /\ v.iv = IvOf[c]
      BY <1>7, <2>4, <3>1 DEF Holds, Flags
    <3> QED
      BY <1>1, <2>4, <3>2 DEF Dialogue, AtName, IsAnswered
  <2>5. CASE /\ pc[c] = "data" /\ toServer[c] = <<Message("[file_size]", calculate_file_size(c))>>
             /\ Holds(u, rk[c], TRUE, FALSE) /\ u.iv = chain[c]
    <3>1. in.tag = "[file_size]"
      BY <2>2, <2>5
    <3>2. Holds(v, rk[c], TRUE, TRUE) /\ v.iv = chain[c]
      BY <1>8, <2>5, <3>1 DEF Holds, Flags
    <3> QED
      BY <1>1, <2>5, <3>2 DEF Dialogue, AtData, IsAnswered
  <2> QED
    BY <1>1, <1>2, <1>10, <1>12, <2>1, <2>3, <2>4, <2>5, WhoAsks DEF Asks
<1> QED
  BY <1>1, <1>2, <1>9, <1>11, <1>12, ServedStep

(* A step that closes the descriptor of c and leaves nothing of c on the   *)
(* wire.                                                                   *)
LEMMA ClosedStep ==
  ASSUME StepInv, NEW c \in Clients, fd[c] \in Fds, pc[c] \in {"end", "killed"},
         toClient[c] = << >>,
         UNCHANGED <<pc, rk, chain, toClient, backlog>>, fd' = [fd EXCEPT ![c] = Closed],
         DOMAIN toServer' = Clients, toServer'[c] = << >>,
         \A d \in Clients \ {c} : toServer'[d] = toServer[d],
         DOMAIN users' = Fds, \A g \in Fds : DOMAIN users'[g] = Fields,
         \A g \in Fds \ {fd[c]} : users'[g] = users[g]
  PROVE  StepInv'
<1>1. \A d \in Clients \ {c} : fd[d] # fd[c]
  BY DEF StepInv, Descriptors
<1>2. Tables'
  BY DEF StepInv, Tables
<1>3. OthersStay(c) /\ fd'[c] = Closed
  BY <1>1 DEF StepInv, Tables, OthersStay
<1>4. Talk(c)'
  BY <1>3, FdsAreNumbers DEF Talk, Dialogue, AtEnd, Left
<1>5. \A d \in Clients : /\ fd'[d] = fd[d] \/ (fd[d] # NotAccepted /\ fd'[d] = Closed)
                         /\ pc[d] # "start" => pc'[d] # "start"
  BY <1>3, FdsAreNumbers DEF OthersStay
<1>6. Descriptors'
  BY <1>5, DescriptorsStay DEF StepInv
<1> QED
  BY <1>2, <1>3, <1>4, <1>6, OthersTalk DEF StepInv

LEMMA DecryptFileStep ==
  ASSUME StepInv, NEW f \in OpenFds, create_decrypt_file(f)
  PROVE  StepInv'
<1>1. PICK c \in Clients : c = ClientAt(f) /\ fd[c] = f /\ f \in Fds
  BY ClientOfFd DEF StepInv
<1>2. /\ toServer[c] # << >> /\ Head(toServer[c]).tag = "EOT" /\ ExpectsText(users[f])
      /\ UNCHANGED <<pc, rk, chain, toClient, backlog>> /\ fd' = [fd EXCEPT ![c] = Closed]
      /\ toServer' = [toServer EXCEPT ![c] = Tail(@)]
      /\ users' = [users EXCEPT ![f].EOC_flag = TRUE]
  BY <1>1, Zenon DEF create_decrypt_file, Readable, Incoming, clientVars, Consume, Close
<1>3. toServer'[c] = << >>
  <2>1. PICK m : toServer[c] = <<m>>
    BY <1>2, LittleIsLeft
  <2> QED
    BY <1>2, <2>1, OneMessage DEF StepInv, Tables
<1>4. pc[c] \in {"end", "killed"} /\ toClient[c] = << >>
  <2>1. CASE pc[c] = "killed"
    BY <2>1, TalkAt DEF Dialogue, Left
  <2>2. CASE pc[c] # "killed"
    <3>1. \A tag, value : toServer[c] = <<Message(tag, value)>> => tag = "EOT"
      BY <1>2, OneMessage DEF Message
    <3> QED
      BY <1>1, <1>2, <2>2, <3>1, WhoAsks DEF Asks
  <2> QED
    BY <2>1, <2>2
<1>5. /\ DOMAIN toServer' = Clients /\ \A d \in Clients \ {c} : toServer'[d] = toServer[d]
      /\ DOMAIN users' = Fds /\ \A g \in Fds : DOMAIN users'[g] = Fields
      /\ \A g \in Fds \ {f} : users'[g] = users[g]
  BY <1>1, <1>2 DEF StepInv, Tables
<1> QED
  BY <1>1, <1>2, <1>3, <1>4, <1>5, ClosedStep

LEMMA ServeClosedStep ==
  ASSUME StepInv, NEW f \in OpenFds, ServeClosed(f)
  PROVE  StepInv'
<1>1. PICK c \in Clients : c = ClientAt(f) /\ fd[c] = f /\ f \in Fds
  BY ClientOfFd DEF StepInv
<1>2. /\ toServer[c] = << >> /\ pc[c] = "killed" /\ fd' = [fd EXCEPT ![c] = Closed]
      /\ UNCHANGED <<pc, rk, chain, toClient, backlog, toServer, users>>
  BY <1>1, Zenon DEF ServeClosed, Readable, clientVars, Close
<1>3. toClient[c] = << >>
  BY <1>2, TalkAt DEF Dialogue, Left
<1> QED
  BY <1>1, <1>2, <1>3, ClosedStep DEF StepInv, Tables

-----------------------------------------------------------------------------
LEMMA StepInvStays == StepInv /\ [Next]_vars => StepInv'
<1> SUFFICES ASSUME StepInv, [Next]_vars  PROVE StepInv'
  OBVIOUS
<1>1. CASE UNCHANGED vars
  BY <1>1 DEF vars, clientVars, serverVars, StepInv, Tables, Descriptors, Talk
<1>2. CASE register_new_client
  BY <1>2, AcceptStep
<1>3. ASSUME NEW f \in OpenFds, serve_client(f)  PROVE StepInv'
  BY <1>3, ServeBlockStep, DecryptFileStep, ServeKeyStep, ServeMarkerStep, ServeClosedStep
  DEF serve_client
<1>4. ASSUME NEW c \in Clients, ClientStep(c)  PROVE StepInv'
  BY <1>4, ConnectStep, TakeKeyStep, SendNameStep, SendSizeStep, EncryptStep, EndTextStep,
     LeaveStep DEF ClientStep
<1>5. ASSUME NEW c \in Clients, Kill(c)  PROVE StepInv'
  BY <1>5, KillStep
<1>6. CASE Idle
  BY <1>1, <1>6 DEF Idle
<1> QED
  BY <1>1, <1>2, <1>3, <1>4, <1>5, <1>6 DEF Next, Server

(* What the dialogue says to the one who looks at it. *)
LEMMA InStepFollows == StepInv => InStep
<1> SUFFICES ASSUME StepInv, NEW c \in Clients
             PROVE  /\ Len(toServer[c]) + Len(toClient[c]) <= 1
                    /\ pc[c] \in {"iv", "name", "data", "end"} => fd[c] # NotAccepted
                    /\ fd[c] \in Fds =>
                         /\ \A d \in Clients \ {c} : fd[d] # fd[c]
                         /\ pc[c] \in {"iv", "name", "data", "end"} =>
                              users[fd[c]].rrk = Reverse(rk[c])
                         /\ pc[c] = "data" /\ toServer[c] = << >> => users[fd[c]].iv = chain[c]
                         /\ users[fd[c]].EOC_flag = FALSE
  BY Zenon DEF InStep
<1>1. pc[c] \in PCs
  BY DEF StepInv, Tables
<1>2. Dialogue(c, pc[c], toServer[c], toClient[c], fd[c], users[fd[c]], rk[c], chain[c])
  BY TalkAt
<1>3. \A d \in Clients \ {c} : fd[c] \in Fds => fd[d] # fd[c]
  BY DEF StepInv, Descriptors
<1>4. fd[c] \in Fds => users[fd[c]].EOC_flag = FALSE
  BY LittleIsLeft
<1>5. \A message : Len(<<message>>) = 1 /\ Len(<< >>) = 0 /\ <<message>> # << >>
  BY OneMessage
<1>6. Len(toServer[c]) + Len(toClient[c]) <= 1
  <2>1. \/ toServer[c] = << >> /\ toClient[c] = << >>
        \/ toServer[c] = << >> /\ \E message : toClient[c] = <<message>>
        \/ toClient[c] = << >> /\ \E message : toServer[c] = <<message>>
    BY <1>1, <1>2
    DEF PCs, Dialogue, AtKey, AtIv, AtName, AtData, AtEnd, Left, Asks, IsAnswered
  <2>2. \A message : Len(<<message>>) = 1 /\ Len(<< >>) = 0
    BY <1>5
  <2>3. CASE toServer[c] = << >> /\ toClient[c] = << >>
    BY <2>3
  <2>4. CASE toServer[c] = << >> /\ \E message : toClient[c] = <<message>>
    <3>1. Len(toServer[c]) = 0 /\ Len(toClient[c]) = 1
      BY <2>2, <2>4, Zenon
    <3> QED
      BY <3>1
  <2>5. CASE toClient[c] = << >> /\ \E message : toServer[c] = <<message>>
    <3>1. Len(toServer[c]) = 1 /\ Len(toClient[c]) = 0
      BY <2>2, <2>5, Zenon
    <3> QED
      BY <3>1
  <2> QED
    BY <2>1, <2>3, <2>4, <2>5
<1>7. pc[c] \in {"iv", "name", "data", "end"} =>
        /\ fd[c] # NotAccepted
        /\ fd[c] \in Fds => users[fd[c]].rrk = Reverse(rk[c])
  BY <1>2, FdsAreNumbers DEF Dialogue, AtIv, AtName, AtData, AtEnd, Holds
<1>8. pc[c] = "data" /\ toServer[c] = << >> => users[fd[c]].iv = chain[c]
  BY <1>2, <1>5 DEF Dialogue, AtData, Asks
<1> QED
  BY <1>3, <1>4, <1>6, <1>7, <1>8

(* The two ends of every connection stay in step, whatever the order in    *)
(* which epoll reports the descriptors, whoever is killed, and however     *)
(* often a descriptor and its entry are used again.                        *)
THEOREM AlwaysInStep == Spec => []InStep
<1>1. Init => StepInv
  BY InitStepInv
<1>2. StepInv /\ [Next]_vars => StepInv'
  BY StepInvStays
<1>3. StepInv => InStep
  BY InStepFollows
<1> QED
  BY <1>1, <1>2, <1>3, PTL DEF Spec

-----------------------------------------------------------------------------
(* Counting, and what a recursive definition computes turn by turn. *)

(* Induction up to a number. *)
LEMMA CountingUp ==
  ASSUME NEW last \in Nat, NEW S, 0 \in S, \A i \in 1..last : i - 1 \in S => i \in S
  PROVE  \A i \in 0..last : i \in S
<1> DEFINE Bad == {i \in 0..last : i \notin S}
<1> SUFFICES ASSUME Bad # {} PROVE FALSE
  OBVIOUS
<1>1. Bad \in SUBSET Nat
  OBVIOUS
<1>2. PICK i \in Bad : \A j \in Bad : i <= j
  BY <1>1, LeastNumber, Zenon
<1>3. i \in 0..last /\ i \notin S /\ i # 0
  BY <1>2
<1>4. i \in 1..last /\ i - 1 \in 0..last /\ ~(i <= i - 1)
  BY <1>3
<1>5. i - 1 \in S
  BY <1>2, <1>4
<1> QED
  BY <1>3, <1>4, <1>5

(* A value given turn by turn is there for every turn. *)
HasTurns(f, last, first, turn) == f[0] = first /\ \A i \in 1..last : f[i] = turn[i][f[i - 1]]

LEMMA TurnByTurn ==
  ASSUME NEW last \in Nat, NEW V, NEW first \in V, NEW turn \in [1..last -> [V -> V]]
  PROVE  \E f \in [0..last -> V] : HasTurns(f, last, first, turn)
<1> DEFINE Turns(i, f) == f[0] = first /\ \A j \in 1..i : f[j] = turn[j][f[j - 1]]
           Good == {i \in 0..last : \E f \in [0..i -> V] : Turns(i, f)}
<1>1. 0 \in Good
  <2> DEFINE f == [i \in 0..0 |-> first]
  <2>1. f \in [0..0 -> V] /\ f[0] = first /\ 1..0 = {}
    OBVIOUS
  <2> HIDE DEF f
  <2>2. Turns(0, f)
    BY <2>1
  <2>3. 0 \in 0..last
    OBVIOUS
  <2> QED
    BY <2>1, <2>2, <2>3, Zenon
<1>2. ASSUME NEW i \in 1..last, i - 1 \in Good
      PROVE  i \in Good
  <2>1. PICK f \in [0..(i - 1) -> V] : Turns(i - 1, f)
    BY <1>2
  <2> DEFINE g == [j \in 0..i |-> IF j = i THEN turn[i][f[i - 1]] ELSE f[j]]
  <2>2. turn[i][f[i - 1]] \in V
    OBVIOUS
  <2>3. g \in [0..i -> V]
    <3>1. \A j \in 0..i : j # i => j \in 0..(i - 1)
      OBVIOUS
    <3> QED
      BY <2>2, <3>1
  <2>4. ASSUME NEW j \in 1..i
        PROVE  g[j] = turn[j][g[j - 1]]
    <3>1. j \in 0..i /\ j - 1 \in 0..i /\ j - 1 # i /\ (j # i => j \in 1..(i - 1))
      OBVIOUS
    <3>2. g[j - 1] = f[j - 1]
      BY <3>1
    <3>3. g[j] = IF j = i THEN turn[i][f[i - 1]] ELSE f[j]
      BY <3>1
    <3> HIDE DEF g
    <3>4. CASE j = i
      BY <3>2, <3>3, <3>4
    <3>5. CASE j # i
      BY <2>1, <3>1, <3>2, <3>3, <3>5
    <3> QED
      BY <3>4, <3>5
  <2>5. g[0] = first
    BY <2>1
  <2> HIDE DEF g
  <2>6. Turns(i, g)
    BY <2>4, <2>5
  <2>7. i \in 0..last
    OBVIOUS
  <2> QED
    BY <2>3, <2>6, <2>7
<1> HIDE DEF Good
<1>3. \A i \in 0..last : i \in Good
  BY <1>1, <1>2, CountingUp, Zenon
<1>4. last \in Good
  BY <1>3
<1> QED
  BY <1>4 DEF Good, HasTurns

-----------------------------------------------------------------------------
(* Strings of bits. *)

Strings(n) == [1..n -> Bit]

LEMMA OnlyOne == \A x : Only({x}) = x
BY DEF Only

(* A function of the numbers up to n is a sequence. *)
LEMMA SequenceOf ==
  ASSUME NEW S, NEW n \in Nat, NEW f \in [1..n -> S]
  PROVE  f \in Seq(S) /\ Len(f) = n /\ DOMAIN f = 1..n /\ Evaluated(f) = f
<1>1. f \in Seq(S) /\ Len(f) = n
  OBVIOUS
<1>2. SubSeq(f, 1, Len(f)) = f
  BY <1>1, SubSeqFull
<1> QED
  BY <1>1, <1>2 DEF Evaluated

LEMMA SequenceIs ==
  ASSUME NEW S, NEW s \in Seq(S)
  PROVE  Len(s) \in Nat /\ s \in [1..Len(s) -> S] /\ DOMAIN s = 1..Len(s)
OBVIOUS

LEMMA PermuteIs ==
  ASSUME NEW T, NEW table \in Seq(T), NEW bits
  PROVE  Permute(bits, table) = [i \in 1..Len(table) |-> bits[table[i]]]
<1> DEFINE f == [i \in 1..Len(table) |-> bits[table[i]]]
           V == {bits[table[i]] : i \in 1..Len(table)}
<1>1. Len(table) \in Nat /\ f \in [1..Len(table) -> V]
  OBVIOUS
<1>2. Evaluated(f) = f
  <2> HIDE DEF f, V
  <2> QED
    BY <1>1, SequenceOf
<1>3. {Evaluated([i \in 1..Len(table) |-> b[table[i]]]) : b \in {bits}} = {f}
  BY <1>2
<1> QED
  BY <1>3, OnlyOne DEF Permute

LEMMA XorIs ==
  ASSUME NEW n \in Nat, NEW S, NEW left \in [1..n -> S], NEW right
  PROVE  /\ XOR_binary(left, right) = [i \in 1..n |-> IF left[i] = right[i] THEN 0 ELSE 1]
         /\ XOR_binary(left, right) \in Strings(n)
<1> DEFINE f == [i \in 1..n |-> IF left[i] = right[i] THEN 0 ELSE 1]
           e(p) == Evaluated([i \in 1..Len(p[1]) |-> IF p[1][i] = p[2][i] THEN 0 ELSE 1])
<1>1. f \in Strings(n)
  BY DEF Strings, Bit
<1>2. Evaluated(f) = f
  <2> HIDE DEF f
  <2> QED
    BY <1>1, SequenceOf DEF Strings
<1>3. Len(left) = n
  BY SequenceOf
<1>4. e(<<left, right>>) = f
  <2>1. <<left, right>>[1] = left /\ <<left, right>>[2] = right
    OBVIOUS
  <2>2. [i \in 1..Len(<<left, right>>[1]) |->
           IF <<left, right>>[1][i] = <<left, right>>[2][i] THEN 0 ELSE 1] = f
    BY <1>3, <2>1
  <2> QED
    BY <1>2, <2>2, Zenon
<1>5. {e(p) : p \in {<<left, right>>}} = {e(<<left, right>>)}
  <2> HIDE DEF e
  <2> QED
    BY Zenon
<1>6. XOR_binary(left, right) = Only({e(p) : p \in {<<left, right>>}})
  BY Zenon DEF XOR_binary
<1> QED
  BY <1>1, <1>4, <1>5, <1>6, OnlyOne

LEMMA XorBits ==
  ASSUME NEW n \in Nat, NEW left \in Strings(n), NEW right
  PROVE  /\ XOR_binary(left, right) = [i \in 1..n |-> IF left[i] = right[i] THEN 0 ELSE 1]
         /\ XOR_binary(left, right) \in Strings(n)
BY XorIs, Zenon DEF Strings

(* What is combined twice with the same bits is what it was, on either side. *)
LEMMA XorTwice ==
  ASSUME NEW n \in Nat, NEW bits \in Strings(n), NEW mask \in Seq(Bit), Len(mask) >= n
  PROVE  /\ XOR_binary(XOR_binary(bits, mask), mask) = bits
         /\ mask \in Strings(n) => XOR_binary(mask, XOR_binary(mask, bits)) = bits
<1>1. /\ XOR_binary(bits, mask) = [i \in 1..n |-> IF bits[i] = mask[i] THEN 0 ELSE 1]
      /\ XOR_binary(bits, mask) \in Strings(n)
  BY XorBits
<1>2. XOR_binary(XOR_binary(bits, mask), mask)
        = [i \in 1..n |-> IF XOR_binary(bits, mask)[i] = mask[i] THEN 0 ELSE 1]
  BY <1>1, XorBits
<1>3. \A i \in 1..n : bits[i] \in {0, 1} /\ mask[i] \in {0, 1}
  <2>1. \A i \in 1..n : i \in 1..Len(mask)
    BY SequenceIs
  <2> QED
    BY <2>1 DEF Strings, Bit
<1>4. XOR_binary(XOR_binary(bits, mask), mask) = bits
  <2>1. \A i \in 1..n : (IF XOR_binary(bits, mask)[i] = mask[i] THEN 0 ELSE 1) = bits[i]
    BY <1>1, <1>3
  <2> QED
    BY <1>2, <2>1 DEF Strings
<1>5. ASSUME mask \in Strings(n)
      PROVE  XOR_binary(mask, XOR_binary(mask, bits)) = bits
  <2>1. XOR_binary(mask, bits) = [i \in 1..n |-> IF mask[i] = bits[i] THEN 0 ELSE 1]
    BY <1>5, XorBits
  <2>2. XOR_binary(mask, XOR_binary(mask, bits))
          = [i \in 1..n |-> IF mask[i] = XOR_binary(mask, bits)[i] THEN 0 ELSE 1]
    BY <1>5, XorBits
  <2>3. \A i \in 1..n : (IF mask[i] = XOR_binary(mask, bits)[i] THEN 0 ELSE 1) = bits[i]
    BY <1>3, <2>1
  <2> QED
    BY <2>2, <2>3 DEF Strings
<1> QED
  BY <1>4, <1>5

-----------------------------------------------------------------------------
(* Folds over the numbers up to n. *)

(* A set of numbers up to n has a greatest one; without it, it is a set of *)
(* smaller numbers.                                                        *)
LEMMA GreatestUpTo ==
  ASSUME NEW n \in Nat, NEW s \in SUBSET (1..n), s # {}
  PROVE  /\ Max(s) \in s /\ Max(s) \in 1..n /\ \A x \in s : x <= Max(s)
         /\ s \ {Max(s)} \in SUBSET (1..(Max(s) - 1)) /\ s \ {Max(s)} \in SUBSET (1..n)
<1> DEFINE Below == {n - x : x \in s}
<1>1. Below \in SUBSET Nat /\ Below # {}
  <2>1. \A x \in s : n - x \in Nat
    OBVIOUS
  <2>2. Below \subseteq Nat
    BY <2>1
  <2>3. PICK x \in s : TRUE
    OBVIOUS
  <2>4. n - x \in Below
    BY <2>3
  <2> QED
    BY <2>2, <2>4
<1>2. Min(Below) \in Below /\ \A y \in Below : Min(Below) <= y
  <2> HIDE DEF Below
  <2> QED
    BY <1>1, LeastNumber
<1>3. PICK m \in s : Min(Below) = n - m
  BY <1>2
<1>4. \A x \in s : n - x \in Below
  OBVIOUS
<1>5. \A x \in s : n - m <= n - x
  <2> HIDE DEF Below
  <2> QED
    BY <1>2, <1>3, <1>4
<1>6. m \in s /\ \A x \in s : m >= x
  <2> HIDE DEF Below
  <2> QED
    BY <1>5
<1>7. Max(s) \in s /\ \A x \in s : Max(s) >= x
  BY <1>6, Zenon DEF Max
<1> HIDE DEF Below
<1>8. Max(s) \in 1..n /\ \A x \in s : x \in 1..n /\ x <= Max(s)
  BY <1>7
<1>9. \A x \in s \ {Max(s)} : x \in 1..n /\ x \in 1..(Max(s) - 1)
  BY <1>8
<1>10. s \ {Max(s)} \in SUBSET (1..(Max(s) - 1)) /\ s \ {Max(s)} \in SUBSET (1..n)
  BY <1>9
<1> QED
  BY <1>7, <1>8, <1>10

LEMMA GreatestOfAll ==
  ASSUME NEW i \in Nat, i # 0
  PROVE  Max(1..i) = i /\ (1..i) \ {i} = 1..(i - 1) /\ 1..i # {}
<1>1. i \in 1..i /\ 1..i \in SUBSET (1..i) /\ 1..i # {}
  OBVIOUS
<1>2. Max(1..i) \in 1..i /\ i <= Max(1..i)
  BY <1>1, GreatestUpTo
<1> QED
  BY <1>1, <1>2

(* What is folded over each set of numbers up to n. *)
IsFold(F, n, first, turn) ==
  \A s \in SUBSET (1..n) :
    F[s] = IF s = {} THEN first ELSE turn[Max(s)][F[s \ {Max(s)}]]

LEMMA FoldExists ==
  ASSUME NEW n \in Nat, NEW V, NEW first \in V, NEW turn \in [1..n -> [V -> V]]
  PROVE  \E F \in [SUBSET (1..n) -> V] : IsFold(F, n, first, turn)
<1> DEFINE Sets == SUBSET (1..n)
           W == [Sets -> V]
           On(w, s) == IF s = {} THEN first ELSE turn[Max(s)][w[s \ {Max(s)}]]
           start == [s \in Sets |-> first]
           again == [i \in 1..n |-> [w \in W |-> [s \in Sets |-> On(w, s)]]]
<1>1. \A w \in W, s \in Sets : On(w, s) \in V
  <2> SUFFICES ASSUME NEW w \in W, NEW s \in Sets, s # {} PROVE On(w, s) \in V
    OBVIOUS
  <2>1. Max(s) \in 1..n /\ s \ {Max(s)} \in Sets
    BY GreatestUpTo
  <2>2. w[s \ {Max(s)}] \in V
    BY <2>1
  <2>3. turn[Max(s)] \in [V -> V]
    BY <2>1
  <2> QED
    BY <2>2, <2>3
<1>2. start \in W /\ again \in [1..n -> [W -> W]]
  <2> HIDE DEF On, Sets
  <2> QED
    BY <1>1
<1>3. PICK f \in [0..n -> W] : HasTurns(f, n, start, again)
  <2> HIDE DEF start, again, W
  <2> QED
    BY <1>2, TurnByTurn, Zenon
<1>4. ASSUME NEW i \in 1..n, NEW s \in Sets
      PROVE  f[i][s] = On(f[i - 1], s)
  <2>1. i - 1 \in 0..n
    OBVIOUS
  <2>2. f[i] = again[i][f[i - 1]] /\ f[i - 1] \in W
    BY <1>3, <2>1 DEF HasTurns
  <2> HIDE DEF On, W, Sets
  <2> QED
    BY <2>2
<1> DEFINE Same(i) == \A s \in SUBSET (1..i) : f[i][s] = On(f[i], s)
           S == {i \in 0..n : Same(i)}
<1>5. 0 \in S
  <2>1. \A s \in SUBSET (1..0) : s = {} /\ s \in Sets
    OBVIOUS
  <2>2. \A s \in Sets : f[0][s] = first
    BY <1>3 DEF HasTurns
  <2>3. Same(0)
    BY <2>1, <2>2
  <2> HIDE DEF Same
  <2> QED
    BY <2>3
<1>6. ASSUME NEW i \in 1..n, i - 1 \in S
      PROVE  i \in S
  <2>1. \A s \in SUBSET (1..(i - 1)) : f[i - 1][s] = On(f[i - 1], s)
    BY <1>6
  <2>2. ASSUME NEW s \in SUBSET (1..i)
        PROVE  f[i][s] = On(f[i], s)
    <3>1. s \in Sets
      OBVIOUS
    <3>2. f[i][s] = On(f[i - 1], s)
      BY <1>4, <3>1
    <3>3. CASE s = {}
      BY <3>2, <3>3
    <3>4. CASE s # {}
      <4> DEFINE r == s \ {Max(s)}
      <4>1. Max(s) <= i /\ Max(s) \in 1..i /\ r \in SUBSET (1..(Max(s) - 1)) /\ r \in SUBSET (1..i)
        BY <3>4, GreatestUpTo
      <4>2. r \in SUBSET (1..(i - 1)) /\ r \in Sets
        BY <4>1
      <4> HIDE DEF r
      <4>3. f[i - 1][r] = On(f[i - 1], r)
        BY <2>1, <4>2
      <4>4. f[i][r] = On(f[i - 1], r)
        BY <1>4, <4>2
      <4>5. f[i][r] = f[i - 1][r]
        BY <4>3, <4>4, Zenon
      <4> QED
        BY <3>2, <3>4, <4>5 DEF r
    <3> QED
      BY <3>3, <3>4
  <2> HIDE DEF On
  <2> QED
    BY <2>2
<1> HIDE DEF S
<1>7. \A i \in 0..n : i \in S
  BY <1>5, <1>6, CountingUp, Zenon
<1>8. n \in S /\ n \in 0..n
  BY <1>7
<1>9. \A s \in Sets : f[n][s] = On(f[n], s)
  BY <1>8 DEF S
<1>10. f[n] \in [Sets -> V]
  BY <1>8
<1>11. IsFold(f[n], n, first, turn)
  BY <1>9 DEF IsFold
<1> QED
  BY <1>10, <1>11

-----------------------------------------------------------------------------
(* Parts of sequences, place by place. *)

LEMMA PartIs ==
  ASSUME NEW S, NEW s \in Seq(S), NEW m \in Nat, NEW n \in Nat, m # 0, m <= n + 1, n <= Len(s)
  PROVE  /\ SubSeq(s, m, n) = [i \in 1..(n - m + 1) |-> s[m + i - 1]]
         /\ SubSeq(s, m, n) \in Seq(S) /\ Len(SubSeq(s, m, n)) = n - m + 1
<1>1. \A i \in m..n : i \in 1..Len(s)
  BY SequenceIs
<1>2. \A i \in m..n : s[i] \in S
  BY <1>1, SequenceIs
<1>3. /\ SubSeq(s, m, n) \in Seq(S)
      /\ Len(SubSeq(s, m, n)) = IF m <= n THEN n - m + 1 ELSE 0
      /\ \A i \in 1..n - m + 1 : SubSeq(s, m, n)[i] = s[m + i - 1]
  <2>1. m \in Int /\ n \in Int
    OBVIOUS
  <2> QED
    BY <1>2, <2>1, SubSeqProperties
<1>4. Len(SubSeq(s, m, n)) = n - m + 1
  BY <1>3
<1> DEFINE t == SubSeq(s, m, n)
<1>5. t \in [1..(n - m + 1) -> S]
  <2> HIDE DEF t
  <2> QED
    BY <1>3, <1>4, SequenceIs DEF t
<1> QED
  BY <1>3, <1>4, <1>5

(* The same of strings of bits. *)
LEMMA BitsPart ==
  ASSUME NEW len \in Nat, NEW s \in Strings(len), NEW m \in Nat, NEW n \in Nat,
         m # 0, m <= n + 1, n <= len
  PROVE  /\ \A i \in 1..(n - m + 1) : SubSeq(s, m, n)[i] = s[m + i - 1]
         /\ SubSeq(s, m, n) \in Strings(n - m + 1)
<1>1. s \in Seq(Bit) /\ Len(s) = len
  BY SequenceOf DEF Strings
<1>2. /\ SubSeq(s, m, n) = [i \in 1..(n - m + 1) |-> s[m + i - 1]]
      /\ SubSeq(s, m, n) \in Seq(Bit) /\ Len(SubSeq(s, m, n)) = n - m + 1
  <2>1. s \in Seq(Bit) /\ m \in Nat /\ n \in Nat /\ m # 0 /\ m <= n + 1 /\ n <= Len(s)
    BY <1>1
  <2> QED
    BY <2>1, PartIs
<1> DEFINE t == SubSeq(s, m, n)
<1> HIDE DEF t
<1>3. t = [i \in 1..(n - m + 1) |-> s[m + i - 1]] /\ t \in Seq(Bit) /\ Len(t) = n - m + 1
  BY <1>2, Zenon DEF t
<1>4. t \in Strings(n - m + 1)
  BY <1>3, SequenceIs DEF Strings
<1>5. \A i \in 1..(n - m + 1) : t[i] = s[m + i - 1]
  BY <1>3
<1> QED
  BY <1>4, <1>5, Zenon DEF t

LEMMA BitsJoin ==
  ASSUME NEW m \in Nat, NEW n \in Nat, NEW s \in Strings(m), NEW t \in Strings(n)
  PROVE  /\ \A i \in 1..m : (s \o t)[i] = s[i]
         /\ \A i \in 1..n : (s \o t)[m + i] = t[i]
         /\ s \o t \in Strings(m + n)
<1>1. /\ s \in Seq(Bit) /\ Len(s) = m
      /\ t \in Seq(Bit) /\ Len(t) = n
  BY SequenceOf DEF Strings
<1> DEFINE u == s \o t
<1>2. /\ u \in Seq(Bit) /\ Len(u) = Len(s) + Len(t)
      /\ \A i \in 1..Len(s) + Len(t) : u[i] = IF i <= Len(s) THEN s[i] ELSE t[i - Len(s)]
  BY <1>1, ConcatProperties
<1> HIDE DEF u
<1>3. u \in Strings(m + n)
  BY <1>1, <1>2, SequenceIs DEF Strings
<1>4. \A i \in 1..m : u[i] = s[i]
  BY <1>1, <1>2
<1>5. ASSUME NEW i \in 1..n PROVE u[m + i] = t[i]
  <2>1. m + i \in 1..Len(s) + Len(t) /\ ~(m + i <= Len(s)) /\ m + i - Len(s) = i
    BY <1>1
  <2> QED
    BY <1>2, <2>1
<1> QED
  BY <1>3, <1>4, <1>5, Zenon DEF u

LEMMA SameBits ==
  ASSUME NEW n, NEW s \in Strings(n), NEW t \in Strings(n), \A i \in 1..n : s[i] = t[i]
  PROVE  s = t
<1>1. s = [i \in 1..n |-> s[i]] /\ t = [i \in 1..n |-> t[i]]
  BY DEF Strings
<1>2. [i \in 1..n |-> s[i]] = [i \in 1..n |-> t[i]]
  OBVIOUS
<1> QED
  BY <1>1, <1>2, Zenon

-----------------------------------------------------------------------------
(* The network. *)

Half == BlockBits \div 2
KeyBits == Len(pc2)
Halves == [left : Strings(Half), right : Strings(Half)]
Keys == [1..Rounds -> Strings(KeyBits)]

LEMMA Sizes ==
  /\ BlockBits \in Nat /\ Half \in Nat /\ Half + Half = BlockBits /\ KeyBits \in Nat
  /\ Rounds \in Nat /\ Rounds # 0
  /\ initial_permutation \in Seq(1..BlockBits) /\ Len(initial_permutation) = BlockBits
  /\ inverse_permutation \in Seq(1..BlockBits) /\ Len(inverse_permutation) = BlockBits
<1>1. BlockBits \in Nat /\ BlockBits % 8 = 0 /\ Rounds \in Nat \ {0}
  BY EncryptedTransferAssumption
<1>2. Half \in Nat /\ Half + Half = BlockBits
  BY <1>1 DEF Half
<1>3. KeyBits \in Nat
  BY TablesAssumption DEF KeyBits
<1>4. /\ initial_permutation \in [1..BlockBits -> 1..BlockBits]
      /\ inverse_permutation \in [1..BlockBits -> 1..BlockBits]
  BY TablesAssumption
<1>5. /\ initial_permutation \in Seq(1..BlockBits) /\ Len(initial_permutation) = BlockBits
      /\ inverse_permutation \in Seq(1..BlockBits) /\ Len(inverse_permutation) = BlockBits
  BY <1>1, <1>4, SequenceOf
<1> QED
  BY <1>1, <1>2, <1>3, <1>5

LEMMA MangleGivesHalf ==
  ASSUME NEW right, NEW key \in Strings(KeyBits)
  PROVE  Mangle(right, key) \in Strings(Half)
<1>1. XOR_binary(key, Permute(right, expansion_table)) \in Strings(KeyBits)
  BY Sizes, XorBits
<1>2. \A bits \in Strings(KeyBits) : Permute(Substitute(bits), permutation_tab) \in Strings(Half)
  BY TablesAssumption, Zenon DEF Strings, KeyBits, Half
<1> QED
  BY <1>1, <1>2, Zenon DEF Mangle

(* What a round leaves is two halves, and the same round on the swapped    *)
(* halves takes it back.                                                   *)
Swap(h) == [left |-> h.right, right |-> h.left]

LEMMA RoundGoesBack ==
  ASSUME NEW h \in Halves, NEW key \in Strings(KeyBits)
  PROVE  /\ Round(h, key) \in Halves /\ LastRound(h, key) \in Halves /\ Swap(h) \in Halves
         /\ LastRound(h, key) = Swap(Round(h, key)) /\ Swap(Swap(h)) = h
         /\ Round(Swap(Round(h, key)), key) = Swap(h)
<1> DEFINE l == h.left
           r == h.right
           m == Mangle(r, key)
           x == XOR_binary(m, l)
<1>1. l \in Strings(Half) /\ r \in Strings(Half) /\ h = [left |-> l, right |-> r]
  BY DEF Halves
<1> HIDE DEF l, r
<1>2. m \in Strings(Half)
  BY MangleGivesHalf
<1> HIDE DEF m
<1>3. x \in Strings(Half)
  BY <1>2, Sizes, XorBits
<1>4. XOR_binary(m, x) = l
  <2>1. m \in Seq(Bit) /\ Len(m) = Half
    BY <1>2, Sizes, SequenceOf DEF Strings
  <2> QED
    BY <1>1, <1>2, <2>1, Sizes, XorTwice
<1> HIDE DEF x
<1>5. Round(h, key) = [left |-> r, right |-> x]
  BY DEF Round, l, r, m, x
<1>6. LastRound(h, key) = [left |-> x, right |-> r]
  BY DEF LastRound, l, r, m, x
<1>7. Swap(Round(h, key)) = [left |-> x, right |-> r]
  BY <1>5 DEF Swap
<1>8. Round([left |-> x, right |-> r], key) = [left |-> r, right |-> XOR_binary(m, x)]
  BY DEF Round, m
<1>9. Swap(h) = [left |-> r, right |-> l]
  BY DEF Swap, l, r
<1> QED
  BY <1>1, <1>3, <1>4, <1>5, <1>6, <1>7, <1>8, <1>9 DEF Swap, Halves

-----------------------------------------------------------------------------
(* The halves after each round. *)

Turn(h, i, keys) == IF i < Rounds THEN Round(h, keys[i]) ELSE LastRound(h, keys[i])
Run(H, keys) == \A i \in 1..Rounds : H[i] = Turn(H[i - 1], i, keys)

Cut(bits) == [left |-> SubSeq(bits, 1, Half), right |-> SubSeq(bits, Half + 1, BlockBits)]
Glued(h) == h.left \o h.right

LEMMA TurnGivesHalves ==
  ASSUME NEW h \in Halves, NEW i \in 1..Rounds, NEW keys \in Keys
  PROVE  Turn(h, i, keys) \in Halves
<1>1. keys[i] \in Strings(KeyBits)
  BY DEF Keys
<1> QED
  BY <1>1, RoundGoesBack DEF Turn

(* The two ends of a block are its halves. *)
LEMMA CutAndGlued ==
  /\ \A bits \in Strings(BlockBits) : Cut(bits) \in Halves /\ Glued(Cut(bits)) = bits
  /\ \A h \in Halves : Glued(h) \in Strings(BlockBits) /\ Cut(Glued(h)) = h
<1>0. Half + 1 - 1 = Half /\ Half - 1 + 1 = Half /\ BlockBits - (Half + 1) + 1 = Half
  BY Sizes
<1>1. ASSUME NEW bits \in Strings(BlockBits)
      PROVE  Cut(bits) \in Halves /\ Glued(Cut(bits)) = bits
  <2> DEFINE l == SubSeq(bits, 1, Half)
             r == SubSeq(bits, Half + 1, BlockBits)
  <2>1. (\A i \in 1..Half : l[i] = bits[1 + i - 1]) /\ l \in Strings(Half)
    <3>1. 1 \in Nat /\ Half \in Nat /\ BlockBits \in Nat /\ 1 # 0 /\ 1 <= Half + 1 /\ Half <= BlockBits
      BY Sizes
    <3>2. (\A i \in 1..(Half - 1 + 1) : l[i] = bits[1 + i - 1]) /\ l \in Strings(Half - 1 + 1)
      BY <3>1, BitsPart, Zenon
    <3> QED
      BY <1>0, <3>2, Zenon
  <2>2. (\A i \in 1..Half : r[i] = bits[Half + 1 + i - 1]) /\ r \in Strings(Half)
    <3>1. /\ Half + 1 \in Nat /\ BlockBits \in Nat /\ Half + 1 # 0 /\ Half + 1 <= BlockBits + 1
          /\ BlockBits <= BlockBits
      BY Sizes
    <3>2. /\ \A i \in 1..(BlockBits - (Half + 1) + 1) : r[i] = bits[Half + 1 + i - 1]
          /\ r \in Strings(BlockBits - (Half + 1) + 1)
      BY <3>1, BitsPart, Zenon
    <3> QED
      BY <1>0, <3>2, Zenon
  <2> HIDE DEF l, r
  <2>3. /\ \A i \in 1..Half : (l \o r)[i] = l[i]
        /\ \A i \in 1..Half : (l \o r)[Half + i] = r[i]
        /\ l \o r \in Strings(Half + Half)
    BY <2>1, <2>2, Sizes, BitsJoin, Zenon
  <2>4. \A i \in 1..BlockBits : (l \o r)[i] = bits[i]
    <3> SUFFICES ASSUME NEW i \in 1..BlockBits
                 PROVE  (l \o r)[i] = bits[i]
      OBVIOUS
    <3>1. CASE i <= Half
      <4>1. i \in 1..Half /\ 1 + i - 1 = i
        BY <3>1, Sizes
      <4>2. l[i] = bits[i]
        BY <2>1, <4>1
      <4> QED
        BY <2>3, <4>1, <4>2
    <3>2. CASE ~(i <= Half)
      <4>1. i - Half \in 1..Half /\ Half + 1 + (i - Half) - 1 = i /\ Half + (i - Half) = i
        BY <3>2, Sizes
      <4>2. r[i - Half] = bits[Half + 1 + (i - Half) - 1]
        BY <2>2, <4>1
      <4> QED
        BY <2>3, <4>1, <4>2
    <3> QED
      BY <3>1, <3>2
  <2>5. l \o r = bits
    <3>1. l \o r \in Strings(BlockBits)
      BY <2>3, Sizes
    <3> QED
      BY <2>4, <3>1, SameBits, Zenon
  <2>6. Cut(bits) = [left |-> l, right |-> r]
    BY DEF Cut, l, r
  <2> QED
    BY <2>1, <2>2, <2>5, <2>6 DEF Halves, Glued
<1>2. ASSUME NEW h \in Halves
      PROVE  Glued(h) \in Strings(BlockBits) /\ Cut(Glued(h)) = h
  <2> DEFINE l == h.left
             r == h.right
             s == l \o r
  <2>1. l \in Strings(Half) /\ r \in Strings(Half) /\ h = [left |-> l, right |-> r]
    BY DEF Halves
  <2> HIDE DEF l, r
  <2>2. /\ \A i \in 1..Half : s[i] = l[i]
        /\ \A i \in 1..Half : s[Half + i] = r[i]
        /\ s \in Strings(Half + Half)
    BY <2>1, Sizes, BitsJoin, Zenon
  <2> HIDE DEF s
  <2>3. s \in Strings(BlockBits)
    BY <2>2, Sizes
  <2> DEFINE a == SubSeq(s, 1, Half)
             b == SubSeq(s, Half + 1, BlockBits)
  <2>4. (\A i \in 1..Half : a[i] = s[1 + i - 1]) /\ a \in Strings(Half)
    <3>1. 1 \in Nat /\ Half \in Nat /\ BlockBits \in Nat /\ 1 # 0 /\ 1 <= Half + 1 /\ Half <= BlockBits
      BY Sizes
    <3>2. (\A i \in 1..(Half - 1 + 1) : a[i] = s[1 + i - 1]) /\ a \in Strings(Half - 1 + 1)
      BY <2>3, <3>1, BitsPart, Zenon
    <3> QED
      BY <1>0, <3>2, Zenon
  <2>5. (\A i \in 1..Half : b[i] = s[Half + 1 + i - 1]) /\ b \in Strings(Half)
    <3>1. /\ Half + 1 \in Nat /\ BlockBits \in Nat /\ Half + 1 # 0 /\ Half + 1 <= BlockBits + 1
          /\ BlockBits <= BlockBits
      BY Sizes
    <3>2. /\ \A i \in 1..(BlockBits - (Half + 1) + 1) : b[i] = s[Half + 1 + i - 1]
          /\ b \in Strings(BlockBits - (Half + 1) + 1)
      BY <2>3, <3>1, BitsPart, Zenon
    <3> QED
      BY <1>0, <3>2, Zenon
  <2> HIDE DEF a, b
  <2>6. \A i \in 1..Half : a[i] = l[i] /\ b[i] = r[i]
    <3> SUFFICES ASSUME NEW i \in 1..Half PROVE a[i] = l[i] /\ b[i] = r[i]
      OBVIOUS
    <3>1. 1 + i - 1 = i /\ Half + 1 + i - 1 = Half + i
      BY Sizes
    <3>5. a[i] = s[i] /\ b[i] = s[Half + i]
      BY <2>4, <2>5, <3>1
    <3> QED
      BY <2>2, <3>5
  <2>7. a = l /\ b = r
    BY <2>1, <2>4, <2>5, <2>6, SameBits, Zenon
  <2>8. Glued(h) = s
    BY <2>1 DEF Glued, s
  <2>9. Cut(s) = [left |-> l, right |-> r]
    BY <2>7 DEF Cut, a, b
  <2> QED
    BY <2>1, <2>3, <2>8, <2>9, Zenon
<1> QED
  BY <1>1, <1>2

-----------------------------------------------------------------------------
(* The network as a fold. *)

Counted(keys) == [i \in 1 .. Len(keys) |-> i]
StepOf(halves, i, keys) ==
  Only({IF i < Rounds THEN Round(h, keys[i]) ELSE LastRound(h, keys[i]) : h \in {halves}})
StartOf(perm) == [left  |-> SubSeq(perm, 1, Len(perm) \div 2),
                  right |-> SubSeq(perm, (Len(perm) \div 2) + 1, Len(perm))]
FoldOf(first, keys) ==
  CHOOSE F : F = [s \in SUBSET DOMAIN Counted(keys) |->
                    IF s = {} THEN first
                    ELSE StepOf(F[s \ {Max(s)}], Counted(keys)[Max(s)], keys)]

LEMMA NetworkFolds ==
  ASSUME NEW bin, NEW keys
  PROVE  feistel(bin, keys)
           = Permute(Glued(FoldOf(StartOf(Permute(bin, initial_permutation)), keys)[DOMAIN Counted(keys)]),
                     inverse_permutation)
<1> DEFINE end == FoldOf(StartOf(Permute(bin, initial_permutation)), keys)[DOMAIN Counted(keys)]
<1>1. feistel(bin, keys) = Only({Permute(h.left \o h.right, inverse_permutation) : h \in {end}})
  BY Zenon DEF feistel, Network, FoldLeft, MapThenFoldSet, FoldOf, StepOf, StartOf, Counted
<1> HIDE DEF end
<1>2. {Permute(h.left \o h.right, inverse_permutation) : h \in {end}}
        = {Permute(end.left \o end.right, inverse_permutation)}
  BY Zenon
<1>3. feistel(bin, keys) = Permute(end.left \o end.right, inverse_permutation)
  BY <1>1, <1>2, OnlyOne
<1> QED
  BY <1>3, Zenon DEF Glued, end

LEMMA StepIsTurn == \A h, i, keys : StepOf(h, i, keys) = Turn(h, i, keys)
<1> SUFFICES ASSUME NEW h, NEW i, NEW keys PROVE StepOf(h, i, keys) = Turn(h, i, keys)
  OBVIOUS
<1>1. {IF i < Rounds THEN Round(g, keys[i]) ELSE LastRound(g, keys[i]) : g \in {h}} = {Turn(h, i, keys)}
  BY DEF Turn
<1> QED
  BY <1>1, OnlyOne DEF StepOf

LEMMA FoldRuns ==
  ASSUME NEW first \in Halves, NEW keys \in Keys
  PROVE  \E H \in [0..Rounds -> Halves] :
           /\ H[0] = first /\ Run(H, keys)
           /\ FoldOf(first, keys)[DOMAIN Counted(keys)] = H[Rounds]
<1> DEFINE Sets == SUBSET (1..Rounds)
           count == Counted(keys)
           turn == [i \in 1..Rounds |-> [h \in Halves |-> Turn(h, i, keys)]]
           On(F) == [s \in SUBSET DOMAIN count |->
                       IF s = {} THEN first ELSE StepOf(F[s \ {Max(s)}], count[Max(s)], keys)]
           F == FoldOf(first, keys)
<1>1. /\ count \in [1..Rounds -> 1..Rounds] /\ DOMAIN count = 1..Rounds
      /\ \A i \in 1..Rounds : count[i] = i
  <2>1. Len(keys) = Rounds
    BY Sizes, SequenceOf DEF Keys
  <2> QED
    BY <2>1 DEF Counted
<1> HIDE DEF count
<1>2. turn \in [1..Rounds -> [Halves -> Halves]]
  BY TurnGivesHalves
<1>3. PICK G \in [Sets -> Halves] : IsFold(G, Rounds, first, turn)
  <2> HIDE DEF turn
  <2> QED
    BY <1>2, Sizes, FoldExists, Zenon
<1>4. G = On(G)
  <2>1. ASSUME NEW s \in Sets
        PROVE  G[s] = IF s = {} THEN first ELSE StepOf(G[s \ {Max(s)}], count[Max(s)], keys)
    <3>1. CASE s = {}
      BY <1>3, <3>1, Zenon DEF IsFold
    <3>2. CASE s # {}
      <4>1. Max(s) \in 1..Rounds /\ s \ {Max(s)} \in Sets
        BY <3>2, Sizes, GreatestUpTo, Zenon
      <4>2. G[s] = turn[Max(s)][G[s \ {Max(s)}]]
        BY <1>3, <3>2, Zenon DEF IsFold
      <4>3. G[s \ {Max(s)}] \in Halves
        BY <4>1, Zenon
      <4> HIDE DEF Sets
      <4>4. turn[Max(s)][G[s \ {Max(s)}]] = Turn(G[s \ {Max(s)}], Max(s), keys)
        BY <4>1, <4>3
      <4>5. count[Max(s)] = Max(s)
        BY <1>1, <4>1
      <4> HIDE DEF turn
      <4>6. G[s] = StepOf(G[s \ {Max(s)}], count[Max(s)], keys)
        BY <4>2, <4>4, <4>5, StepIsTurn, Zenon
      <4> QED
        BY <3>2, <4>6, Zenon
    <3> QED
      BY <3>1, <3>2
  <2>2. G = [s \in Sets |-> G[s]]
    OBVIOUS
  <2>3. SUBSET DOMAIN count = Sets
    BY <1>1
  <2> HIDE DEF Sets
  <2>4. [s \in Sets |-> G[s]] = [s \in Sets |-> IF s = {} THEN first ELSE StepOf(G[s \ {Max(s)}], count[Max(s)], keys)]
    BY <2>1, Zenon
  <2> QED
    BY <2>2, <2>3, <2>4, Zenon
<1>5. F = On(F)
  <2>1. F = CHOOSE E : E = On(E)
    BY Zenon DEF FoldOf, count
  <2> HIDE DEF On, F
  <2> QED
    BY <1>4, <2>1, Zenon
<1>6. /\ F[{}] = first
      /\ \A i \in 1..Rounds : F[1..i] = Turn(F[1..(i - 1)], i, keys)
  <2>1. \A s \in Sets : F[s] = IF s = {} THEN first ELSE StepOf(F[s \ {Max(s)}], count[Max(s)], keys)
    <3> HIDE DEF F
    <3>1. SUBSET DOMAIN count = Sets
      BY <1>1
    <3> HIDE DEF Sets
    <3> QED
      BY <1>5, <3>1
  <2> HIDE DEF F
  <2>2. F[{}] = first
    <3>1. {} \in Sets
      OBVIOUS
    <3> QED
      BY <2>1, <3>1, Zenon
  <2>3. ASSUME NEW i \in 1..Rounds
        PROVE  F[1..i] = Turn(F[1..(i - 1)], i, keys)
    <3>1. 1..i \in Sets /\ i \in Nat /\ i # 0
      BY Sizes
    <3>2. Max(1..i) = i /\ (1..i) \ {i} = 1..(i - 1) /\ 1..i # {}
      BY <3>1, GreatestOfAll
    <3>3. count[i] = i
      BY <1>1
    <3>4. F[1..i] = StepOf(F[(1..i) \ {Max(1..i)}], count[Max(1..i)], keys)
      BY <2>1, <3>1, <3>2, Zenon
    <3> QED
      BY <3>2, <3>3, <3>4, StepIsTurn, Zenon
  <2> QED
    BY <2>2, <2>3
<1> HIDE DEF F
<1> DEFINE H == [i \in 0..Rounds |-> F[1..i]]
           S == {i \in 0..Rounds : H[i] \in Halves}
<1>7. H[0] = first
  <2>1. 1..0 = {} /\ 0 \in 0..Rounds
    BY Sizes
  <2>2. H[0] = F[1..0]
    BY <2>1
  <2> QED
    BY <1>6, <2>1, <2>2, Zenon
<1>8. \A i \in 1..Rounds : H[i] = Turn(H[i - 1], i, keys)
  <2> SUFFICES ASSUME NEW i \in 1..Rounds PROVE H[i] = Turn(H[i - 1], i, keys)
    OBVIOUS
  <2>1. i \in 0..Rounds /\ i - 1 \in 0..Rounds
    BY Sizes
  <2>2. H[i] = F[1..i] /\ H[i - 1] = F[1..(i - 1)]
    BY <2>1
  <2> QED
    BY <1>6, <2>2, Zenon
<1>9. \A i \in 0..Rounds : i \in S
  <2> HIDE DEF H
  <2>1. 0 \in S
    <3>1. 0 \in 0..Rounds
      BY Sizes
    <3> QED
      BY <1>7, <3>1
  <2>2. ASSUME NEW i \in 1..Rounds, i - 1 \in S PROVE i \in S
    <3>1. i \in 0..Rounds /\ H[i - 1] \in Halves
      BY <2>2, Sizes
    <3>2. H[i] \in Halves
      BY <1>8, <3>1, TurnGivesHalves, Zenon
    <3> QED
      BY <3>1, <3>2
  <2> HIDE DEF S
  <2> QED
    BY <2>1, <2>2, Sizes, CountingUp, Zenon
<1>10. H \in [0..Rounds -> Halves]
  <2>1. \A i \in 0..Rounds : F[1..i] \in Halves
    BY <1>9
  <2> QED
    BY <2>1
<1>11. F[DOMAIN count] = H[Rounds]
  <2>1. Rounds \in 0..Rounds
    BY Sizes
  <2> QED
    BY <1>1, <2>1
<1> HIDE DEF H
<1> QED
  BY <1>7, <1>8, <1>10, <1>11, Zenon DEF Run, F, count

(* What the network computes: the halves run through the rounds. *)
LEMMA NetworkRuns ==
  ASSUME NEW bin \in Strings(BlockBits), NEW keys \in Keys
  PROVE  \E H \in [0..Rounds -> Halves] :
           /\ H[0] = Cut(Permute(bin, initial_permutation)) /\ Run(H, keys)
           /\ feistel(bin, keys) = Permute(Glued(H[Rounds]), inverse_permutation)
<1> DEFINE perm == Permute(bin, initial_permutation)
<1>1. perm \in Strings(BlockBits) /\ Len(perm) = BlockBits
  <2>1. perm = [i \in 1..BlockBits |-> bin[initial_permutation[i]]]
    <3>1. perm = [i \in 1..Len(initial_permutation) |-> bin[initial_permutation[i]]]
      BY Sizes, PermuteIs, Zenon
    <3> QED
      BY <3>1, Sizes, Zenon
  <2>2. \A i \in 1..BlockBits : initial_permutation[i] \in 1..BlockBits
    BY TablesAssumption
  <2>3. perm \in Strings(BlockBits)
    BY <2>1, <2>2 DEF Strings
  <2> HIDE DEF perm
  <2> QED
    BY <2>3, Sizes, SequenceOf DEF Strings
<1> HIDE DEF perm
<1>2. StartOf(perm) = Cut(perm) /\ Cut(perm) \in Halves
  BY <1>1, CutAndGlued DEF StartOf, Cut, Half
<1>3. PICK H \in [0..Rounds -> Halves] :
        /\ H[0] = Cut(perm) /\ Run(H, keys)
        /\ FoldOf(Cut(perm), keys)[DOMAIN Counted(keys)] = H[Rounds]
  BY <1>2, FoldRuns, Zenon
<1>4. feistel(bin, keys) = Permute(Glued(H[Rounds]), inverse_permutation)
  <2>1. feistel(bin, keys)
          = Permute(Glued(FoldOf(StartOf(perm), keys)[DOMAIN Counted(keys)]), inverse_permutation)
    BY NetworkFolds, Zenon DEF perm
  <2> QED
    BY <1>2, <1>3, <2>1, Zenon
<1> QED
  BY <1>3, <1>4, Zenon DEF perm

-----------------------------------------------------------------------------
(* The network undoes itself. *)

LEMMA PermuteBits ==
  ASSUME NEW n \in Nat, NEW table \in Seq(1..n), NEW bits \in Strings(n)
  PROVE  /\ Permute(bits, table) \in Strings(Len(table)) /\ Len(table) \in Nat
         /\ \A i \in 1..Len(table) : Permute(bits, table)[i] = bits[table[i]] /\ table[i] \in 1..n
<1>1. Permute(bits, table) = [i \in 1..Len(table) |-> bits[table[i]]]
  BY PermuteIs, Zenon
<1>2. Len(table) \in Nat /\ \A i \in 1..Len(table) : table[i] \in 1..n
  BY SequenceIs
<1> QED
  BY <1>1, <1>2 DEF Strings

LEMMA PermutesBack ==
  ASSUME NEW bits \in Strings(BlockBits)
  PROVE  /\ Permute(bits, initial_permutation) \in Strings(BlockBits)
         /\ Permute(bits, inverse_permutation) \in Strings(BlockBits)
         /\ Permute(Permute(bits, inverse_permutation), initial_permutation) = bits
         /\ Permute(Permute(bits, initial_permutation), inverse_permutation) = bits
<1> DEFINE a == Permute(bits, initial_permutation)
           b == Permute(bits, inverse_permutation)
<1>1. a \in Strings(BlockBits) /\ \A i \in 1..BlockBits : a[i] = bits[initial_permutation[i]]
  <2>1. /\ a \in Strings(Len(initial_permutation))
        /\ \A i \in 1..Len(initial_permutation) :
             a[i] = bits[initial_permutation[i]] /\ initial_permutation[i] \in 1..BlockBits
    BY Sizes, PermuteBits, Zenon
  <2> QED
    BY <2>1, Sizes, Zenon
<1>2. b \in Strings(BlockBits) /\ \A i \in 1..BlockBits : b[i] = bits[inverse_permutation[i]]
  <2>1. /\ b \in Strings(Len(inverse_permutation))
        /\ \A i \in 1..Len(inverse_permutation) :
             b[i] = bits[inverse_permutation[i]] /\ inverse_permutation[i] \in 1..BlockBits
    BY Sizes, PermuteBits, Zenon
  <2> QED
    BY <2>1, Sizes, Zenon
<1> HIDE DEF a, b
<1> DEFINE c == Permute(b, initial_permutation)
           d == Permute(a, inverse_permutation)
<1>3. c \in Strings(BlockBits) /\ \A i \in 1..BlockBits : c[i] = b[initial_permutation[i]]
  <2>1. /\ c \in Strings(Len(initial_permutation))
        /\ \A i \in 1..Len(initial_permutation) :
             c[i] = b[initial_permutation[i]] /\ initial_permutation[i] \in 1..BlockBits
    BY <1>2, Sizes, PermuteBits, Zenon
  <2> QED
    BY <2>1, Sizes, Zenon
<1>4. d \in Strings(BlockBits) /\ \A i \in 1..BlockBits : d[i] = a[inverse_permutation[i]]
  <2>1. /\ d \in Strings(Len(inverse_permutation))
        /\ \A i \in 1..Len(inverse_permutation) :
             d[i] = a[inverse_permutation[i]] /\ inverse_permutation[i] \in 1..BlockBits
    BY <1>1, Sizes, PermuteBits, Zenon
  <2> QED
    BY <2>1, Sizes, Zenon
<1> HIDE DEF c, d
<1>5. \A i \in 1..BlockBits : c[i] = bits[i] /\ d[i] = bits[i]
  <2> SUFFICES ASSUME NEW i \in 1..BlockBits PROVE c[i] = bits[i] /\ d[i] = bits[i]
    OBVIOUS
  <2>1. /\ initial_permutation[i] \in 1..BlockBits /\ inverse_permutation[i] \in 1..BlockBits
        /\ inverse_permutation[initial_permutation[i]] = i /\ initial_permutation[inverse_permutation[i]] = i
    BY TablesAssumption
  <2>2. c[i] = b[initial_permutation[i]] /\ d[i] = a[inverse_permutation[i]]
    BY <1>3, <1>4, Zenon
  <2>3. b[initial_permutation[i]] = bits[inverse_permutation[initial_permutation[i]]]
    BY <1>2, <2>1, Zenon
  <2>4. a[inverse_permutation[i]] = bits[initial_permutation[inverse_permutation[i]]]
    BY <1>1, <2>1, Zenon
  <2> QED
    BY <2>1, <2>2, <2>3, <2>4, Zenon
<1>6. c = bits /\ d = bits
  BY <1>3, <1>4, <1>5, SameBits, Zenon
<1> QED
  BY <1>1, <1>2, <1>6, Zenon DEF a, b, c, d

(* The halves without the last swap. *)
Rolls(P, keys) == \A i \in 1..Rounds : P[i] = Round(P[i - 1], keys[i])

LEMMA NetworkRolls ==
  ASSUME NEW bin \in Strings(BlockBits), NEW keys \in Keys
  PROVE  \E P \in [0..Rounds -> Halves] :
           /\ P[0] = Cut(Permute(bin, initial_permutation)) /\ Rolls(P, keys)
           /\ feistel(bin, keys) = Permute(Glued(Swap(P[Rounds])), inverse_permutation)
<1>1. PICK H \in [0..Rounds -> Halves] :
        /\ H[0] = Cut(Permute(bin, initial_permutation)) /\ Run(H, keys)
        /\ feistel(bin, keys) = Permute(Glued(H[Rounds]), inverse_permutation)
  BY NetworkRuns, Zenon
<1> DEFINE P == [i \in 0..Rounds |-> IF i = Rounds THEN Swap(H[i]) ELSE H[i]]
<1>2. \A i \in 0..Rounds : H[i] \in Halves /\ Swap(H[i]) \in Halves /\ Swap(Swap(H[i])) = H[i]
  BY DEF Halves, Swap
<1>3. P \in [0..Rounds -> Halves]
  BY <1>2
<1>4. 0 \in 0..Rounds /\ Rounds \in 0..Rounds /\ 0 # Rounds
  BY Sizes
<1>5. P[0] = H[0] /\ P[Rounds] = Swap(H[Rounds])
  BY <1>4
<1>6. ASSUME NEW i \in 1..Rounds
      PROVE  P[i] = Round(P[i - 1], keys[i])
  <2>1. i \in 0..Rounds /\ i - 1 \in 0..Rounds /\ i - 1 # Rounds /\ (i < Rounds <=> i # Rounds)
    BY Sizes
  <2>2. P[i - 1] = H[i - 1] /\ P[i] = IF i = Rounds THEN Swap(H[i]) ELSE H[i]
    BY <2>1
  <2> HIDE DEF P
  <2>3. H[i] = Turn(H[i - 1], i, keys)
    BY <1>1, Zenon DEF Run
  <2>4. keys[i] \in Strings(KeyBits) /\ H[i - 1] \in Halves
    BY <2>1 DEF Keys
  <2>5. LastRound(H[i - 1], keys[i]) = Swap(Round(H[i - 1], keys[i])) /\ Round(H[i - 1], keys[i]) \in Halves
    BY <2>4, RoundGoesBack, Zenon
  <2>6. Swap(Swap(Round(H[i - 1], keys[i]))) = Round(H[i - 1], keys[i])
    BY <2>5 DEF Halves, Swap
  <2>7. CASE i = Rounds
    <3>1. H[i] = LastRound(H[i - 1], keys[i])
      BY <2>1, <2>3, <2>7, Zenon DEF Turn
    <3> QED
      BY <2>2, <2>5, <2>6, <2>7, <3>1, Zenon
  <2>8. CASE i # Rounds
    <3>1. H[i] = Round(H[i - 1], keys[i])
      BY <2>1, <2>3, <2>8, Zenon DEF Turn
    <3> QED
      BY <2>2, <2>8, <3>1, Zenon
  <2> QED
    BY <2>7, <2>8
<1>7. Swap(P[Rounds]) = H[Rounds]
  BY <1>2, <1>4, <1>5, Zenon
<1> HIDE DEF P
<1> QED
  BY <1>1, <1>3, <1>5, <1>6, <1>7, Zenon DEF Rolls

LEMMA ReverseKeys ==
  ASSUME NEW keys \in Keys
  PROVE  /\ Reverse(keys) \in Keys
         /\ \A i \in 1..Rounds : Reverse(keys)[i] = keys[Rounds + 1 - i] /\ Rounds + 1 - i \in 1..Rounds
<1>1. Len(keys) = Rounds
  BY Sizes, SequenceOf DEF Keys
<1>2. \A i \in 1..Rounds : Rounds + 1 - i \in 1..Rounds /\ (Rounds - i) + 1 = Rounds + 1 - i
  BY Sizes
<1>3. Reverse(keys) = [i \in 1..Rounds |-> keys[(Rounds - i) + 1]]
  BY <1>1, Zenon DEF Reverse
<1> QED
  BY <1>2, <1>3 DEF Keys

(* The network with its keys in reverse gives back what it was given, as  *)
(* any Feistel network does: feistel of Feistel.cpp, as the server uses   *)
(* it to decipher what a client sent.                                     *)
THEOREM FeistelUndone ==
  ASSUME NEW bin \in Strings(BlockBits), NEW keys \in Keys
  PROVE  /\ feistel(bin, keys) \in Strings(BlockBits)
         /\ feistel(feistel(bin, keys), Reverse(keys)) = bin
<1>1. PICK P \in [0..Rounds -> Halves] :
        /\ P[0] = Cut(Permute(bin, initial_permutation)) /\ Rolls(P, keys)
        /\ feistel(bin, keys) = Permute(Glued(Swap(P[Rounds])), inverse_permutation)
  BY NetworkRolls, Zenon
<1> DEFINE out == feistel(bin, keys)
<1>2. 0 \in 0..Rounds /\ Rounds \in 0..Rounds
  BY Sizes
<1>3. \A i \in 0..Rounds : P[i] \in Halves /\ Swap(P[i]) \in Halves /\ Swap(Swap(P[i])) = P[i]
  BY DEF Halves, Swap
<1>4. Glued(Swap(P[Rounds])) \in Strings(BlockBits) /\ Cut(Glued(Swap(P[Rounds]))) = Swap(P[Rounds])
  BY <1>2, <1>3, CutAndGlued, Zenon
<1>5. out \in Strings(BlockBits) /\ Permute(out, initial_permutation) = Glued(Swap(P[Rounds]))
  BY <1>1, <1>4, PermutesBack, Zenon
<1> HIDE DEF out
<1>6. PICK Q \in [0..Rounds -> Halves] :
        /\ Q[0] = Cut(Permute(out, initial_permutation)) /\ Rolls(Q, Reverse(keys))
        /\ feistel(out, Reverse(keys)) = Permute(Glued(Swap(Q[Rounds])), inverse_permutation)
  BY <1>5, NetworkRolls, ReverseKeys, Zenon
<1> DEFINE S == {i \in 0..Rounds : Q[i] = Swap(P[Rounds - i])}
<1>7. 0 \in S
  <2>1. Rounds - 0 = Rounds
    BY Sizes
  <2> QED
    BY <1>2, <1>4, <1>5, <1>6, <2>1, Zenon
<1>8. ASSUME NEW i \in 1..Rounds, i - 1 \in S
      PROVE  i \in S
  <2> DEFINE j == Rounds + 1 - i
  <2>1. /\ i \in 0..Rounds /\ i - 1 \in 0..Rounds /\ j \in 1..Rounds /\ j \in 0..Rounds
        /\ j - 1 \in 0..Rounds /\ Rounds - (i - 1) = j /\ Rounds - i = j - 1
    BY Sizes
  <2>2. Q[i - 1] = Swap(P[j])
    BY <1>8, <2>1, Zenon
  <2>3. Reverse(keys)[i] = keys[j]
    BY ReverseKeys, Zenon
  <2> HIDE DEF j
  <2>4. keys[j] \in Strings(KeyBits) /\ P[j - 1] \in Halves
    BY <2>1 DEF Keys
  <2>5. P[j] = Round(P[j - 1], keys[j])
    BY <1>1, <2>1, Zenon DEF Rolls
  <2>6. Q[i] = Round(Q[i - 1], Reverse(keys)[i])
    BY <1>6, Zenon DEF Rolls
  <2>7. Q[i] = Swap(P[j - 1])
    <3>1. Round(Swap(Round(P[j - 1], keys[j])), keys[j]) = Swap(P[j - 1])
      BY <2>4, RoundGoesBack, Zenon
    <3>2. Q[i] = Round(Swap(P[j]), keys[j])
      BY <2>2, <2>3, <2>6, Zenon
    <3> QED
      BY <2>5, <3>1, <3>2, Zenon
  <2> QED
    BY <2>1, <2>7, Zenon
<1>9. \A i \in 0..Rounds : i \in S
  <2> HIDE DEF S
  <2> QED
    BY <1>7, <1>8, Sizes, CountingUp, Zenon
<1>10. Q[Rounds] = Swap(P[0])
  <2>1. Rounds - Rounds = 0
    BY Sizes
  <2> QED
    BY <1>2, <1>9, <2>1, Zenon
<1>11. Swap(Q[Rounds]) = Cut(Permute(bin, initial_permutation))
  BY <1>1, <1>2, <1>3, <1>10, Zenon
<1>12. feistel(out, Reverse(keys)) = Permute(Permute(bin, initial_permutation), inverse_permutation)
  BY <1>6, <1>11, CutAndGlued, PermutesBack, Zenon
<1> QED
  BY <1>5, <1>12, PermutesBack, Zenon DEF out

-----------------------------------------------------------------------------
(* The keys of the rounds. *)

KeyHalf == Len(pc1) \div 2
Schedules == [left : Strings(KeyHalf), right : Strings(KeyHalf), keys : Seq(Strings(KeyBits))]

ShiftAt(i) == IF i \in {1, 2, 9, 16} THEN 1 ELSE 2
Rotated(s, i) ==
  [left |-> RotateLeft(s.left, ShiftAt(i)), right |-> RotateLeft(s.right, ShiftAt(i))]
Derived(t, s) ==
  [left |-> t.left, right |-> t.right, keys |-> Append(s.keys, Permute(t.left \o t.right, pc2))]
DeriveOf(s, i) ==
  Only({[left |-> t.left, right |-> t.right,
         keys |-> Append(s.keys, Permute(t.left \o t.right, pc2))] : t \in {Rotated(r, i) : r \in {s}}})
Counts == [i \in 1 .. Rounds |-> i]
ScheduleStart(perm) ==
  [left  |-> SubSeq(perm, 1, Len(perm) \div 2),
   right |-> SubSeq(perm, (Len(perm) \div 2) + 1, Len(perm)), keys |-> << >>]
ScheduleOf(first) ==
  CHOOSE F : F = [s \in SUBSET DOMAIN Counts |->
                    IF s = {} THEN first
                    ELSE DeriveOf(F[s \ {Max(s)}], Counts[Max(s)])]

LEMMA KeySizes ==
  /\ KeyHalf \in Nat /\ KeyHalf >= 2 /\ KeyHalf + KeyHalf = Len(pc1) /\ Len(pc1) \in Nat
  /\ pc1 \in Seq(1..BlockBits) /\ pc2 \in Seq(1..Len(pc1)) /\ KeyBits \in Nat
<1>1. pc1 \in Seq(1..BlockBits) /\ Len(pc1) % 2 = 0 /\ Len(pc1) >= 4 /\ pc2 \in Seq(1..Len(pc1))
  BY TablesAssumption
<1>2. Len(pc1) \in Nat
  BY <1>1, SequenceIs
<1> QED
  BY <1>1, <1>2, Sizes DEF KeyHalf

LEMMA ScheduleFolds ==
  ASSUME NEW key
  PROVE  generateRoundKeys(key) = ScheduleOf(ScheduleStart(Permute(key, pc1)))[DOMAIN Counts].keys
BY Zenon DEF generateRoundKeys, KeySchedule, FoldLeft, MapThenFoldSet, ScheduleOf, DeriveOf, Rotated,
             ScheduleStart, Counts, ShiftAt

LEMMA RotateKeeps ==
  ASSUME NEW h \in Nat, NEW chunk \in Strings(h), NEW n \in Nat, n <= h
  PROVE  RotateLeft(chunk, n) \in Strings(h)
<1>1. Len(chunk) = h
  BY SequenceOf DEF Strings
<1>2. SubSeq(chunk, n + 1, h) \in Strings(h - (n + 1) + 1)
  <2>1. n + 1 \in Nat /\ n + 1 # 0 /\ n + 1 <= h + 1 /\ h <= h
    OBVIOUS
  <2> QED
    BY <2>1, BitsPart, Zenon
<1>3. SubSeq(chunk, 1, n) \in Strings(n - 1 + 1)
  <2>1. 1 \in Nat /\ 1 # 0 /\ 1 <= n + 1 /\ n <= h
    OBVIOUS
  <2> QED
    BY <2>1, BitsPart, Zenon
<1>4. h - (n + 1) + 1 \in Nat /\ n - 1 + 1 \in Nat /\ (h - (n + 1) + 1) + (n - 1 + 1) = h
  OBVIOUS
<1>5. SubSeq(chunk, n + 1, h) \o SubSeq(chunk, 1, n) \in Strings((h - (n + 1) + 1) + (n - 1 + 1))
  BY <1>2, <1>3, <1>4, BitsJoin, Zenon
<1> QED
  BY <1>1, <1>4, <1>5, Zenon DEF RotateLeft

LEMMA DeriveIs ==
  \A s, i : DeriveOf(s, i) = Derived(Rotated(s, i), s)
<1> SUFFICES ASSUME NEW s, NEW i PROVE DeriveOf(s, i) = Derived(Rotated(s, i), s)
  OBVIOUS
<1>1. {Rotated(r, i) : r \in {s}} = {Rotated(s, i)}
  BY Zenon
<1>2. {Derived(t, s) : t \in {Rotated(s, i)}} = {Derived(Rotated(s, i), s)}
  BY Zenon
<1>3. DeriveOf(s, i) = Only({Derived(t, s) : t \in {Rotated(r, i) : r \in {s}}})
  BY Zenon DEF DeriveOf, Derived
<1> QED
  BY <1>1, <1>2, <1>3, OnlyOne

LEMMA DeriveGivesSchedule ==
  ASSUME NEW s \in Schedules, NEW i
  PROVE  DeriveOf(s, i) \in Schedules /\ Len(DeriveOf(s, i).keys) = Len(s.keys) + 1 /\ Len(s.keys) \in Nat
<1> DEFINE l == RotateLeft(s.left, ShiftAt(i))
           r == RotateLeft(s.right, ShiftAt(i))
           k == Permute(l \o r, pc2)
<1>1. ShiftAt(i) \in Nat /\ ShiftAt(i) <= KeyHalf
  BY KeySizes DEF ShiftAt
<1>2. l \in Strings(KeyHalf) /\ r \in Strings(KeyHalf)
  <2>1. s.left \in Strings(KeyHalf) /\ s.right \in Strings(KeyHalf)
    BY DEF Schedules
  <2> QED
    BY <1>1, <2>1, KeySizes, RotateKeeps, Zenon
<1> HIDE DEF l, r
<1>3. l \o r \in Strings(Len(pc1))
  <2>1. l \o r \in Strings(KeyHalf + KeyHalf)
    BY <1>2, KeySizes, BitsJoin, Zenon
  <2> QED
    BY <2>1, KeySizes, Zenon
<1>4. k \in Strings(KeyBits)
  BY <1>3, KeySizes, PermuteBits, Zenon DEF KeyBits
<1> HIDE DEF k
<1>5. DeriveOf(s, i) = [left |-> l, right |-> r, keys |-> Append(s.keys, k)]
  <2>1. Rotated(s, i) = [left |-> l, right |-> r]
    BY Zenon DEF Rotated, l, r
  <2>2. Derived([left |-> l, right |-> r], s) = [left |-> l, right |-> r, keys |-> Append(s.keys, k)]
    BY DEF Derived, k
  <2> QED
    BY <2>1, <2>2, DeriveIs, Zenon
<1>6. s.keys \in Seq(Strings(KeyBits))
  BY DEF Schedules
<1>7. Append(s.keys, k) \in Seq(Strings(KeyBits)) /\ Len(Append(s.keys, k)) = Len(s.keys) + 1 /\ Len(s.keys) \in Nat
  <2> DEFINE S == Strings(KeyBits)
  <2> HIDE DEF S
  <2>1. s.keys \in Seq(S) /\ k \in S
    BY <1>4, <1>6 DEF S
  <2>2. Append(s.keys, k) \in Seq(S) /\ Len(Append(s.keys, k)) = Len(s.keys) + 1 /\ Len(s.keys) \in Nat
    BY <2>1
  <2> QED
    BY <2>2 DEF S
<1> QED
  BY <1>2, <1>5, <1>7 DEF Schedules

LEMMA ScheduleRuns ==
  ASSUME NEW first \in Schedules
  PROVE  \E H \in [0..Rounds -> Schedules] :
           /\ H[0] = first /\ \A i \in 1..Rounds : H[i] = DeriveOf(H[i - 1], i)
           /\ ScheduleOf(first)[DOMAIN Counts] = H[Rounds]
<1> DEFINE Sets == SUBSET (1..Rounds)
           count == Counts
           turn == [i \in 1..Rounds |-> [h \in Schedules |-> DeriveOf(h, i)]]
           On(F) == [s \in SUBSET DOMAIN count |->
                       IF s = {} THEN first ELSE DeriveOf(F[s \ {Max(s)}], count[Max(s)])]
           F == ScheduleOf(first)
<1>1. /\ count \in [1..Rounds -> 1..Rounds] /\ DOMAIN count = 1..Rounds
      /\ \A i \in 1..Rounds : count[i] = i
  BY Sizes DEF Counts
<1> HIDE DEF count
<1>2. turn \in [1..Rounds -> [Schedules -> Schedules]]
  BY DeriveGivesSchedule
<1>3. PICK G \in [Sets -> Schedules] : IsFold(G, Rounds, first, turn)
  <2> HIDE DEF turn
  <2> QED
    BY <1>2, Sizes, FoldExists, Zenon
<1>4. G = On(G)
  <2>1. ASSUME NEW s \in Sets
        PROVE  G[s] = IF s = {} THEN first ELSE DeriveOf(G[s \ {Max(s)}], count[Max(s)])
    <3>1. CASE s = {}
      BY <1>3, <3>1, Zenon DEF IsFold
    <3>2. CASE s # {}
      <4>1. Max(s) \in 1..Rounds /\ s \ {Max(s)} \in Sets
        BY <3>2, Sizes, GreatestUpTo, Zenon
      <4>2. G[s] = turn[Max(s)][G[s \ {Max(s)}]]
        BY <1>3, <3>2, Zenon DEF IsFold
      <4>3. G[s \ {Max(s)}] \in Schedules
        BY <4>1, Zenon
      <4> HIDE DEF Sets
      <4>4. turn[Max(s)][G[s \ {Max(s)}]] = DeriveOf(G[s \ {Max(s)}], Max(s))
        BY <4>1, <4>3
      <4>5. count[Max(s)] = Max(s)
        BY <1>1, <4>1
      <4> HIDE DEF turn
      <4>6. G[s] = DeriveOf(G[s \ {Max(s)}], count[Max(s)])
        BY <4>2, <4>4, <4>5, Zenon
      <4> QED
        BY <3>2, <4>6, Zenon
    <3> QED
      BY <3>1, <3>2
  <2>2. G = [s \in Sets |-> G[s]]
    OBVIOUS
  <2>3. SUBSET DOMAIN count = Sets
    BY <1>1
  <2> HIDE DEF Sets
  <2>4. [s \in Sets |-> G[s]] = [s \in Sets |-> IF s = {} THEN first ELSE DeriveOf(G[s \ {Max(s)}], count[Max(s)])]
    BY <2>1, Zenon
  <2> QED
    BY <2>2, <2>3, <2>4, Zenon
<1>5. F = On(F)
  <2>1. F = CHOOSE E : E = On(E)
    BY Zenon DEF ScheduleOf, count
  <2> HIDE DEF On, F
  <2> QED
    BY <1>4, <2>1, Zenon
<1>6. /\ F[{}] = first
      /\ \A i \in 1..Rounds : F[1..i] = DeriveOf(F[1..(i - 1)], i)
  <2>1. \A s \in Sets : F[s] = IF s = {} THEN first ELSE DeriveOf(F[s \ {Max(s)}], count[Max(s)])
    <3> HIDE DEF F
    <3>1. SUBSET DOMAIN count = Sets
      BY <1>1
    <3> HIDE DEF Sets
    <3> QED
      BY <1>5, <3>1
  <2> HIDE DEF F
  <2>2. F[{}] = first
    <3>1. {} \in Sets
      OBVIOUS
    <3> QED
      BY <2>1, <3>1, Zenon
  <2>3. ASSUME NEW i \in 1..Rounds
        PROVE  F[1..i] = DeriveOf(F[1..(i - 1)], i)
    <3>1. 1..i \in Sets /\ i \in Nat /\ i # 0
      BY Sizes
    <3>2. Max(1..i) = i /\ (1..i) \ {i} = 1..(i - 1) /\ 1..i # {}
      BY <3>1, GreatestOfAll
    <3>3. count[i] = i
      BY <1>1
    <3>4. F[1..i] = DeriveOf(F[(1..i) \ {Max(1..i)}], count[Max(1..i)])
      BY <2>1, <3>1, <3>2, Zenon
    <3> QED
      BY <3>2, <3>3, <3>4, Zenon
  <2> QED
    BY <2>2, <2>3
<1> HIDE DEF F
<1> DEFINE H == [i \in 0..Rounds |-> F[1..i]]
           S == {i \in 0..Rounds : H[i] \in Schedules}
<1>7. H[0] = first
  <2>1. 1..0 = {} /\ 0 \in 0..Rounds
    BY Sizes
  <2>2. H[0] = F[1..0]
    BY <2>1
  <2> QED
    BY <1>6, <2>1, <2>2, Zenon
<1>8. \A i \in 1..Rounds : H[i] = DeriveOf(H[i - 1], i)
  <2> SUFFICES ASSUME NEW i \in 1..Rounds PROVE H[i] = DeriveOf(H[i - 1], i)
    OBVIOUS
  <2>1. i \in 0..Rounds /\ i - 1 \in 0..Rounds
    BY Sizes
  <2>2. H[i] = F[1..i] /\ H[i - 1] = F[1..(i - 1)]
    BY <2>1
  <2> QED
    BY <1>6, <2>2, Zenon
<1>9. \A i \in 0..Rounds : i \in S
  <2> HIDE DEF H
  <2>1. 0 \in S
    <3>1. 0 \in 0..Rounds
      BY Sizes
    <3> QED
      BY <1>7, <3>1
  <2>2. ASSUME NEW i \in 1..Rounds, i - 1 \in S PROVE i \in S
    <3>1. i \in 0..Rounds /\ H[i - 1] \in Schedules
      BY <2>2, Sizes
    <3>2. H[i] \in Schedules
      BY <1>8, <3>1, DeriveGivesSchedule, Zenon
    <3> QED
      BY <3>1, <3>2
  <2> HIDE DEF S
  <2> QED
    BY <2>1, <2>2, Sizes, CountingUp, Zenon
<1>10. H \in [0..Rounds -> Schedules]
  <2>1. \A i \in 0..Rounds : F[1..i] \in Schedules
    BY <1>9
  <2> QED
    BY <2>1
<1>11. F[DOMAIN count] = H[Rounds]
  <2>1. Rounds \in 0..Rounds
    BY Sizes
  <2> QED
    BY <1>1, <2>1
<1> HIDE DEF H
<1> QED
  BY <1>7, <1>8, <1>10, <1>11, Zenon DEF F, count

(* The keys of the rounds are as many as there are rounds, each as long as *)
(* the table of the second choice.                                         *)
LEMMA KeysOfRounds ==
  ASSUME NEW key \in Strings(BlockBits)
  PROVE  generateRoundKeys(key) \in Keys
<1> DEFINE perm == Permute(key, pc1)
           l == SubSeq(perm, 1, KeyHalf)
           r == SubSeq(perm, KeyHalf + 1, Len(pc1))
<1>1. perm \in Strings(Len(pc1)) /\ Len(perm) = Len(pc1)
  <2>1. perm \in Strings(Len(pc1))
    BY KeySizes, Sizes, PermuteBits, Zenon
  <2> HIDE DEF perm
  <2> QED
    BY <2>1, KeySizes, SequenceOf DEF Strings
<1> HIDE DEF perm
<1>2. l \in Strings(KeyHalf)
  <2>1. 1 \in Nat /\ 1 # 0 /\ 1 <= KeyHalf + 1 /\ KeyHalf <= Len(pc1) /\ KeyHalf - 1 + 1 = KeyHalf
    BY KeySizes
  <2>2. l \in Strings(KeyHalf - 1 + 1)
    BY <1>1, <2>1, KeySizes, BitsPart, Zenon
  <2> QED
    BY <2>1, <2>2, Zenon
<1>3. r \in Strings(KeyHalf)
  <2>1. /\ KeyHalf + 1 \in Nat /\ KeyHalf + 1 # 0 /\ KeyHalf + 1 <= Len(pc1) + 1 /\ Len(pc1) <= Len(pc1)
        /\ Len(pc1) - (KeyHalf + 1) + 1 = KeyHalf
    BY KeySizes
  <2>2. r \in Strings(Len(pc1) - (KeyHalf + 1) + 1)
    BY <1>1, <2>1, KeySizes, BitsPart, Zenon
  <2> QED
    BY <2>1, <2>2, Zenon
<1> DEFINE first == ScheduleStart(perm)
<1>4. first = [left |-> l, right |-> r, keys |-> << >>]
  BY <1>1 DEF ScheduleStart, KeyHalf
<1> HIDE DEF l, r
<1>5. first \in Schedules /\ first.keys = << >>
  BY <1>2, <1>3, <1>4 DEF Schedules
<1> HIDE DEF first
<1>6. PICK H \in [0..Rounds -> Schedules] :
        /\ H[0] = first /\ \A i \in 1..Rounds : H[i] = DeriveOf(H[i - 1], i)
        /\ ScheduleOf(first)[DOMAIN Counts] = H[Rounds]
  BY <1>5, ScheduleRuns, Zenon
<1> DEFINE S == {i \in 0..Rounds : Len(H[i].keys) = i}
<1>7. 0 \in S
  <2>1. 0 \in 0..Rounds
    BY Sizes
  <2> QED
    BY <1>5, <1>6, <2>1
<1>8. ASSUME NEW i \in 1..Rounds, i - 1 \in S
      PROVE  i \in S
  <2>1. i \in 0..Rounds /\ i - 1 \in 0..Rounds /\ i - 1 + 1 = i
    BY Sizes
  <2>2. H[i] = DeriveOf(H[i - 1], i) /\ H[i - 1] \in Schedules /\ Len(H[i - 1].keys) = i - 1
    BY <1>6, <1>8, <2>1
  <2>3. Len(H[i].keys) = Len(H[i - 1].keys) + 1
    BY <2>2, DeriveGivesSchedule, Zenon
  <2> QED
    BY <2>1, <2>2, <2>3, Zenon
<1>9. \A i \in 0..Rounds : i \in S
  <2> HIDE DEF S
  <2> QED
    BY <1>7, <1>8, Sizes, CountingUp, Zenon
<1>10. Rounds \in 0..Rounds
  BY Sizes
<1>11. Len(H[Rounds].keys) = Rounds /\ H[Rounds] \in Schedules
  BY <1>9, <1>10
<1>12. generateRoundKeys(key) = H[Rounds].keys
  BY <1>6, ScheduleFolds, Zenon DEF first, perm
<1>13. H[Rounds].keys \in Seq(Strings(KeyBits))
  BY <1>11 DEF Schedules
<1> QED
  BY <1>11, <1>12, <1>13, SequenceIs DEF Keys

-----------------------------------------------------------------------------
(* Digits and bytes. *)

Digits(n) == [1..n -> Digit]
Bytes(n)  == [1..n -> Byte]

LEMMA BitOfDigit ==
  ASSUME NEW x \in 0..15, NEW k \in 0..3
  PROVE  (x \div 2 ^ k) % 2 \in {0, 1}
OBVIOUS

LEMMA HexToBinIs ==
  ASSUME NEW n \in Nat, NEW hex \in Digits(n)
  PROVE  /\ hexToBin(hex) \in Strings(4 * n)
         /\ \A i \in 1..n : /\ hexToBin(hex)[4 * i - 3] = (hex[i] \div 8) % 2
                            /\ hexToBin(hex)[4 * i - 2] = (hex[i] \div 4) % 2
                            /\ hexToBin(hex)[4 * i - 1] = (hex[i] \div 2) % 2
                            /\ hexToBin(hex)[4 * i] = hex[i] % 2
<1> DEFINE f == [i \in 1 .. 4 * n |-> (hex[((i - 1) \div 4) + 1] \div 2 ^ (3 - ((i - 1) % 4))) % 2]
<1>1. Len(hex) = n
  BY SequenceOf DEF Digits
<1>2. f \in Strings(4 * n)
  <2>1. ASSUME NEW i \in 1 .. 4 * n
        PROVE  (hex[((i - 1) \div 4) + 1] \div 2 ^ (3 - ((i - 1) % 4))) % 2 \in Bit
    <3> DEFINE j == ((i - 1) \div 4) + 1
               k == 3 - ((i - 1) % 4)
    <3>1. j \in 1..n /\ k \in 0..3
      OBVIOUS
    <3>2. hex[j] \in 0..15
      BY <3>1 DEF Digits, Digit
    <3> HIDE DEF j, k
    <3>3. (hex[j] \div 2 ^ k) % 2 \in Bit
      BY <3>1, <3>2, BitOfDigit, Zenon DEF Bit
    <3> QED
      BY <3>3 DEF j, k
  <2> QED
    BY <2>1 DEF Strings
<1>3. Evaluated(f) = f
  <2>1. 4 * n \in Nat
    OBVIOUS
  <2> HIDE DEF f
  <2> QED
    BY <1>2, <2>1, SequenceOf, Zenon DEF Strings
<1>4. hexToBin(hex) = f
  <2>1. {Evaluated([i \in 1 .. 4 * Len(h) |-> (h[((i - 1) \div 4) + 1] \div 2 ^ (3 - ((i - 1) % 4))) % 2])
         : h \in {hex}} = {f}
    BY <1>1, <1>3, Zenon
  <2> QED
    BY <2>1, OnlyOne, Zenon DEF hexToBin
<1>5. ASSUME NEW i \in 1..n
      PROVE  /\ f[4 * i - 3] = (hex[i] \div 8) % 2 /\ f[4 * i - 2] = (hex[i] \div 4) % 2
             /\ f[4 * i - 1] = (hex[i] \div 2) % 2 /\ f[4 * i] = hex[i] % 2
  <2>1. /\ 4 * i - 3 \in 1..4 * n /\ 4 * i - 2 \in 1..4 * n /\ 4 * i - 1 \in 1..4 * n /\ 4 * i \in 1..4 * n
        /\ ((4 * i - 3 - 1) \div 4) + 1 = i /\ 3 - ((4 * i - 3 - 1) % 4) = 3
        /\ ((4 * i - 2 - 1) \div 4) + 1 = i /\ 3 - ((4 * i - 2 - 1) % 4) = 2
        /\ ((4 * i - 1 - 1) \div 4) + 1 = i /\ 3 - ((4 * i - 1 - 1) % 4) = 1
        /\ ((4 * i - 1) \div 4) + 1 = i /\ 3 - ((4 * i - 1) % 4) = 0
    OBVIOUS
  <2>2. /\ f[4 * i - 3] = (hex[i] \div 2 ^ 3) % 2 /\ f[4 * i - 2] = (hex[i] \div 2 ^ 2) % 2
        /\ f[4 * i - 1] = (hex[i] \div 2 ^ 1) % 2 /\ f[4 * i] = (hex[i] \div 2 ^ 0) % 2
    BY <2>1
  <2>3. hex[i] \in 0..15
    BY DEF Digits, Digit
  <2>4. 2 ^ 3 = 8 /\ 2 ^ 2 = 4 /\ 2 ^ 1 = 2 /\ 2 ^ 0 = 1 /\ hex[i] \div 1 = hex[i]
    BY <2>3
  <2> QED
    BY <2>2, <2>4, Zenon
<1> QED
  BY <1>2, <1>4, <1>5, Zenon

LEMMA BinToHexIs ==
  ASSUME NEW n \in Nat, NEW bits \in Strings(n)
  PROVE  /\ binToHex(bits) \in Digits(n \div 4) /\ n \div 4 \in Nat
         /\ \A i \in 1..(n \div 4) :
              binToHex(bits)[i] = 8 * bits[4 * i - 3] + 4 * bits[4 * i - 2] + 2 * bits[4 * i - 1] + bits[4 * i]
<1> DEFINE f == [i \in 1 .. n \div 4 |->
                   8 * bits[4 * i - 3] + 4 * bits[4 * i - 2] + 2 * bits[4 * i - 1] + bits[4 * i]]
<1>1. Len(bits) = n /\ n \div 4 \in Nat
  BY SequenceOf DEF Strings
<1>2. f \in Digits(n \div 4)
  <2>1. ASSUME NEW i \in 1 .. n \div 4
        PROVE  8 * bits[4 * i - 3] + 4 * bits[4 * i - 2] + 2 * bits[4 * i - 1] + bits[4 * i] \in Digit
    <3>1. 4 * i - 3 \in 1..n /\ 4 * i - 2 \in 1..n /\ 4 * i - 1 \in 1..n /\ 4 * i \in 1..n
      OBVIOUS
    <3>2. /\ bits[4 * i - 3] \in {0, 1} /\ bits[4 * i - 2] \in {0, 1}
          /\ bits[4 * i - 1] \in {0, 1} /\ bits[4 * i] \in {0, 1}
      BY <3>1 DEF Strings, Bit
    <3> QED
      BY <3>2 DEF Digit
  <2> QED
    BY <2>1 DEF Digits
<1>3. Evaluated(f) = f
  <2> HIDE DEF f
  <2> QED
    BY <1>1, <1>2, SequenceOf, Zenon DEF Digits
<1>4. binToHex(bits) = f
  <2>1. {Evaluated([i \in 1 .. Len(b) \div 4 |->
                     8 * b[4 * i - 3] + 4 * b[4 * i - 2] + 2 * b[4 * i - 1] + b[4 * i]]) : b \in {bits}} = {f}
    BY <1>1, <1>3, Zenon
  <2> QED
    BY <2>1, OnlyOne, Zenon DEF binToHex
<1>5. \A i \in 1..(n \div 4) :
        f[i] = 8 * bits[4 * i - 3] + 4 * bits[4 * i - 2] + 2 * bits[4 * i - 1] + bits[4 * i]
  OBVIOUS
<1> QED
  BY <1>1, <1>2, <1>4, <1>5, Zenon

LEMMA StrToHexIs ==
  ASSUME NEW n \in Nat, NEW bytes \in Bytes(n)
  PROVE  /\ strToHex(bytes) \in Digits(2 * n)
         /\ \A i \in 1..n : /\ strToHex(bytes)[2 * i - 1] = bytes[i] \div 16
                            /\ strToHex(bytes)[2 * i] = bytes[i] % 16
<1> DEFINE f == [i \in 1 .. 2 * n |->
                   IF i % 2 = 1 THEN bytes[(i + 1) \div 2] \div 16 ELSE bytes[i \div 2] % 16]
<1>1. Len(bytes) = n /\ 2 * n \in Nat
  BY SequenceOf DEF Bytes
<1>2. f \in Digits(2 * n)
  <2>1. ASSUME NEW i \in 1 .. 2 * n
        PROVE  (IF i % 2 = 1 THEN bytes[(i + 1) \div 2] \div 16 ELSE bytes[i \div 2] % 16) \in Digit
    <3>1. CASE i % 2 = 1
      <4>1. (i + 1) \div 2 \in 1..n
        BY <3>1
      <4>2. bytes[(i + 1) \div 2] \in 0..255
        BY <4>1 DEF Bytes, Byte
      <4>3. bytes[(i + 1) \div 2] \div 16 \in Digit
        BY <4>2 DEF Digit
      <4> QED
        BY <3>1, <4>3
    <3>2. CASE i % 2 # 1
      <4>1. i \div 2 \in 1..n
        BY <3>2
      <4>2. bytes[i \div 2] \in 0..255
        BY <4>1 DEF Bytes, Byte
      <4>3. bytes[i \div 2] % 16 \in Digit
        BY <4>2 DEF Digit
      <4> QED
        BY <3>2, <4>3
    <3> QED
      BY <3>1, <3>2
  <2> QED
    BY <2>1 DEF Digits
<1>3. Evaluated(f) = f
  <2> HIDE DEF f
  <2> QED
    BY <1>1, <1>2, SequenceOf, Zenon DEF Digits
<1>4. strToHex(bytes) = f
  <2>1. {Evaluated([i \in 1 .. 2 * Len(b) |->
                     IF i % 2 = 1 THEN b[(i + 1) \div 2] \div 16 ELSE b[i \div 2] % 16]) : b \in {bytes}} = {f}
    BY <1>1, <1>3, Zenon
  <2> QED
    BY <2>1, OnlyOne, Zenon DEF strToHex
<1>5. ASSUME NEW i \in 1..n
      PROVE  f[2 * i - 1] = bytes[i] \div 16 /\ f[2 * i] = bytes[i] % 16
  <2>1. /\ 2 * i - 1 \in 1..2 * n /\ 2 * i \in 1..2 * n /\ (2 * i - 1) % 2 = 1 /\ (2 * i) % 2 # 1
        /\ (2 * i - 1 + 1) \div 2 = i /\ (2 * i) \div 2 = i
    OBVIOUS
  <2> QED
    BY <2>1
<1> QED
  BY <1>2, <1>4, <1>5, Zenon

LEMMA HexToASCIIIs ==
  ASSUME NEW n \in Nat, NEW hex \in Digits(n)
  PROVE  /\ hexToASCII(hex) \in Bytes(n \div 2) /\ n \div 2 \in Nat
         /\ \A i \in 1..(n \div 2) : hexToASCII(hex)[i] = 16 * hex[2 * i - 1] + hex[2 * i]
<1> DEFINE f == [i \in 1 .. n \div 2 |-> 16 * hex[2 * i - 1] + hex[2 * i]]
<1>1. Len(hex) = n /\ n \div 2 \in Nat
  BY SequenceOf DEF Digits
<1>2. f \in Bytes(n \div 2)
  <2>1. ASSUME NEW i \in 1 .. n \div 2
        PROVE  16 * hex[2 * i - 1] + hex[2 * i] \in Byte
    <3>1. 2 * i - 1 \in 1..n /\ 2 * i \in 1..n
      OBVIOUS
    <3>2. hex[2 * i - 1] \in 0..15 /\ hex[2 * i] \in 0..15
      BY <3>1 DEF Digits, Digit
    <3> QED
      BY <3>2 DEF Byte
  <2> QED
    BY <2>1 DEF Bytes
<1>3. Evaluated(f) = f
  <2> HIDE DEF f
  <2> QED
    BY <1>1, <1>2, SequenceOf, Zenon DEF Bytes
<1>4. hexToASCII(hex) = f
  <2>1. {Evaluated([i \in 1 .. Len(h) \div 2 |-> 16 * h[2 * i - 1] + h[2 * i]]) : h \in {hex}} = {f}
    BY <1>1, <1>3, Zenon
  <2> QED
    BY <2>1, OnlyOne, Zenon DEF hexToASCII
<1>5. \A i \in 1..(n \div 2) : f[i] = 16 * hex[2 * i - 1] + hex[2 * i]
  OBVIOUS
<1> QED
  BY <1>1, <1>2, <1>4, <1>5, Zenon

LEMMA SameDigits ==
  ASSUME NEW n, NEW s \in Digits(n), NEW t \in Digits(n), \A i \in 1..n : s[i] = t[i]
  PROVE  s = t
<1>1. s = [i \in 1..n |-> s[i]] /\ t = [i \in 1..n |-> t[i]]
  BY DEF Digits
<1>2. [i \in 1..n |-> s[i]] = [i \in 1..n |-> t[i]]
  OBVIOUS
<1> QED
  BY <1>1, <1>2, Zenon

LEMMA SameBytes ==
  ASSUME NEW n, NEW s \in Bytes(n), NEW t \in Bytes(n), \A i \in 1..n : s[i] = t[i]
  PROVE  s = t
<1>1. s = [i \in 1..n |-> s[i]] /\ t = [i \in 1..n |-> t[i]]
  BY DEF Bytes
<1>2. [i \in 1..n |-> s[i]] = [i \in 1..n |-> t[i]]
  OBVIOUS
<1> QED
  BY <1>1, <1>2, Zenon

(* The digits of the bits of digits are the digits, and so for bytes. *)
LEMMA DigitsAgain ==
  ASSUME NEW n \in Nat, NEW hex \in Digits(n)
  PROVE  binToHex(hexToBin(hex)) = hex
<1> DEFINE b == hexToBin(hex)
<1>1. /\ b \in Strings(4 * n) /\ 4 * n \in Nat /\ (4 * n) \div 4 = n
      /\ \A i \in 1..n : /\ b[4 * i - 3] = (hex[i] \div 8) % 2 /\ b[4 * i - 2] = (hex[i] \div 4) % 2
                         /\ b[4 * i - 1] = (hex[i] \div 2) % 2 /\ b[4 * i] = hex[i] % 2
  <2>1. 4 * n \in Nat /\ (4 * n) \div 4 = n
    OBVIOUS
  <2> QED
    BY <2>1, HexToBinIs, Zenon
<1> HIDE DEF b
<1> DEFINE h == binToHex(b)
<1>2. /\ h \in Digits(n)
      /\ \A i \in 1..n : h[i] = 8 * b[4 * i - 3] + 4 * b[4 * i - 2] + 2 * b[4 * i - 1] + b[4 * i]
  <2>1. /\ h \in Digits((4 * n) \div 4)
        /\ \A i \in 1..((4 * n) \div 4) :
             h[i] = 8 * b[4 * i - 3] + 4 * b[4 * i - 2] + 2 * b[4 * i - 1] + b[4 * i]
    BY <1>1, BinToHexIs, Zenon
  <2> QED
    BY <1>1, <2>1, Zenon
<1> HIDE DEF h
<1>3. ASSUME NEW i \in 1..n PROVE h[i] = hex[i]
  <2>1. hex[i] \in 0..15
    BY DEF Digits, Digit
  <2>2. h[i] = 8 * ((hex[i] \div 8) % 2) + 4 * ((hex[i] \div 4) % 2) + 2 * ((hex[i] \div 2) % 2) + (hex[i] % 2)
    BY <1>1, <1>2, Zenon
  <2> QED
    BY <2>1, <2>2
<1>4. h = hex
  BY <1>2, <1>3, SameDigits, Zenon
<1> QED
  BY <1>4, Zenon DEF h, b

LEMMA BitsAgain ==
  ASSUME NEW n \in Nat, NEW bits \in Strings(4 * n)
  PROVE  binToHex(bits) \in Digits(n) /\ hexToBin(binToHex(bits)) = bits
<1> DEFINE h == binToHex(bits)
<1>0. 4 * n \in Nat /\ (4 * n) \div 4 = n
  OBVIOUS
<1>1. /\ h \in Digits(n)
      /\ \A i \in 1..n : h[i] = 8 * bits[4 * i - 3] + 4 * bits[4 * i - 2] + 2 * bits[4 * i - 1] + bits[4 * i]
  <2>1. /\ h \in Digits((4 * n) \div 4)
        /\ \A i \in 1..((4 * n) \div 4) :
             h[i] = 8 * bits[4 * i - 3] + 4 * bits[4 * i - 2] + 2 * bits[4 * i - 1] + bits[4 * i]
    BY <1>0, BinToHexIs, Zenon
  <2> QED
    BY <1>0, <2>1, Zenon
<1> HIDE DEF h
<1> DEFINE b == hexToBin(h)
<1>2. /\ b \in Strings(4 * n)
      /\ \A i \in 1..n : /\ b[4 * i - 3] = (h[i] \div 8) % 2 /\ b[4 * i - 2] = (h[i] \div 4) % 2
                         /\ b[4 * i - 1] = (h[i] \div 2) % 2 /\ b[4 * i] = h[i] % 2
  BY <1>1, HexToBinIs, Zenon
<1> HIDE DEF b
<1>3. ASSUME NEW i \in 1..n
      PROVE  /\ b[4 * i - 3] = bits[4 * i - 3] /\ b[4 * i - 2] = bits[4 * i - 2]
             /\ b[4 * i - 1] = bits[4 * i - 1] /\ b[4 * i] = bits[4 * i]
  <2> DEFINE p == bits[4 * i - 3]
             q == bits[4 * i - 2]
             r == bits[4 * i - 1]
             s == bits[4 * i]
  <2>1. /\ p \in {0, 1} /\ q \in {0, 1} /\ r \in {0, 1} /\ s \in {0, 1}
    <3>1. 4 * i - 3 \in 1..4 * n /\ 4 * i - 2 \in 1..4 * n /\ 4 * i - 1 \in 1..4 * n /\ 4 * i \in 1..4 * n
      OBVIOUS
    <3> QED
      BY <3>1 DEF Strings, Bit
  <2>2. h[i] = 8 * p + 4 * q + 2 * r + s
    BY <1>1
  <2>3. /\ b[4 * i - 3] = (h[i] \div 8) % 2 /\ b[4 * i - 2] = (h[i] \div 4) % 2
        /\ b[4 * i - 1] = (h[i] \div 2) % 2 /\ b[4 * i] = h[i] % 2
    BY <1>2
  <2> HIDE DEF p, q, r, s
  <2>4. (h[i] \div 8) % 2 = p /\ (h[i] \div 4) % 2 = q /\ (h[i] \div 2) % 2 = r /\ h[i] % 2 = s
    BY <2>1, <2>2
  <2> QED
    BY <2>3, <2>4, Zenon DEF p, q, r, s
<1>4. ASSUME NEW j \in 1..4 * n PROVE b[j] = bits[j]
  <2> DEFINE i == ((j - 1) \div 4) + 1
  <2>1. i \in 1..n /\ (j = 4 * i - 3 \/ j = 4 * i - 2 \/ j = 4 * i - 1 \/ j = 4 * i)
    OBVIOUS
  <2> HIDE DEF i
  <2> QED
    BY <1>3, <2>1
<1>5. b = bits
  BY <1>2, <1>4, SameBits, Zenon
<1> QED
  BY <1>1, <1>5, Zenon DEF h, b

LEMMA BytesAgain ==
  ASSUME NEW n \in Nat, NEW bytes \in Bytes(n)
  PROVE  hexToASCII(strToHex(bytes)) = bytes
<1> DEFINE h == strToHex(bytes)
<1>0. 2 * n \in Nat /\ (2 * n) \div 2 = n
  OBVIOUS
<1>1. /\ h \in Digits(2 * n)
      /\ \A i \in 1..n : h[2 * i - 1] = bytes[i] \div 16 /\ h[2 * i] = bytes[i] % 16
  BY StrToHexIs, Zenon
<1> HIDE DEF h
<1> DEFINE b == hexToASCII(h)
<1>2. b \in Bytes(n) /\ \A i \in 1..n : b[i] = 16 * h[2 * i - 1] + h[2 * i]
  <2>1. b \in Bytes((2 * n) \div 2) /\ \A i \in 1..((2 * n) \div 2) : b[i] = 16 * h[2 * i - 1] + h[2 * i]
    BY <1>0, <1>1, HexToASCIIIs, Zenon
  <2> QED
    BY <1>0, <2>1, Zenon
<1> HIDE DEF b
<1>3. ASSUME NEW i \in 1..n PROVE b[i] = bytes[i]
  <2>1. bytes[i] \in 0..255
    BY DEF Bytes, Byte
  <2>2. b[i] = 16 * (bytes[i] \div 16) + (bytes[i] % 16)
    BY <1>1, <1>2, Zenon
  <2> QED
    BY <2>1, <2>2
<1>4. b = bytes
  BY <1>2, <1>3, SameBytes, Zenon
<1> QED
  BY <1>4, Zenon DEF h, b

LEMMA HexAgain ==
  ASSUME NEW n \in Nat, NEW hex \in Digits(2 * n)
  PROVE  hexToASCII(hex) \in Bytes(n) /\ strToHex(hexToASCII(hex)) = hex
<1> DEFINE b == hexToASCII(hex)
<1>0. 2 * n \in Nat /\ (2 * n) \div 2 = n
  OBVIOUS
<1>1. b \in Bytes(n) /\ \A i \in 1..n : b[i] = 16 * hex[2 * i - 1] + hex[2 * i]
  <2>1. /\ b \in Bytes((2 * n) \div 2)
        /\ \A i \in 1..((2 * n) \div 2) : b[i] = 16 * hex[2 * i - 1] + hex[2 * i]
    BY <1>0, HexToASCIIIs, Zenon
  <2> QED
    BY <1>0, <2>1, Zenon
<1> HIDE DEF b
<1> DEFINE h == strToHex(b)
<1>2. /\ h \in Digits(2 * n)
      /\ \A i \in 1..n : h[2 * i - 1] = b[i] \div 16 /\ h[2 * i] = b[i] % 16
  BY <1>1, StrToHexIs, Zenon
<1> HIDE DEF h
<1>3. ASSUME NEW i \in 1..n
      PROVE  h[2 * i - 1] = hex[2 * i - 1] /\ h[2 * i] = hex[2 * i]
  <2> DEFINE p == hex[2 * i - 1]
             q == hex[2 * i]
  <2>1. p \in 0..15 /\ q \in 0..15
    <3>1. 2 * i - 1 \in 1..2 * n /\ 2 * i \in 1..2 * n
      OBVIOUS
    <3> QED
      BY <3>1 DEF Digits, Digit
  <2>2. b[i] = 16 * p + q
    BY <1>1
  <2>3. h[2 * i - 1] = b[i] \div 16 /\ h[2 * i] = b[i] % 16
    BY <1>2
  <2> HIDE DEF p, q
  <2>4. b[i] \div 16 = p /\ b[i] % 16 = q
    BY <2>1, <2>2
  <2> QED
    BY <2>3, <2>4, Zenon DEF p, q
<1>4. ASSUME NEW j \in 1..2 * n PROVE h[j] = hex[j]
  <2> DEFINE i == ((j - 1) \div 2) + 1
  <2>1. i \in 1..n /\ (j = 2 * i - 1 \/ j = 2 * i)
    OBVIOUS
  <2> HIDE DEF i
  <2> QED
    BY <1>3, <2>1
<1>5. h = hex
  BY <1>2, <1>4, SameDigits, Zenon
<1> QED
  BY <1>1, <1>5, Zenon DEF h, b

-----------------------------------------------------------------------------
(* What is left of a string without its eight zeros. *)

On(b, w, i) ==
  IF i > Len(b) THEN << >>
  ELSE IF EightZerosAt(b, i) THEN w[i + 8]
  ELSE <<b[i]>> \o w[i + 1]

KeptOf(b) == CHOOSE w : w = [i \in 1 .. Len(b) + 1 |->
                               IF i > Len(b) THEN << >>
                               ELSE IF EightZerosAt(b, i) THEN w[i + 8]
                               ELSE <<b[i]>> \o w[i + 1]]

LEMMA RemovedIs == \A b : removeTrailingZeros(b) = KeptOf(b)[1]
BY Zenon DEF removeTrailingZeros, KeptOf

LEMMA OneBit ==
  ASSUME NEW x \in Bit, NEW s \in Seq(Bit)
  PROVE  /\ <<x>> \o s \in Seq(Bit) /\ Len(<<x>> \o s) = Len(s) + 1 /\ Len(s) \in Nat
         /\ (<<x>> \o s)[1] = x /\ \A j \in 1..Len(s) : (<<x>> \o s)[j + 1] = s[j]
<1>1. <<x>> \in Seq(Bit) /\ Len(<<x>>) = 1 /\ <<x>>[1] = x /\ Len(s) \in Nat
  OBVIOUS
<1> DEFINE u == <<x>> \o s
<1>2. /\ u \in Seq(Bit) /\ Len(u) = 1 + Len(s)
      /\ \A i \in 1..1 + Len(s) : u[i] = IF i <= 1 THEN <<x>>[i] ELSE s[i - 1]
  BY <1>1, ConcatProperties
<1> HIDE DEF u
<1>3. u[1] = x
  BY <1>1, <1>2
<1>4. ASSUME NEW j \in 1..Len(s) PROVE u[j + 1] = s[j]
  <2>1. j + 1 \in 1..1 + Len(s) /\ ~(j + 1 <= 1) /\ j + 1 - 1 = j
    BY <1>1
  <2> QED
    BY <1>2, <2>1
<1>5. Len(u) = Len(s) + 1
  BY <1>1, <1>2
<1> QED
  BY <1>1, <1>2, <1>3, <1>4, <1>5, Zenon DEF u

LEMMA OnEnds ==
  ASSUME NEW n \in Nat, NEW b \in Strings(n), NEW w, NEW i \in 1..(n + 1), i > n
  PROVE  On(b, w, i) = << >>
<1>0. Len(b) = n
  BY SequenceOf DEF Strings
<1> QED
  BY <1>0 DEF On

LEMMA OnDrops ==
  ASSUME NEW n \in Nat, NEW b \in Strings(n), NEW w, NEW i \in 1..(n + 1), i <= n, EightZerosAt(b, i)
  PROVE  On(b, w, i) = w[i + 8] /\ i + 8 \in 1..(n + 1)
<1>0. Len(b) = n
  BY SequenceOf DEF Strings
<1>1. ~(i > Len(b))
  BY <1>0
<1>2. i + 8 \in 1..(n + 1)
  BY <1>0 DEF EightZerosAt
<1> QED
  BY <1>1, <1>2, Zenon DEF On

LEMMA OnKeeps ==
  ASSUME NEW n \in Nat, NEW b \in Strings(n), NEW w, NEW i \in 1..(n + 1), i <= n, ~EightZerosAt(b, i)
  PROVE  On(b, w, i) = <<b[i]>> \o w[i + 1]
<1>0. Len(b) = n
  BY SequenceOf DEF Strings
<1>1. ~(i > Len(b))
  BY <1>0
<1> QED
  BY <1>1, Zenon DEF On

(* The recursion of the function computes something: it goes up. *)
LEMMA KeptExists ==
  ASSUME NEW n \in Nat, NEW b \in Strings(n)
  PROVE  /\ Len(b) = n
         /\ KeptOf(b) \in [1..(n + 1) -> Seq(Bit)]
         /\ \A i \in 1..(n + 1) : KeptOf(b)[i] = On(b, KeptOf(b), i)
<1> DEFINE W == [1..(n + 1) -> Seq(Bit)]
           start == [i \in 1..(n + 1) |-> << >>]
           again == [j \in 1..n |-> [w \in W |-> [i \in 1..(n + 1) |-> On(b, w, i)]]]
<1>0. Len(b) = n /\ b \in Seq(Bit)
  BY SequenceOf DEF Strings
<1>1. ASSUME NEW w \in W, NEW i \in 1..(n + 1)
      PROVE  On(b, w, i) \in Seq(Bit)
  <2>1. CASE i > n
    BY <1>0, <2>1 DEF On
  <2>2. CASE i <= n /\ EightZerosAt(b, i)
    <3>1. i + 8 \in 1..(n + 1)
      BY <1>0, <2>2 DEF EightZerosAt
    <3>2. On(b, w, i) = w[i + 8]
      BY <1>0, <2>2 DEF On
    <3> QED
      BY <3>1, <3>2
  <2>3. CASE i <= n /\ ~EightZerosAt(b, i)
    <3>1. i + 1 \in 1..(n + 1) /\ i \in 1..n
      BY <2>3
    <3>2. On(b, w, i) = <<b[i]>> \o w[i + 1]
      BY <1>0, <2>3 DEF On
    <3>3. b[i] \in Bit /\ w[i + 1] \in Seq(Bit)
      BY <3>1 DEF Strings
    <3> QED
      BY <3>2, <3>3, OneBit, Zenon
  <2> QED
    BY <2>1, <2>2, <2>3
<1>2. start \in W /\ again \in [1..n -> [W -> W]]
  <2> HIDE DEF On
  <2>1. << >> \in Seq(Bit)
    OBVIOUS
  <2> QED
    BY <1>1, <2>1
<1>3. PICK f \in [0..n -> W] : HasTurns(f, n, start, again)
  <2> HIDE DEF start, again, W
  <2> QED
    BY <1>2, TurnByTurn, Zenon
<1>4. ASSUME NEW j \in 1..n, NEW i \in 1..(n + 1)
      PROVE  f[j][i] = On(b, f[j - 1], i)
  <2>1. j - 1 \in 0..n
    OBVIOUS
  <2>2. f[j] = again[j][f[j - 1]] /\ f[j - 1] \in W
    BY <1>3, <2>1 DEF HasTurns
  <2> HIDE DEF On, W
  <2> QED
    BY <2>2
<1> DEFINE Same(j) == \A i \in 1..(n + 1) : i >= n + 1 - j => f[j][i] = On(b, f[j], i)
           S == {j \in 0..n : Same(j)}
<1>5. 0 \in S
  <2>1. ASSUME NEW i \in 1..(n + 1), i >= n + 1 - 0 PROVE f[0][i] = On(b, f[0], i)
    <3>1. i > n
      BY <2>1
    <3>2. f[0][i] = << >>
      BY <1>3 DEF HasTurns
    <3> QED
      BY <1>0, <3>1, <3>2 DEF On
  <2> HIDE DEF On
  <2> QED
    BY <2>1
<1>6. ASSUME NEW j \in 1..n, j - 1 \in S
      PROVE  j \in S
  <2>0. j \in 0..n /\ j - 1 \in 0..n
    OBVIOUS
  <2>1. ASSUME NEW i \in 1..(n + 1), i >= n + 1 - j
        PROVE  f[j][i] = On(b, f[j], i)
    <3>1. f[j][i] = On(b, f[j - 1], i)
      BY <1>4
    <3>2. ASSUME NEW k \in 1..(n + 1), k >= i + 1
          PROVE  f[j][k] = f[j - 1][k]
      <4>1. k >= n + 1 - (j - 1)
        BY <2>1, <3>2
      <4>2. f[j - 1][k] = On(b, f[j - 1], k)
        BY <1>6, <4>1
      <4>3. f[j][k] = On(b, f[j - 1], k)
        BY <1>4
      <4> QED
        BY <4>2, <4>3, Zenon
    <3>3. CASE i > n
      BY <1>0, <3>1, <3>3 DEF On
    <3>4. CASE i <= n /\ EightZerosAt(b, i)
      <4>1. i + 8 \in 1..(n + 1) /\ i + 8 >= i + 1
        BY <1>0, <3>4 DEF EightZerosAt
      <4>2. On(b, f[j - 1], i) = f[j - 1][i + 8] /\ On(b, f[j], i) = f[j][i + 8]
        BY <1>0, <3>4 DEF On
      <4>3. f[j][i + 8] = f[j - 1][i + 8]
        BY <3>2, <4>1
      <4> QED
        BY <3>1, <4>2, <4>3, Zenon
    <3>5. CASE i <= n /\ ~EightZerosAt(b, i)
      <4>1. i + 1 \in 1..(n + 1) /\ i + 1 >= i + 1
        BY <3>5
      <4>2. On(b, f[j - 1], i) = <<b[i]>> \o f[j - 1][i + 1] /\ On(b, f[j], i) = <<b[i]>> \o f[j][i + 1]
        BY <3>5, OnKeeps, Zenon
      <4>3. f[j][i + 1] = f[j - 1][i + 1]
        BY <3>2, <4>1
      <4> QED
        BY <3>1, <4>2, <4>3, Zenon
    <3> QED
      BY <3>3, <3>4, <3>5
  <2> QED
    BY <2>0, <2>1
<1>7. \A j \in 0..n : j \in S
  <2> HIDE DEF S
  <2> QED
    BY <1>5, <1>6, CountingUp, Zenon
<1>8. n \in S /\ n \in 0..n
  BY <1>7
<1>9. \A i \in 1..(n + 1) : f[n][i] = On(b, f[n], i)
  <2>1. \A i \in 1..(n + 1) : i >= n + 1 - n
    OBVIOUS
  <2> QED
    BY <1>8, <2>1
<1>10. f[n] \in W
  BY <1>8
<1> DEFINE again1(w) == [i \in 1 .. Len(b) + 1 |->
                          IF i > Len(b) THEN << >>
                          ELSE IF EightZerosAt(b, i) THEN w[i + 8]
                          ELSE <<b[i]>> \o w[i + 1]]
<1>11. \A w : again1(w) = [i \in 1..(n + 1) |-> On(b, w, i)]
  BY <1>0, Zenon DEF On
<1>12. f[n] = again1(f[n])
  <2>1. f[n] = [i \in 1..(n + 1) |-> f[n][i]]
    BY <1>10
  <2>2. [i \in 1..(n + 1) |-> f[n][i]] = [i \in 1..(n + 1) |-> On(b, f[n], i)]
    BY <1>9, Zenon
  <2> HIDE DEF again1
  <2> QED
    BY <1>11, <2>1, <2>2, Zenon
<1> DEFINE K == KeptOf(b)
<1>13. K = again1(K)
  <2>1. K = CHOOSE w : w = again1(w)
    BY Zenon DEF KeptOf
  <2> HIDE DEF again1, K
  <2> QED
    BY <1>12, <2>1, Zenon
<1>14. K = [i \in 1..(n + 1) |-> On(b, K, i)]
  <2> HIDE DEF again1, K
  <2> QED
    BY <1>11, <1>13, Zenon
<1> HIDE DEF K
<1>15. \A i \in 1..(n + 1) : K[i] = On(b, K, i)
  <2> DEFINE o(i) == On(b, K, i)
  <2>1. K = [i \in 1..(n + 1) |-> o(i)]
    BY <1>14
  <2> HIDE DEF o
  <2>2. \A i \in 1..(n + 1) : K[i] = o(i)
    BY <2>1
  <2> QED
    BY <2>2 DEF o
<1> DEFINE T == {j \in 0..n : \A i \in 1..(n + 1) : i >= n + 1 - j => K[i] \in Seq(Bit)}
<1>16. 0 \in T
  <2>1. ASSUME NEW i \in 1..(n + 1), i >= n + 1 - 0 PROVE K[i] \in Seq(Bit)
    <3>1. i > n
      BY <2>1
    <3>2. K[i] = << >>
      BY <1>0, <1>15, <3>1 DEF On
    <3> QED
      BY <3>2
  <2> QED
    BY <2>1
<1>17. ASSUME NEW j \in 1..n, j - 1 \in T PROVE j \in T
  <2>0. j \in 0..n
    OBVIOUS
  <2>1. ASSUME NEW i \in 1..(n + 1), i >= n + 1 - j PROVE K[i] \in Seq(Bit)
    <3>1. \A k \in 1..(n + 1) : k >= i + 1 => K[k] \in Seq(Bit)
      <4>1. \A k \in 1..(n + 1) : k >= i + 1 => k >= n + 1 - (j - 1)
        BY <2>1
      <4> QED
        BY <1>17, <4>1
    <3>3. CASE i > n
      <4>1. K[i] = << >>
        BY <1>15, <3>3, OnEnds, Zenon
      <4> QED
        BY <4>1
    <3>4. CASE i <= n /\ EightZerosAt(b, i)
      <4>1. i + 8 \in 1..(n + 1) /\ i + 8 >= i + 1
        BY <1>0, <3>4 DEF EightZerosAt
      <4>2. K[i] = K[i + 8]
        BY <1>15, <3>4, OnDrops, Zenon
      <4> QED
        BY <3>1, <4>1, <4>2
    <3>5. CASE i <= n /\ ~EightZerosAt(b, i)
      <4>1. i + 1 \in 1..(n + 1) /\ i + 1 >= i + 1 /\ i \in 1..n
        BY <3>5
      <4>2. K[i] = <<b[i]>> \o K[i + 1]
        BY <1>15, <3>5, OnKeeps, Zenon
      <4>3. b[i] \in Bit /\ K[i + 1] \in Seq(Bit)
        BY <3>1, <4>1 DEF Strings
      <4> QED
        BY <4>2, <4>3, OneBit, Zenon
    <3> QED
      BY <3>3, <3>4, <3>5
  <2> QED
    BY <2>0, <2>1
<1>18. \A j \in 0..n : j \in T
  <2> HIDE DEF T
  <2> QED
    BY <1>16, <1>17, CountingUp, Zenon
<1>19. \A i \in 1..(n + 1) : K[i] \in Seq(Bit)
  <2>1. n \in T
    BY <1>8, <1>18
  <2> QED
    BY <2>1
<1>20. K \in W
  <2> DEFINE o(i) == On(b, K, i)
  <2>1. K = [i \in 1..(n + 1) |-> o(i)]
    BY <1>14
  <2> HIDE DEF o
  <2>2. \A i \in 1..(n + 1) : o(i) \in Seq(Bit)
    BY <1>19, <2>1
  <2> QED
    BY <2>1, <2>2
<1> QED
  BY <1>0, <1>15, <1>20, Zenon DEF K

LEMMA CountingDown ==
  ASSUME NEW n \in Nat, NEW S, n + 1 \in S,
         \A i \in 1..n : (\A k \in (i + 1)..(n + 1) : k \in S) => i \in S
  PROVE  \A i \in 1..(n + 1) : i \in S
<1> DEFINE T == {j \in 0..n : \A i \in (n + 1 - j)..(n + 1) : i \in S}
<1>1. 0 \in T
  <2>1. \A i \in (n + 1 - 0)..(n + 1) : i = n + 1
    OBVIOUS
  <2> QED
    BY <2>1
<1>2. ASSUME NEW j \in 1..n, j - 1 \in T PROVE j \in T
  <2>0. j \in 0..n
    OBVIOUS
  <2>1. \A k \in (n + 1 - (j - 1))..(n + 1) : k \in S
    BY <1>2
  <2>2. n + 1 - j \in 1..n /\ (n + 1 - j) + 1 = n + 1 - (j - 1)
    OBVIOUS
  <2>3. n + 1 - j \in S
    BY <2>1, <2>2
  <2>4. \A i \in (n + 1 - j)..(n + 1) : i = n + 1 - j \/ i \in (n + 1 - (j - 1))..(n + 1)
    OBVIOUS
  <2>5. \A i \in (n + 1 - j)..(n + 1) : i \in S
    BY <2>1, <2>3, <2>4
  <2> QED
    BY <2>0, <2>5
<1> HIDE DEF T
<1>3. \A j \in 0..n : j \in T
  BY <1>1, <1>2, CountingUp, Zenon
<1>4. n \in T
  BY <1>3
<1>5. \A i \in 1..(n + 1) : i \in (n + 1 - n)..(n + 1)
  OBVIOUS
<1> QED
  BY <1>4, <1>5 DEF T

LEMMA FewLeft ==
  ASSUME NEW l \in Nat, NEW q \in Nat, NEW n \in Nat, NEW i \in Nat,
         l + 8 * q = n + 1 - i, i + 7 > n
  PROVE  l <= 7
OBVIOUS

(* What the scan does at each place. *)
LEMMA KeptCases ==
  ASSUME NEW n \in Nat, NEW b \in Strings(n), NEW i \in 1..(n + 1)
  PROVE  LET K == KeptOf(b) IN
         /\ K[i] \in Seq(Bit) /\ Len(K[i]) \in Nat
         /\ i = n + 1 => K[i] = << >>
         /\ EightZerosAt(b, i) <=> i + 7 <= n /\ \A j \in i..(i + 7) : b[j] = 0
         /\ i <= n /\ EightZerosAt(b, i) => K[i] = K[i + 8] /\ i + 8 \in (i + 1)..(n + 1)
         /\ i <= n /\ ~EightZerosAt(b, i) =>
              /\ i + 1 \in (i + 1)..(n + 1) /\ b[i] \in Bit
              /\ K[i] = <<b[i]>> \o K[i + 1] /\ Len(K[i]) = Len(K[i + 1]) + 1
              /\ K[i][1] = b[i] /\ \A j \in 1..Len(K[i + 1]) : K[i][j + 1] = K[i + 1][j]
<1> DEFINE K == KeptOf(b)
<1>1. Len(b) = n /\ K \in [1..(n + 1) -> Seq(Bit)] /\ \A k \in 1..(n + 1) : K[k] = On(b, K, k)
  BY KeptExists, Zenon
<1> HIDE DEF K
<1>2. K[i] \in Seq(Bit) /\ Len(K[i]) \in Nat
  <2>1. K[i] \in Seq(Bit)
    BY <1>1
  <2> QED
    BY <2>1, SequenceIs
<1>3. i = n + 1 => K[i] = << >>
  <2>1. i = n + 1 => i > n
    OBVIOUS
  <2> QED
    BY <1>1, <2>1, OnEnds, Zenon
<1>4. EightZerosAt(b, i) <=> i + 7 <= n /\ \A j \in i..(i + 7) : b[j] = 0
  BY <1>1, Zenon DEF EightZerosAt
<1>5. ASSUME i <= n, EightZerosAt(b, i)
      PROVE  K[i] = K[i + 8] /\ i + 8 \in (i + 1)..(n + 1)
  <2>0. n \in Nat /\ b \in Strings(n) /\ i \in 1..(n + 1) /\ i <= n /\ EightZerosAt(b, i)
    BY <1>5
  <2>1. On(b, K, i) = K[i + 8] /\ i + 8 \in 1..(n + 1)
    BY <2>0, OnDrops
  <2> QED
    BY <1>1, <2>1
<1>6. ASSUME i <= n, ~EightZerosAt(b, i)
      PROVE  /\ i + 1 \in (i + 1)..(n + 1) /\ b[i] \in Bit
             /\ K[i] = <<b[i]>> \o K[i + 1] /\ Len(K[i]) = Len(K[i + 1]) + 1
             /\ K[i][1] = b[i] /\ \A j \in 1..Len(K[i + 1]) : K[i][j + 1] = K[i + 1][j]
  <2>1. On(b, K, i) = <<b[i]>> \o K[i + 1]
    BY <1>6, OnKeeps, Zenon
  <2>2. i + 1 \in (i + 1)..(n + 1) /\ i + 1 \in 1..(n + 1) /\ i \in 1..n
    BY <1>6
  <2>3. b[i] \in Bit /\ K[i + 1] \in Seq(Bit)
    BY <1>1, <2>2 DEF Strings
  <2>4. K[i] = <<b[i]>> \o K[i + 1]
    BY <1>1, <2>1, Zenon
  <2> DEFINE u == <<b[i]>> \o K[i + 1]
  <2>5. Len(u) = Len(K[i + 1]) + 1 /\ u[1] = b[i] /\ \A j \in 1..Len(K[i + 1]) : u[j + 1] = K[i + 1][j]
    BY <2>3, OneBit, Zenon
  <2> HIDE DEF u
  <2>6. K[i] = u
    BY <2>4, Zenon DEF u
  <2>7. Len(K[i]) = Len(K[i + 1]) + 1 /\ K[i][1] = b[i] /\ \A j \in 1..Len(K[i + 1]) : K[i][j + 1] = K[i + 1][j]
    BY <2>5, <2>6
  <2> QED
    BY <2>2, <2>3, <2>4, <2>7, Zenon
<1> QED
  BY <1>2, <1>3, <1>4, <1>5, <1>6, Zenon DEF K

(* The string gets shorter by eights. *)
LEMMA KeptLengths ==
  ASSUME NEW n \in Nat, NEW b \in Strings(n)
  PROVE  \A i \in 1..(n + 1) :
           Len(KeptOf(b)[i]) \in Nat /\ \E q \in Nat : Len(KeptOf(b)[i]) + 8 * q = n + 1 - i
<1> DEFINE K == KeptOf(b)
           S == {i \in 1..(n + 1) : \E q \in Nat : Len(K[i]) + 8 * q = n + 1 - i}
<1>0. \A i \in 1..(n + 1) :
        /\ Len(K[i]) \in Nat
        /\ i = n + 1 => K[i] = << >>
        /\ i <= n /\ EightZerosAt(b, i) => K[i] = K[i + 8] /\ i + 8 \in (i + 1)..(n + 1)
        /\ i <= n /\ ~EightZerosAt(b, i) =>
             i + 1 \in (i + 1)..(n + 1) /\ Len(K[i]) = Len(K[i + 1]) + 1
  BY KeptCases, Zenon
<1> HIDE DEF K
<1>1. n + 1 \in S
  <2>1. n + 1 \in 1..(n + 1)
    OBVIOUS
  <2>2. K[n + 1] = << >> /\ 0 \in Nat
    BY <1>0, <2>1
  <2>3. Len(K[n + 1]) + 8 * 0 = n + 1 - (n + 1)
    BY <2>2
  <2> QED
    BY <2>1, <2>2, <2>3, Zenon
<1>2. ASSUME NEW i \in 1..n, \A k \in (i + 1)..(n + 1) : k \in S
      PROVE  i \in S
  <2>0. i \in 1..(n + 1) /\ i <= n /\ i \in Nat
    OBVIOUS
  <2>1. CASE EightZerosAt(b, i)
    <3>1. K[i] = K[i + 8] /\ i + 8 \in S
      BY <1>0, <1>2, <2>0, <2>1
    <3>2. PICK q \in Nat : Len(K[i + 8]) + 8 * q = n + 1 - (i + 8)
      BY <3>1
    <3>3. q + 1 \in Nat /\ Len(K[i + 8]) + 8 * (q + 1) = n + 1 - i
      <4>1. i + 8 \in 1..(n + 1)
        BY <3>1
      <4>2. Len(K[i + 8]) \in Nat
        BY <1>0, <4>1
      <4> QED
        <5> DEFINE l == Len(K[i + 8])
        <5>1. l \in Nat /\ l + 8 * q = n + 1 - (i + 8)
          BY <3>2, <4>2
        <5> HIDE DEF l
        <5>2. q + 1 \in Nat /\ l + 8 * (q + 1) = n + 1 - i
          BY <2>0, <5>1
        <5> QED
          BY <5>2, Zenon DEF l
    <3> QED
      BY <2>0, <3>1, <3>3
  <2>2. CASE ~EightZerosAt(b, i)
    <3>1. Len(K[i]) = Len(K[i + 1]) + 1 /\ i + 1 \in S
      BY <1>0, <1>2, <2>0, <2>2
    <3>2. PICK q \in Nat : Len(K[i + 1]) + 8 * q = n + 1 - (i + 1)
      BY <3>1
    <3>3. Len(K[i]) + 8 * q = n + 1 - i
      <4>1. i + 1 \in 1..(n + 1)
        BY <3>1
      <4>2. Len(K[i + 1]) \in Nat
        BY <1>0, <4>1
      <4> QED
        <5> DEFINE l == Len(K[i + 1])
                   m == Len(K[i])
        <5>1. l \in Nat /\ l + 8 * q = n + 1 - (i + 1) /\ m = l + 1
          BY <3>1, <3>2, <4>2
        <5> HIDE DEF l, m
        <5>2. m + 8 * q = n + 1 - i
          BY <2>0, <5>1
        <5> QED
          BY <5>2, Zenon DEF m
    <3> QED
      BY <2>0, <3>3
  <2> QED
    BY <2>1, <2>2
<1> HIDE DEF S
<1>3. \A i \in 1..(n + 1) : i \in S
  BY <1>1, <1>2, CountingDown, Zenon
<1> QED
  BY <1>0, <1>3 DEF S, K

(* Where only zeros are left, fewer than eight of them are kept. *)
LEMMA KeptZeros ==
  ASSUME NEW n \in Nat, NEW b \in Strings(n)
  PROVE  \A i \in 1..(n + 1) : (\A j \in i..n : b[j] = 0) =>
           Len(KeptOf(b)[i]) <= 7 /\ \A j \in 1..Len(KeptOf(b)[i]) : KeptOf(b)[i][j] = 0
<1> DEFINE K == KeptOf(b)
           Low(i) == Len(K[i]) <= 7 /\ \A j \in 1..Len(K[i]) : K[i][j] = 0
           S == {i \in 1..(n + 1) : (\A j \in i..n : b[j] = 0) => Low(i)}
<1>0. \A i \in 1..(n + 1) :
        /\ Len(K[i]) \in Nat
        /\ i = n + 1 => K[i] = << >>
        /\ EightZerosAt(b, i) <=> i + 7 <= n /\ \A j \in i..(i + 7) : b[j] = 0
        /\ i <= n /\ EightZerosAt(b, i) => K[i] = K[i + 8] /\ i + 8 \in (i + 1)..(n + 1)
        /\ i <= n /\ ~EightZerosAt(b, i) =>
              /\ i + 1 \in (i + 1)..(n + 1)
              /\ Len(K[i]) = Len(K[i + 1]) + 1
              /\ K[i][1] = b[i] /\ \A j \in 1..Len(K[i + 1]) : K[i][j + 1] = K[i + 1][j]
  BY KeptCases, Zenon
<1>00. \A i \in 1..(n + 1) : \E q \in Nat : Len(K[i]) + 8 * q = n + 1 - i
  BY KeptLengths, Zenon
<1> HIDE DEF K
<1>1. n + 1 \in S
  <2>1. n + 1 \in 1..(n + 1)
    OBVIOUS
  <2>2. K[n + 1] = << >>
    BY <1>0, <2>1
  <2>3. Low(n + 1)
    BY <2>2
  <2> QED
    BY <2>1, <2>3, Zenon
<1>2. ASSUME NEW i \in 1..n, \A k \in (i + 1)..(n + 1) : k \in S
      PROVE  i \in S
  <2>0. i \in 1..(n + 1) /\ i <= n /\ i \in Nat
    OBVIOUS
  <2> SUFFICES ASSUME \A j \in i..n : b[j] = 0 PROVE Low(i)
    BY <2>0
  <2>1. CASE EightZerosAt(b, i)
    <3>1. K[i] = K[i + 8] /\ i + 8 \in S
      BY <1>0, <1>2, <2>0, <2>1
    <3>2. \A j \in (i + 8)..n : b[j] = 0
      OBVIOUS
    <3>3. Low(i + 8)
      BY <3>1, <3>2
    <3> QED
      BY <3>1, <3>3
  <2>2. CASE ~EightZerosAt(b, i)
    <3>1. i + 7 > n
      <4>1. SUFFICES ASSUME i + 7 <= n PROVE FALSE
        OBVIOUS
      <4>2. \A j \in i..(i + 7) : b[j] = 0
        BY <4>1
      <4>3. EightZerosAt(b, i)
        BY <1>0, <2>0, <4>1, <4>2, Zenon
      <4> QED
        BY <2>2, <4>3
    <3>2. /\ i + 1 \in S /\ Len(K[i]) = Len(K[i + 1]) + 1 /\ i + 1 \in 1..(n + 1)
          /\ K[i][1] = b[i] /\ \A j \in 1..Len(K[i + 1]) : K[i][j + 1] = K[i + 1][j]
      BY <1>0, <1>2, <2>0, <2>2
    <3>3. \A j \in (i + 1)..n : b[j] = 0
      OBVIOUS
    <3>4. Low(i + 1)
      BY <3>2, <3>3
    <3>5. Len(K[i]) \in Nat /\ Len(K[i + 1]) \in Nat
      BY <1>0, <2>0, <3>2
    <3>6. Len(K[i]) <= 7
      <4>1. PICK q \in Nat : Len(K[i]) + 8 * q = n + 1 - i
        BY <1>00, <2>0
      <4> QED
        BY <2>0, <3>1, <3>5, <4>1, FewLeft, Zenon
    <3>7. ASSUME NEW j \in 1..Len(K[i]) PROVE K[i][j] = 0
      <4>1. CASE j = 1
        BY <3>2, <4>1
      <4>2. CASE j # 1
        <5>1. j - 1 \in 1..Len(K[i + 1]) /\ (j - 1) + 1 = j
          BY <3>2, <3>5, <4>2
        <5>2. K[i][(j - 1) + 1] = K[i + 1][j - 1]
          BY <3>2, <5>1, Zenon
        <5>3. K[i + 1][j - 1] = 0
          BY <3>4, <5>1, Zenon
        <5> QED
          BY <5>1, <5>2, <5>3
      <4> QED
        BY <4>1, <4>2
    <3> QED
      BY <3>6, <3>7
  <2> QED
    BY <2>1, <2>2
<1> HIDE DEF S
<1>3. \A i \in 1..(n + 1) : i \in S
  BY <1>1, <1>2, CountingDown, Zenon
<1> QED
  BY <1>3 DEF S, K

LEMMA LastEight ==
  ASSUME NEW l \in Nat, NEW q \in Nat, NEW r \in Nat, NEW d \in Nat, l + 8 * q = d + 8 * r,
         l <= 7, d <= 7
  PROVE  l = d
OBVIOUS

LEMMA KeptAtEnd ==
  ASSUME NEW n \in Nat, NEW b \in Strings(n), NEW t \in 0..n, NEW r \in Nat, n = t + 8 * r,
         \A j \in (t + 1)..n : b[j] = 0,
         NEW i \in 1..(t + 1), \A j \in i..t : b[j] = 0, t + 1 - i <= 7
  PROVE  /\ Len(KeptOf(b)[i]) = t + 1 - i
         /\ \A j \in 1..(t + 1 - i) : KeptOf(b)[i][j] = 0
<1> DEFINE k == KeptOf(b)[i]
           l == Len(k)
<1>1. i \in 1..(n + 1) /\ i \in Nat /\ t \in Nat /\ t + 1 - i \in Nat
  OBVIOUS
<1>2. l \in Nat /\ \E q \in Nat : l + 8 * q = n + 1 - i
  BY <1>1, KeptLengths, Zenon
<1>3. \A j \in i..n : b[j] = 0
  OBVIOUS
<1>4. l <= 7 /\ \A j \in 1..l : k[j] = 0
  BY <1>1, <1>3, KeptZeros, Zenon
<1> HIDE DEF l, k
<1>5. PICK q \in Nat : l + 8 * q = n + 1 - i
  BY <1>2
<1>6. l + 8 * q = (t + 1 - i) + 8 * r
  BY <1>1, <1>2, <1>5
<1>7. l = t + 1 - i
  BY <1>1, <1>2, <1>4, <1>6, LastEight
<1>8. \A j \in 1..(t + 1 - i) : k[j] = 0
  BY <1>4, <1>7
<1> QED
  BY <1>7, <1>8, Zenon DEF l, k

(* A text without eight zeros in a row, and zeros behind it: the text is   *)
(* what is kept.                                                           *)
LEMMA KeptWhole ==
  ASSUME NEW n \in Nat, NEW b \in Strings(n), NEW t \in 0..n, NEW r \in Nat, n = t + 8 * r,
         \A j \in (t + 1)..n : b[j] = 0,
         \A i \in 1..t : i + 7 <= t => \E j \in i..(i + 7) : b[j] # 0
  PROVE  /\ removeTrailingZeros(b) \in Strings(t)
         /\ \A j \in 1..t : removeTrailingZeros(b)[j] = b[j]
<1> DEFINE K == KeptOf(b)
           Good(i) == Len(K[i]) = t + 1 - i /\ \A j \in 1..(t + 1 - i) : K[i][j] = b[i + j - 1]
           S == {i \in 1..(t + 1) : Good(i)}
<1>0. t \in Nat
  OBVIOUS
<1>1. \A i \in 1..(t + 1) : (\A j \in i..t : b[j] = 0) /\ t + 1 - i <= 7 =>
        /\ Len(K[i]) = t + 1 - i
        /\ \A j \in 1..(t + 1 - i) : K[i][j] = 0
  BY KeptAtEnd, Zenon
<1>a. \A i \in 1..(n + 1) : K[i] \in Seq(Bit)
  BY KeptCases, Zenon
<1>e. \A i \in 1..(n + 1) : EightZerosAt(b, i) <=> i + 7 <= n /\ \A j \in i..(i + 7) : b[j] = 0
  <2>1. Len(b) = n
    BY KeptExists, Zenon
  <2> QED
    BY <2>1, Zenon DEF EightZerosAt
<1>b. \A i \in 1..(n + 1) : i <= n /\ ~EightZerosAt(b, i) => Len(K[i]) = Len(K[i + 1]) + 1
  BY KeptCases, Zenon
<1>c. \A i \in 1..(n + 1) : i <= n /\ ~EightZerosAt(b, i) => K[i][1] = b[i]
  BY KeptCases, Zenon
<1>d. \A i \in 1..(n + 1) : i <= n /\ ~EightZerosAt(b, i) =>
        \A j \in 1..Len(K[i + 1]) : K[i][j + 1] = K[i + 1][j]
  BY KeptCases, Zenon
<1>2. \A i \in 1..(n + 1) :
        /\ K[i] \in Seq(Bit)
        /\ EightZerosAt(b, i) <=> i + 7 <= n /\ \A j \in i..(i + 7) : b[j] = 0
        /\ i <= n /\ ~EightZerosAt(b, i) =>
              /\ Len(K[i]) = Len(K[i + 1]) + 1
              /\ K[i][1] = b[i] /\ \A j \in 1..Len(K[i + 1]) : K[i][j + 1] = K[i + 1][j]
  <2> HIDE DEF K
  <2> QED
    BY <1>a, <1>b, <1>c, <1>d, <1>e, Zenon
<1> HIDE DEF K
<1>3. t + 1 \in S
  <2>1. t + 1 \in 1..(t + 1) /\ (\A j \in (t + 1)..t : b[j] = 0) /\ t + 1 - (t + 1) <= 7 /\ 1..(t + 1 - (t + 1)) = {}
    BY <1>0
  <2>2. Len(K[t + 1]) = t + 1 - (t + 1)
    BY <1>1, <2>1
  <2> QED
    BY <2>1, <2>2
<1>4. ASSUME NEW i \in 1..t, \A k \in (i + 1)..(t + 1) : k \in S
      PROVE  i \in S
  <2>0. i \in 1..(t + 1) /\ i \in 1..(n + 1) /\ i <= n /\ i \in Nat /\ i + 1 \in (i + 1)..(t + 1)
    BY <1>0
  <2>1. CASE EightZerosAt(b, i)
    <3>1. i + 7 <= n /\ \A j \in i..(i + 7) : b[j] = 0
      BY <1>2, <2>0, <2>1, Zenon
    <3>2. i + 7 > t
      <4>1. SUFFICES ASSUME i + 7 <= t PROVE FALSE
        BY <1>0, <2>0
      <4>2. PICK j \in i..(i + 7) : b[j] # 0
        BY <4>1
      <4> QED
        BY <3>1, <4>2
    <3>3. (\A j \in i..t : b[j] = 0) /\ t + 1 - i <= 7
      BY <1>0, <2>0, <3>1, <3>2
    <3>4. Len(K[i]) = t + 1 - i /\ \A j \in 1..(t + 1 - i) : K[i][j] = 0
      BY <1>1, <2>0, <3>3, Zenon
    <3>5. \A j \in 1..(t + 1 - i) : b[i + j - 1] = 0
      <4>1. \A j \in 1..(t + 1 - i) : i + j - 1 \in i..t
        BY <1>0, <2>0
      <4> QED
        BY <3>3, <4>1
    <3> QED
      BY <2>0, <3>4, <3>5
  <2>2. CASE ~EightZerosAt(b, i)
    <3>1. /\ Len(K[i]) = Len(K[i + 1]) + 1
          /\ K[i][1] = b[i] /\ \A j \in 1..Len(K[i + 1]) : K[i][j + 1] = K[i + 1][j]
      BY <1>2, <2>0, <2>2, Zenon
    <3>2. Len(K[i + 1]) = t + 1 - (i + 1) /\ \A j \in 1..(t + 1 - (i + 1)) : K[i + 1][j] = b[(i + 1) + j - 1]
      BY <1>4, <2>0
    <3>3. Len(K[i]) = t + 1 - i
      BY <1>0, <2>0, <3>1, <3>2
    <3>4. ASSUME NEW j \in 1..(t + 1 - i) PROVE K[i][j] = b[i + j - 1]
      <4>1. CASE j = 1
        <5>1. i + j - 1 = i
          BY <2>0, <4>1
        <5> QED
          BY <3>1, <4>1, <5>1
      <4>2. CASE j # 1
        <5>1. /\ j - 1 \in 1..(t + 1 - (i + 1)) /\ (j - 1) + 1 = j /\ (i + 1) + (j - 1) - 1 = i + j - 1
          BY <1>0, <2>0, <4>2
        <5>2. j - 1 \in 1..Len(K[i + 1])
          BY <3>2, <5>1
        <5>3. K[i][(j - 1) + 1] = K[i + 1][j - 1]
          BY <3>1, <5>2, Zenon
        <5>4. K[i + 1][j - 1] = b[(i + 1) + (j - 1) - 1]
          BY <3>2, <5>1, Zenon
        <5> QED
          BY <5>1, <5>3, <5>4
      <4> QED
        BY <4>1, <4>2
    <3> QED
      BY <2>0, <3>3, <3>4
  <2> QED
    BY <2>1, <2>2
<1> HIDE DEF S
<1>5. \A i \in 1..(t + 1) : i \in S
  BY <1>0, <1>3, <1>4, CountingDown, Zenon
<1>6. 1 \in S /\ 1 \in 1..(n + 1)
  BY <1>0, <1>5
<1>7. Len(K[1]) = t + 1 - 1 /\ \A j \in 1..(t + 1 - 1) : K[1][j] = b[1 + j - 1]
  BY <1>6 DEF S
<1>8. t + 1 - 1 = t /\ \A j \in 1..t : 1 + j - 1 = j
  BY <1>0
<1>9. K[1] \in Seq(Bit)
  BY <1>2, <1>6
<1>10. K[1] \in Strings(t) /\ \A j \in 1..t : K[1][j] = b[j]
  BY <1>7, <1>8, <1>9, SequenceIs DEF Strings
<1>11. removeTrailingZeros(b) = K[1]
  BY RemovedIs, Zenon DEF K
<1> QED
  BY <1>10, <1>11, Zenon

(* With eight zeros in the text, it gets shorter. *)
LEMMA KeptFewer ==
  ASSUME NEW n \in Nat, NEW b \in Strings(n), NEW t \in 0..n, NEW r \in Nat, n = t + 8 * r,
         \A j \in (t + 1)..n : b[j] = 0
  PROVE  /\ Len(removeTrailingZeros(b)) <= t
         /\ (\E i \in 1..t : i + 7 <= t /\ \A j \in i..(i + 7) : b[j] = 0) =>
              Len(removeTrailingZeros(b)) < t
<1> DEFINE K == KeptOf(b)
           Marked(i) == \E k \in i..t : k + 7 <= t /\ \A j \in k..(k + 7) : b[j] = 0
           S == {i \in 1..(t + 1) : Len(K[i]) <= t + 1 - i /\ (Marked(i) => Len(K[i]) < t + 1 - i)}
<1>0. t \in Nat
  OBVIOUS
<1>1. \A i \in 1..(t + 1) : (\A j \in i..t : b[j] = 0) /\ t + 1 - i <= 7 => Len(K[i]) = t + 1 - i
  BY KeptAtEnd, Zenon
<1>2. \A i \in 1..(n + 1) :
        /\ Len(K[i]) \in Nat
        /\ EightZerosAt(b, i) <=> i + 7 <= n /\ \A j \in i..(i + 7) : b[j] = 0
        /\ i <= n /\ EightZerosAt(b, i) => K[i] = K[i + 8]
        /\ i <= n /\ ~EightZerosAt(b, i) => Len(K[i]) = Len(K[i + 1]) + 1
  BY KeptCases, Zenon
<1> HIDE DEF K
<1>3. t + 1 \in S
  <2>1. t + 1 \in 1..(t + 1) /\ (\A j \in (t + 1)..t : b[j] = 0) /\ t + 1 - (t + 1) <= 7
    BY <1>0
  <2>2. Len(K[t + 1]) = t + 1 - (t + 1)
    BY <1>1, <2>1
  <2>3. ~Marked(t + 1) /\ t + 1 - (t + 1) <= t + 1 - (t + 1)
    BY <1>0
  <2> HIDE DEF Marked
  <2> QED
    BY <2>1, <2>2, <2>3
<1>4. ASSUME NEW i \in 1..t, \A k \in (i + 1)..(t + 1) : k \in S
      PROVE  i \in S
  <2>0. i \in 1..(t + 1) /\ i \in 1..(n + 1) /\ i <= n /\ i \in Nat /\ i + 1 \in (i + 1)..(t + 1) /\ i + 1 \in 1..(n + 1)
    BY <1>0
  <2>1. CASE EightZerosAt(b, i) /\ i + 7 <= t
    <3>1. i + 8 \in (i + 1)..(t + 1) /\ i + 8 \in 1..(n + 1)
      BY <1>0, <2>0, <2>1
    <3>2. K[i] = K[i + 8] /\ Len(K[i + 8]) <= t + 1 - (i + 8) /\ Len(K[i + 8]) \in Nat
      BY <1>2, <1>4, <2>0, <2>1, <3>1
    <3>3. Len(K[i]) < t + 1 - i /\ Len(K[i]) <= t + 1 - i
      BY <1>0, <2>0, <3>2
    <3> QED
      BY <2>0, <3>3
  <2>2. CASE EightZerosAt(b, i) /\ ~(i + 7 <= t)
    <3>1. i + 7 <= n /\ \A j \in i..(i + 7) : b[j] = 0
      BY <1>2, <2>0, <2>2, Zenon
    <3>2. (\A j \in i..t : b[j] = 0) /\ t + 1 - i <= 7
      BY <1>0, <2>0, <2>2, <3>1
    <3>3. Len(K[i]) = t + 1 - i
      BY <1>1, <2>0, <3>2
    <3>4. ~Marked(i)
      BY <1>0, <2>0, <2>2
    <3>5. t + 1 - i <= t + 1 - i
      BY <1>0, <2>0
    <3> HIDE DEF Marked
    <3> QED
      BY <2>0, <3>3, <3>4, <3>5
  <2>3. CASE ~EightZerosAt(b, i)
    <3>1. /\ Len(K[i]) = Len(K[i + 1]) + 1 /\ Len(K[i + 1]) \in Nat
          /\ Len(K[i + 1]) <= t + 1 - (i + 1)
          /\ Marked(i + 1) => Len(K[i + 1]) < t + 1 - (i + 1)
      BY <1>2, <1>4, <2>0, <2>3
    <3>2. Marked(i) => Marked(i + 1)
      <4>1. SUFFICES ASSUME NEW k \in i..t, k + 7 <= t, \A j \in k..(k + 7) : b[j] = 0
                     PROVE  Marked(i + 1)
        OBVIOUS
      <4>2. k # i
        <5>1. SUFFICES ASSUME k = i PROVE FALSE
          OBVIOUS
        <5>2. i + 7 <= n
          BY <1>0, <2>0, <4>1, <5>1
        <5> QED
          BY <1>2, <2>0, <2>3, <4>1, <5>1, <5>2
      <4>3. k \in (i + 1)..t
        BY <1>0, <2>0, <4>2
      <4> QED
        BY <4>1, <4>3
    <3> HIDE DEF Marked
    <3>3. Len(K[i]) <= t + 1 - i /\ (Marked(i) => Len(K[i]) < t + 1 - i)
      BY <1>0, <2>0, <3>1, <3>2
    <3> QED
      BY <2>0, <3>3
  <2> QED
    BY <2>1, <2>2, <2>3
<1>5. \A i \in 1..(t + 1) : i \in S
  <2> HIDE DEF S
  <2> QED
    BY <1>0, <1>3, <1>4, CountingDown, Zenon
<1>6. 1 \in 1..(t + 1) /\ t + 1 - 1 = t
  BY <1>0
<1>7. Len(K[1]) <= t /\ (Marked(1) => Len(K[1]) < t)
  <2> HIDE DEF Marked
  <2> QED
    BY <1>5, <1>6
<1>8. removeTrailingZeros(b) = K[1]
  BY RemovedIs, Zenon DEF K
<1> QED
  BY <1>7, <1>8, Zenon

LEMMA RemovedBits ==
  ASSUME NEW n \in Nat, NEW b \in Strings(n), n % 8 = 0
  PROVE  /\ removeTrailingZeros(b) \in Seq(Bit) /\ Len(removeTrailingZeros(b)) \in Nat
         /\ Len(removeTrailingZeros(b)) % 8 = 0
<1> DEFINE k == KeptOf(b)[1]
           l == Len(k)
<1>1. 1 \in 1..(n + 1)
  OBVIOUS
<1>2. k \in Seq(Bit) /\ l \in Nat
  BY <1>1, KeptCases, Zenon
<1>3. \E q \in Nat : l + 8 * q = n + 1 - 1
  BY <1>1, KeptLengths, Zenon
<1> HIDE DEF k, l
<1>4. PICK q \in Nat : l + 8 * q = n + 1 - 1
  BY <1>3
<1>5. l % 8 = 0
  BY <1>2, <1>4
<1>6. removeTrailingZeros(b) = k
  BY RemovedIs, Zenon DEF k
<1> QED
  BY <1>2, <1>5, <1>6, Zenon DEF l

-----------------------------------------------------------------------------
(* Parts of digits and of bytes, and their joins. *)

LEMMA DigitsPart ==
  ASSUME NEW len \in Nat, NEW s \in Digits(len), NEW m \in Nat, NEW n \in Nat,
         m # 0, m <= n + 1, n <= len
  PROVE  /\ \A i \in 1..(n - m + 1) : SubSeq(s, m, n)[i] = s[m + i - 1]
         /\ SubSeq(s, m, n) \in Digits(n - m + 1)
<1>1. s \in Seq(Digit) /\ Len(s) = len
  BY SequenceOf DEF Digits
<1>2. /\ SubSeq(s, m, n) = [i \in 1..(n - m + 1) |-> s[m + i - 1]]
      /\ SubSeq(s, m, n) \in Seq(Digit) /\ Len(SubSeq(s, m, n)) = n - m + 1
  <2>1. n <= Len(s)
    BY <1>1
  <2>2. s \in Seq(Digit)
    BY <1>1
  <2> QED
    BY <2>1, <2>2, PartIs, Zenon
<1> DEFINE t == SubSeq(s, m, n)
<1> HIDE DEF t
<1>3. t = [i \in 1..(n - m + 1) |-> s[m + i - 1]] /\ t \in Seq(Digit) /\ Len(t) = n - m + 1
  BY <1>2, Zenon DEF t
<1>4. t \in Digits(n - m + 1)
  BY <1>3, SequenceIs DEF Digits
<1>5. \A i \in 1..(n - m + 1) : t[i] = s[m + i - 1]
  BY <1>3
<1> QED
  BY <1>4, <1>5, Zenon DEF t

LEMMA DigitsJoin ==
  ASSUME NEW m \in Nat, NEW n \in Nat, NEW s \in Digits(m), NEW t \in Digits(n)
  PROVE  /\ \A i \in 1..m : (s \o t)[i] = s[i]
         /\ \A i \in 1..n : (s \o t)[m + i] = t[i]
         /\ s \o t \in Digits(m + n)
<1>1. /\ s \in Seq(Digit) /\ Len(s) = m
      /\ t \in Seq(Digit) /\ Len(t) = n
  BY SequenceOf DEF Digits
<1> DEFINE u == s \o t
<1>2. /\ u \in Seq(Digit) /\ Len(u) = Len(s) + Len(t)
      /\ \A i \in 1..Len(s) + Len(t) : u[i] = IF i <= Len(s) THEN s[i] ELSE t[i - Len(s)]
  BY <1>1, ConcatProperties
<1> HIDE DEF u
<1>3. u \in Digits(m + n)
  BY <1>1, <1>2, SequenceIs DEF Digits
<1>4. \A i \in 1..m : u[i] = s[i]
  BY <1>1, <1>2
<1>5. ASSUME NEW i \in 1..n PROVE u[m + i] = t[i]
  <2>1. m + i \in 1..Len(s) + Len(t) /\ ~(m + i <= Len(s)) /\ m + i - Len(s) = i
    BY <1>1
  <2> QED
    BY <1>2, <2>1
<1> QED
  BY <1>3, <1>4, <1>5, Zenon DEF u

LEMMA BytesPart ==
  ASSUME NEW len \in Nat, NEW s \in Bytes(len), NEW m \in Nat, NEW n \in Nat,
         m # 0, m <= n + 1, n <= len
  PROVE  /\ \A i \in 1..(n - m + 1) : SubSeq(s, m, n)[i] = s[m + i - 1]
         /\ SubSeq(s, m, n) \in Bytes(n - m + 1)
<1>1. s \in Seq(Byte) /\ Len(s) = len
  BY SequenceOf DEF Bytes
<1>2. /\ SubSeq(s, m, n) = [i \in 1..(n - m + 1) |-> s[m + i - 1]]
      /\ SubSeq(s, m, n) \in Seq(Byte) /\ Len(SubSeq(s, m, n)) = n - m + 1
  <2>1. n <= Len(s)
    BY <1>1
  <2>2. s \in Seq(Byte)
    BY <1>1
  <2> QED
    BY <2>1, <2>2, PartIs, Zenon
<1> DEFINE t == SubSeq(s, m, n)
<1> HIDE DEF t
<1>3. t = [i \in 1..(n - m + 1) |-> s[m + i - 1]] /\ t \in Seq(Byte) /\ Len(t) = n - m + 1
  BY <1>2, Zenon DEF t
<1>4. t \in Bytes(n - m + 1)
  BY <1>3, SequenceIs DEF Bytes
<1>5. \A i \in 1..(n - m + 1) : t[i] = s[m + i - 1]
  BY <1>3
<1> QED
  BY <1>4, <1>5, Zenon DEF t

LEMMA BytesJoin ==
  ASSUME NEW m \in Nat, NEW n \in Nat, NEW s \in Bytes(m), NEW t \in Bytes(n)
  PROVE  /\ \A i \in 1..m : (s \o t)[i] = s[i]
         /\ \A i \in 1..n : (s \o t)[m + i] = t[i]
         /\ s \o t \in Bytes(m + n)
<1>1. /\ s \in Seq(Byte) /\ Len(s) = m
      /\ t \in Seq(Byte) /\ Len(t) = n
  BY SequenceOf DEF Bytes
<1> DEFINE u == s \o t
<1>2. /\ u \in Seq(Byte) /\ Len(u) = Len(s) + Len(t)
      /\ \A i \in 1..Len(s) + Len(t) : u[i] = IF i <= Len(s) THEN s[i] ELSE t[i - Len(s)]
  BY <1>1, ConcatProperties
<1> HIDE DEF u
<1>3. u \in Bytes(m + n)
  BY <1>1, <1>2, SequenceIs DEF Bytes
<1>4. \A i \in 1..m : u[i] = s[i]
  BY <1>1, <1>2
<1>5. ASSUME NEW i \in 1..n PROVE u[m + i] = t[i]
  <2>1. m + i \in 1..Len(s) + Len(t) /\ ~(m + i <= Len(s)) /\ m + i - Len(s) = i
    BY <1>1
  <2> QED
    BY <1>2, <2>1
<1> QED
  BY <1>3, <1>4, <1>5, Zenon DEF u


(* A part of the digits is that of the bits, and a part of the bytes that of the digits. *)
LEMMA HexPart ==
  ASSUME NEW n \in Nat, NEW hex \in Digits(n), NEW m \in Nat, NEW k \in Nat, m + k <= n
  PROVE  /\ SubSeq(hex, m + 1, m + k) \in Digits(k)
         /\ \A q \in 1..k : SubSeq(hex, m + 1, m + k)[q] = hex[m + q]
         /\ hexToBin(SubSeq(hex, m + 1, m + k)) = SubSeq(hexToBin(hex), 4 * m + 1, 4 * m + 4 * k)
         /\ SubSeq(hexToBin(hex), 4 * m + 1, 4 * m + 4 * k) \in Strings(4 * k)
         /\ \A j \in 1..(4 * k) : SubSeq(hexToBin(hex), 4 * m + 1, 4 * m + 4 * k)[j] = hexToBin(hex)[4 * m + j]
<1> DEFINE part == SubSeq(hex, m + 1, m + k)
           bits == hexToBin(hex)
           cut  == SubSeq(bits, 4 * m + 1, 4 * m + 4 * k)
<1>1. part \in Digits(k) /\ \A q \in 1..k : part[q] = hex[m + q]
  <2>0. ((m + k) - (m + 1)) + 1 = k /\ \A q \in 1..k : m + 1 + q - 1 = m + q
    OBVIOUS
  <2>1. m + 1 \in Nat /\ m + k \in Nat /\ m + 1 # 0 /\ m + 1 <= m + k + 1 /\ m + k <= n
    OBVIOUS
  <2>2. /\ \A q \in 1..(((m + k) - (m + 1)) + 1) : part[q] = hex[m + 1 + q - 1]
        /\ part \in Digits(((m + k) - (m + 1)) + 1)
    BY <2>1, DigitsPart, Zenon
  <2> HIDE DEF part
  <2> QED
    BY <2>0, <2>2
<1>2. bits \in Strings(4 * n) /\ \A i \in 1..n :
        /\ bits[4 * i - 3] = (hex[i] \div 8) % 2 /\ bits[4 * i - 2] = (hex[i] \div 4) % 2
        /\ bits[4 * i - 1] = (hex[i] \div 2) % 2 /\ bits[4 * i] = hex[i] % 2
  BY HexToBinIs, Zenon
<1> HIDE DEF bits
<1>3. cut \in Strings(4 * k) /\ \A j \in 1..(4 * k) : cut[j] = bits[4 * m + j]
  <2>1. 4 * n \in Nat /\ 4 * m + 1 \in Nat /\ 4 * m + 4 * k \in Nat /\ 4 * m + 1 # 0
        /\ 4 * m + 1 <= 4 * m + 4 * k + 1 /\ 4 * m + 4 * k <= 4 * n
    OBVIOUS
  <2>0. ((4 * m + 4 * k) - (4 * m + 1)) + 1 = 4 * k
        /\ \A q \in 1..(4 * k) : 4 * m + 1 + q - 1 = 4 * m + q
    OBVIOUS
  <2>2. /\ \A q \in 1..(((4 * m + 4 * k) - (4 * m + 1)) + 1) : cut[q] = bits[4 * m + 1 + q - 1]
        /\ cut \in Strings(((4 * m + 4 * k) - (4 * m + 1)) + 1)
    <3>1. bits \in Strings(4 * n)
      BY <1>2
    <3> QED
      BY <3>1, <2>1, BitsPart, Zenon
  <2> HIDE DEF cut
  <2> QED
    BY <2>0, <2>2
<1> HIDE DEF part, cut
<1> DEFINE again == hexToBin(part)
<1>4. again \in Strings(4 * k) /\ \A i \in 1..k :
        /\ again[4 * i - 3] = (part[i] \div 8) % 2 /\ again[4 * i - 2] = (part[i] \div 4) % 2
        /\ again[4 * i - 1] = (part[i] \div 2) % 2 /\ again[4 * i] = part[i] % 2
  BY <1>1, HexToBinIs, Zenon
<1> HIDE DEF again
<1>5. ASSUME NEW j \in 1..(4 * k) PROVE again[j] = cut[j]
  <2>1. PICK i \in 1..k : j \in {4 * i - 3, 4 * i - 2, 4 * i - 1, 4 * i}
    <3>1. ((j + 3) \div 4) \in 1..k /\ j \in {4 * ((j + 3) \div 4) - 3, 4 * ((j + 3) \div 4) - 2, 4 * ((j + 3) \div 4) - 1, 4 * ((j + 3) \div 4)}
      OBVIOUS
    <3> QED
      BY <3>1
  <2>2. m + i \in 1..n /\ 4 * (m + i) = 4 * m + 4 * i /\ part[i] = hex[m + i]
    BY <1>1
  <2>3. /\ bits[4 * (m + i) - 3] = again[4 * i - 3] /\ bits[4 * (m + i) - 2] = again[4 * i - 2]
        /\ bits[4 * (m + i) - 1] = again[4 * i - 1] /\ bits[4 * (m + i)] = again[4 * i]
    BY <1>2, <1>4, <2>2
  <2>4. /\ 4 * (m + i) - 3 = 4 * m + (4 * i - 3) /\ 4 * (m + i) - 2 = 4 * m + (4 * i - 2)
        /\ 4 * (m + i) - 1 = 4 * m + (4 * i - 1)
    OBVIOUS
  <2>5. bits[4 * m + j] = again[j]
    BY <2>1, <2>2, <2>3, <2>4
  <2> QED
    BY <1>3, <2>5
<1>6. 4 * k \in Nat
  OBVIOUS
<1>7. again = cut
  BY <1>3, <1>4, <1>5, <1>6, SameBits, Zenon
<1> QED
  BY <1>1, <1>3, <1>7, Zenon DEF part, cut, again, bits

LEMMA BytePart ==
  ASSUME NEW n \in Nat, NEW bytes \in Bytes(n), NEW m \in Nat, NEW k \in Nat, m + k <= n
  PROVE  /\ SubSeq(bytes, m + 1, m + k) \in Bytes(k)
         /\ \A q \in 1..k : SubSeq(bytes, m + 1, m + k)[q] = bytes[m + q]
<1> DEFINE part == SubSeq(bytes, m + 1, m + k)
<1>1. m + 1 \in Nat /\ m + k \in Nat /\ m + 1 # 0 /\ m + 1 <= m + k + 1 /\ m + k <= n
  OBVIOUS
<1>0. ((m + k) - (m + 1)) + 1 = k /\ \A q \in 1..k : m + 1 + q - 1 = m + q
  OBVIOUS
<1>2. /\ \A q \in 1..(((m + k) - (m + 1)) + 1) : part[q] = bytes[m + 1 + q - 1]
      /\ part \in Bytes(((m + k) - (m + 1)) + 1)
  BY <1>1, BytesPart, Zenon
<1> HIDE DEF part
<1>3. part \in Bytes(k) /\ \A q \in 1..k : part[q] = bytes[m + q]
  BY <1>0, <1>2
<1> QED
  BY <1>3, Zenon DEF part

-----------------------------------------------------------------------------
(* The file of a client and its blocks. *)

BlockBytes == BlockBits \div 8
Padded(c) == addPadding(initializeData(c))

LEMMA BlockSizes ==
  /\ DigitsPerBlock \in Nat /\ DigitsPerBlock # 0 /\ 4 * DigitsPerBlock = BlockBits
  /\ BlockBytes \in Nat /\ BlockBytes # 0 /\ 2 * BlockBytes = DigitsPerBlock /\ 8 * BlockBytes = BlockBits
  /\ BlockBits \in Nat /\ BlockBits # 0 /\ BlockBits % 8 = 0 /\ DigitsPerBlock % 2 = 0
BY EncryptedTransferAssumption DEF DigitsPerBlock, BlockBytes

LEMMA Multiples ==
  ASSUME NEW d \in Nat, NEW n \in Nat, NEW i \in 1..n
  PROVE  /\ (i - 1) * d \in Nat /\ (i - 1) * d + d = i * d /\ i * d \in Nat /\ n * d \in Nat
         /\ (i - 1) * d + d <= n * d
<1>1. (i - 1) * d + d = i * d
  OBVIOUS
<1>2. PICK k \in Nat : n = i + k
  <2>1. n - i \in Nat /\ n = i + (n - i)
    OBVIOUS
  <2> QED
    BY <2>1
<1>3. n * d = i * d + k * d /\ k * d \in Nat /\ i * d \in Nat /\ n * d \in Nat
  BY <1>2
<1>4. (i - 1) * d \in Nat
  OBVIOUS
<1> QED
  BY <1>1, <1>3, <1>4

LEMMA MoreBlocks ==
  ASSUME NEW d \in Nat, NEW n \in Nat, NEW i \in 0..n
  PROVE  i * d <= n * d /\ i * d \in Nat /\ n * d \in Nat
<1>1. PICK k \in Nat : n = i + k
  <2>1. n - i \in Nat /\ n = i + (n - i)
    OBVIOUS
  <2> QED
    BY <2>1
<1>3. n * d = i * d + k * d /\ k * d \in Nat /\ i * d \in Nat /\ n * d \in Nat
  BY <1>1
<1> QED
  BY <1>3

LEMMA FileIs ==
  ASSUME NEW c \in Clients
  PROVE  /\ readFile(c) \in Seq(Byte) /\ Len(readFile(c)) \in Nat
         /\ readFile(c) \in Bytes(Len(readFile(c)))
<1>1. FileOf[c].content \in Seq(Byte)
  BY EncryptedTransferAssumption
<1>2. EndOfLine \in Byte
  BY DEF EndOfLine, Byte
<1>3. readFile(c) \in Seq(Byte)
  BY <1>1, <1>2 DEF readFile
<1> QED
  BY <1>3, SequenceIs DEF Bytes

LEMMA HexIs ==
  ASSUME NEW c \in Clients
  PROVE  LET file == readFile(c)
             hex  == initializeData(c)
         IN /\ Len(hex) = 2 * Len(file) /\ Len(hex) \in Nat /\ hex \in Digits(Len(hex))
            /\ hex \in Digits(2 * Len(file))
            /\ hexToASCII(hex) = file
            /\ \A i \in 1..Len(file) : hex[2 * i - 1] = file[i] \div 16 /\ hex[2 * i] = file[i] % 16
<1> DEFINE file == readFile(c)
           hex  == initializeData(c)
           n == Len(file)
<1>1. n \in Nat /\ file \in Bytes(n)
  BY FileIs, Zenon
<1>2. hex = strToHex(file)
  BY Zenon DEF initializeData
<1> HIDE DEF file, hex, n
<1>3. /\ hex \in Digits(2 * n)
      /\ \A i \in 1..n : hex[2 * i - 1] = file[i] \div 16 /\ hex[2 * i] = file[i] % 16
  <2>1. /\ strToHex(file) \in Digits(2 * n)
        /\ \A i \in 1..n : strToHex(file)[2 * i - 1] = file[i] \div 16 /\ strToHex(file)[2 * i] = file[i] % 16
    BY <1>1, StrToHexIs, Zenon
  <2> QED
    BY <1>2, <2>1, Zenon
<1>4. hexToASCII(hex) = file
  BY <1>1, <1>2, BytesAgain, Zenon
<1>5. 2 * n \in Nat
  BY <1>1
<1>6. Len(hex) = 2 * n
  BY <1>3, <1>5, SequenceOf, Zenon DEF Digits
<1>7. Len(hex) \in Nat /\ hex \in Digits(Len(hex))
  BY <1>3, <1>5, <1>6
<1> QED
  BY <1>3, <1>4, <1>6, <1>7, Zenon DEF file, hex, n

LEMMA PaddingIs ==
  ASSUME NEW n \in Nat, NEW d \in Nat, d # 0
  PROVE  /\ (d - (n % d)) % d \in Nat /\ (d - (n % d)) % d < d
         /\ ((n + ((d - (n % d)) % d)) \div d) * d = n + ((d - (n % d)) % d)
         /\ (n + ((d - (n % d)) % d)) \div d \in Nat
<1> DEFINE r == n % d
           p == (d - r) % d
           q == n \div d
<1>1. r \in Nat /\ r < d /\ n = d * q + r /\ q \in Nat
  OBVIOUS
<1> HIDE DEF q
<1>2. CASE r = 0
  <2>1. p = 0
    BY <1>1, <1>2
  <2>3. (d * q) \div d = q /\ q * d = d * q
    BY <1>1
  <2> HIDE DEF p, r
  <2>2. n + p = d * q
    BY <1>1, <1>2, <2>1
  <2>4. p \in Nat /\ p < d /\ ((n + p) \div d) * d = n + p /\ (n + p) \div d \in Nat
    BY <1>1, <2>1, <2>2, <2>3
  <2> QED
    BY <2>4 DEF p, r
<1>3. CASE r # 0
  <2>1. p = d - r
    BY <1>1, <1>3
  <2>3. (d * (q + 1)) \div d = q + 1 /\ (q + 1) * d = d * (q + 1) /\ d * (q + 1) = d * q + d
    BY <1>1
  <2> HIDE DEF r, p
  <2>2. n + p = d * (q + 1)
    <3> DEFINE z == d * q
    <3>1. z \in Int /\ n = z + r
      BY <1>1
    <3> HIDE DEF z
    <3>2. n + p = z + d
      BY <1>1, <2>1, <3>1
    <3> QED
      BY <2>3, <3>2 DEF z
  <2>5. p \in Nat /\ p < d /\ ((n + p) \div d) * d = n + p /\ (n + p) \div d \in Nat
    BY <1>1, <1>3, <2>1, <2>2, <2>3
  <2> QED
    BY <2>5 DEF p, r
<1> QED
  BY <1>2, <1>3

LEMMA ZerosAre ==
  ASSUME NEW n \in Nat
  PROVE  Zeros(n) \in Digits(n) /\ \A i \in 1..n : Zeros(n)[i] = 0
BY DEF Zeros, Digits, Digit

LEMMA PaddedIs ==
  ASSUME NEW c \in Clients
  PROVE  LET hex == initializeData(c)
             n == Len(hex)
             p == Padding(hex)
         IN /\ n \in Nat /\ p \in Nat /\ p < DigitsPerBlock /\ Blocks(c) \in Nat
            /\ Blocks(c) * DigitsPerBlock = n + p
            /\ Padded(c) \in Digits(Blocks(c) * DigitsPerBlock)
            /\ \A j \in 1..n : Padded(c)[j] = hex[j]
            /\ \A j \in 1..p : Padded(c)[n + j] = 0
<1> DEFINE hex == initializeData(c)
           n == Len(hex)
           p == Padding(hex)
<1>1. n \in Nat /\ hex \in Digits(n)
  BY HexIs, Zenon
<1>2. p = (DigitsPerBlock - (n % DigitsPerBlock)) % DigitsPerBlock
  BY Zenon DEF Padding
<1>3. Padded(c) = hex \o Zeros(p)
  BY Zenon DEF Padded, addPadding
<1>4. Blocks(c) = Len(Padded(c)) \div DigitsPerBlock
  BY Zenon DEF Blocks, Padded
<1> HIDE DEF hex, n, p
<1>5. /\ p \in Nat /\ p < DigitsPerBlock
      /\ ((n + p) \div DigitsPerBlock) * DigitsPerBlock = n + p
      /\ (n + p) \div DigitsPerBlock \in Nat
  <2>1. DigitsPerBlock \in Nat /\ DigitsPerBlock # 0
    BY BlockSizes
  <2> QED
    BY <1>1, <1>2, <2>1, PaddingIs, Zenon
<1>6. Zeros(p) \in Digits(p) /\ \A i \in 1..p : Zeros(p)[i] = 0
  BY <1>5, ZerosAre, Zenon
<1> DEFINE z == Zeros(p)
<1> HIDE DEF z
<1>7. /\ \A i \in 1..n : (hex \o z)[i] = hex[i]
      /\ \A i \in 1..p : (hex \o z)[n + i] = z[i]
      /\ hex \o z \in Digits(n + p)
  <2>1. z \in Digits(p) /\ p \in Nat
    BY <1>5, <1>6, Zenon DEF z
  <2> QED
    BY <1>1, <2>1, DigitsJoin, Zenon
<1> DEFINE all == Padded(c)
<1>8. all = hex \o z
  BY <1>3, Zenon DEF z
<1>9. Len(all) = n + p
  <2>1. n + p \in Nat /\ all \in Digits(n + p)
    BY <1>1, <1>5, <1>7, <1>8
  <2> QED
    BY <2>1, SequenceOf, Zenon DEF Digits
<1> HIDE DEF all
<1>10. Blocks(c) \in Nat /\ Blocks(c) * DigitsPerBlock = n + p
  <2>1. Blocks(c) = (n + p) \div DigitsPerBlock
    BY <1>4, <1>9, Zenon DEF all
  <2> QED
    BY <1>5, <2>1, Zenon
<1>11. all \in Digits(Blocks(c) * DigitsPerBlock)
  BY <1>7, <1>8, <1>10, Zenon
<1>12. (\A j \in 1..n : all[j] = hex[j]) /\ \A j \in 1..p : all[n + j] = 0
  <2>1. \A j \in 1..p : z[j] = 0
    BY <1>6 DEF z
  <2> QED
    BY <1>7, <1>8, <2>1, Zenon
<1> QED
  BY <1>1, <1>5, <1>10, <1>11, <1>12, Zenon DEF all, hex, n, p

LEMMA BlockIs ==
  ASSUME NEW c \in Clients, NEW i \in 1..Blocks(c)
  PROVE  LET d == DigitsPerBlock IN
         /\ BinBlock(c, i) \in Strings(BlockBits)
         /\ BinBlock(c, i) = hexToBin(SubSeq(Padded(c), (i - 1) * d + 1, (i - 1) * d + d))
         /\ binToHex(BinBlock(c, i)) \in Digits(d)
         /\ \A q \in 1..d : binToHex(BinBlock(c, i))[q] = Padded(c)[(i - 1) * d + q]
         /\ \A j \in 1..BlockBits : BinBlock(c, i)[j] = hexToBin(Padded(c))[4 * ((i - 1) * d) + j]
<1> DEFINE d == DigitsPerBlock
           n == Blocks(c) * d
           m == (i - 1) * d
           hex == Padded(c)
           part == SubSeq(hex, m + 1, m + d)
           cut == SubSeq(hexToBin(hex), 4 * m + 1, 4 * m + 4 * d)
<1>1. Blocks(c) \in Nat /\ hex \in Digits(n)
  BY PaddedIs, Zenon
<1>2. d \in Nat /\ d # 0 /\ 4 * d = BlockBits
  BY BlockSizes
<1>3. m \in Nat /\ m + d = i * d /\ n \in Nat /\ m + d <= n
  <2> HIDE DEF d
  <2> QED
    BY <1>1, <1>2, Multiples, Zenon
<1>4. 4 * m + 1 = (i - 1) * BlockBits + 1 /\ 4 * m + 4 * d = i * BlockBits
  <2> HIDE DEF d
  <2>1. (i - 1) * (4 * d) = 4 * m /\ i * (4 * d) = 4 * (i * d) /\ 4 * (m + d) = 4 * m + 4 * d
    BY <1>1, <1>2
  <2> QED
    BY <1>2, <1>3, <2>1
<1>5. BinBlock(c, i) = cut
  <2>1. BinBlock(c, i) = SubSeq(hexToBin(hex), (i - 1) * BlockBits + 1, i * BlockBits)
    BY Zenon DEF BinBlock, Padded
  <2> QED
    BY <1>4, <2>1, Zenon
<1> HIDE DEF d, n, m, hex
<1>6. /\ part \in Digits(d) /\ \A q \in 1..d : part[q] = hex[m + q]
      /\ hexToBin(part) = cut /\ cut \in Strings(4 * d)
      /\ \A j \in 1..(4 * d) : cut[j] = hexToBin(hex)[4 * m + j]
  <2>1. hex \in Digits(n) /\ n \in Nat /\ d \in Nat /\ m \in Nat /\ m + d <= n
    BY <1>1, <1>2, <1>3, Zenon
  <2> QED
    BY <2>1, HexPart, Zenon
<1> HIDE DEF part, cut
<1>7. binToHex(cut) = part
  BY <1>2, <1>6, DigitsAgain, Zenon
<1>8. cut \in Strings(BlockBits) /\ \A j \in 1..BlockBits : cut[j] = hexToBin(hex)[4 * m + j]
  BY <1>2, <1>6
<1> QED
  BY <1>5, <1>6, <1>7, <1>8, Zenon DEF part, d, m, hex

-----------------------------------------------------------------------------
(* The types of what is computed. *)

(* What is computed, and what it is at every step: a client with its keys  *)
(* has the ones agreed on, texts of digits are whole bytes, the disk holds *)
(* bytes.                                                                  *)
HexText == {h \in Seq(Digit) : Len(h) % 2 = 0}
Keyed   == {"iv", "name", "data", "end", "done"}

Values ==
  /\ DOMAIN sent = Clients /\ DOMAIN data_ = Clients /\ DOMAIN encrypted = Clients
  /\ \A c \in Clients : /\ sent[c] \in 0 .. Blocks(c) /\ data_[c] \in Seq(Digit)
                        /\ rk[c] \in Seq(Seq(Bit)) /\ (pc[c] \in Keyed => rk[c] = Agreed(c))
  /\ \A f \in Fds : users[f].hex_data \in HexText
  /\ disk \in [Names -> Seq(Byte)]

LEMMA AgreedKeys ==
  ASSUME NEW c \in Clients
  PROVE  Agreed(c) \in Keys /\ Agreed(c) \in Seq(Seq(Bit)) /\ Reverse(Agreed(c)) \in Keys
<1> DEFINE secret == ECDH_compute_key(KeyOf[c], ServerKeyOf[c])
           key == SubSeq(secret, 1, BlockBits)
<1>1. secret \in Seq(Bit) /\ Len(secret) >= BlockBits
  BY AgreementAssumption
<1>2. BlockBits \in Nat /\ BlockBits # 0
  BY BlockSizes
<1> HIDE DEF secret
<1>3. Len(secret) \in Nat /\ secret \in Strings(Len(secret))
  BY <1>1, SequenceIs, Zenon DEF Strings
<1>4. key \in Strings((BlockBits - 1) + 1)
  <2>1. 1 \in Nat /\ 1 # 0 /\ 1 <= BlockBits + 1 /\ BlockBits <= Len(secret)
    BY <1>1, <1>2, <1>3
  <2> QED
    BY <1>2, <1>3, <2>1, BitsPart, Zenon
<1>5. (BlockBits - 1) + 1 = BlockBits
  BY <1>2
<1>6. Agreed(c) = generateRoundKeys(key)
  BY Zenon DEF Agreed, SharedKey, secret
<1> HIDE DEF key
<1>7. Agreed(c) \in Keys
  BY <1>4, <1>5, <1>6, KeysOfRounds, Zenon
<1>8. Agreed(c) \in Seq(Strings(KeyBits))
  BY <1>7, Sizes, SequenceOf, Zenon DEF Keys
<1>9. Strings(KeyBits) \subseteq Seq(Bit)
  BY Sizes, SequenceOf, Zenon DEF Strings
<1>10. Agreed(c) \in Seq(Seq(Bit))
  <2> DEFINE keys == Agreed(c)
  <2>1. keys \in [1..Rounds -> Strings(KeyBits)] /\ Rounds \in Nat
    BY <1>7, Sizes DEF Keys
  <2> HIDE DEF keys
  <2>2. keys \in [1..Rounds -> Seq(Bit)]
    BY <1>9, <2>1
  <2>3. keys \in Seq(Seq(Bit))
    BY <2>1, <2>2, SequenceOf, Zenon
  <2> QED
    BY <2>3 DEF keys
<1> QED
  BY <1>7, <1>10, ReverseKeys

(* Whatever is deciphered, with whatever keys, a block of bits comes out. *)
LEMMA PlainBits ==
  ASSUME NEW bin, NEW keys, NEW iv
  PROVE  XOR_binary(feistel(bin, keys), iv) \in Strings(BlockBits)
<1>1. PICK bits : feistel(bin, keys) = Permute(bits, inverse_permutation)
  BY NetworkFolds, Zenon
<1>2. Permute(bits, inverse_permutation) = [i \in 1..Len(inverse_permutation) |-> bits[inverse_permutation[i]]]
  BY Sizes, PermuteIs, Zenon
<1>3. Len(inverse_permutation) = BlockBits /\ BlockBits \in Nat
  BY Sizes
<1> DEFINE x == [i \in 1..BlockBits |-> bits[inverse_permutation[i]]]
           S == {x[i] : i \in 1..BlockBits}
<1>4. feistel(bin, keys) = x
  BY <1>1, <1>2, <1>3, Zenon
<1>5. x \in [1..BlockBits -> S]
  OBVIOUS
<1> HIDE DEF x, S
<1> QED
  BY <1>3, <1>4, <1>5, XorIs, Zenon

LEMMA HexOfBits ==
  ASSUME NEW n \in Nat, n % 8 = 0, NEW bits \in Strings(n)
  PROVE  binToHex(bits) \in HexText
<1> DEFINE h == binToHex(bits)
<1>1. h \in Digits(n \div 4) /\ n \div 4 \in Nat
  BY BinToHexIs, Zenon
<1>2. (n \div 4) % 2 = 0
  OBVIOUS
<1> HIDE DEF h
<1>3. h \in Seq(Digit) /\ Len(h) = n \div 4
  BY <1>1, SequenceOf, Zenon DEF Digits
<1>4. h \in HexText
  BY <1>2, <1>3 DEF HexText
<1> QED
  BY <1>4 DEF h

LEMMA HexTextJoin ==
  ASSUME NEW s \in HexText, NEW t \in HexText
  PROVE  s \o t \in HexText
<1>1. s \in Seq(Digit) /\ t \in Seq(Digit) /\ Len(s) % 2 = 0 /\ Len(t) % 2 = 0
      /\ Len(s) \in Nat /\ Len(t) \in Nat
  BY SequenceIs DEF HexText
<1>2. s \o t \in Seq(Digit) /\ Len(s \o t) = Len(s) + Len(t)
  BY <1>1, ConcatProperties
<1> DEFINE m == Len(s)
           n == Len(t)
<1>3. m \in Nat /\ n \in Nat /\ m % 2 = 0 /\ n % 2 = 0
  BY <1>1
<1> HIDE DEF m, n
<1>4. (m + n) % 2 = 0
  BY <1>3
<1>5. Len(s \o t) % 2 = 0
  BY <1>2, <1>4 DEF m, n
<1> QED
  BY <1>2, <1>5 DEF HexText

(* What the server makes of a block. *)
Plain(u, bin) == XOR_binary(feistel(bin, u.rrk), u.iv)
Kept(u, bin)  == IF u.isTxt THEN removeTrailingZeros(Plain(u, bin)) ELSE Plain(u, bin)

LEMMA DecryptIs ==
  ASSUME NEW u, NEW bin, DOMAIN u = Fields
  PROVE  LET v == CBC_decrypt(u, bin) IN
         /\ v.hex_data = u.hex_data \o binToHex(Kept(u, bin)) /\ v.iv = bin
         /\ \A x \in Fields \ {"hex_data", "iv"} : v[x] = u[x]
         /\ v.ip = u.ip /\ v.isTxt = u.isTxt /\ v.file_name = u.file_name
BY DEF CBC_decrypt, Fields, Plain, Kept

LEMMA KeptText ==
  ASSUME NEW u, NEW bin
  PROVE  binToHex(Kept(u, bin)) \in HexText
<1> DEFINE p == Plain(u, bin)
           k == removeTrailingZeros(p)
<1>1. p \in Strings(BlockBits)
  BY PlainBits, Zenon DEF Plain
<1>2. BlockBits \in Nat /\ BlockBits % 8 = 0
  BY BlockSizes
<1> HIDE DEF p
<1>3. k \in Seq(Bit) /\ Len(k) \in Nat /\ Len(k) % 8 = 0
  BY <1>1, <1>2, RemovedBits, Zenon
<1> HIDE DEF k
<1>4. k \in Strings(Len(k))
  BY <1>3, SequenceIs, Zenon DEF Strings
<1>5. binToHex(k) \in HexText /\ binToHex(p) \in HexText
  BY <1>1, <1>2, <1>3, <1>4, HexOfBits, Zenon
<1>6. Kept(u, bin) \in {k, p}
  BY DEF Kept, k, p
<1> QED
  BY <1>5, <1>6

LEMMA BytesOfText ==
  ASSUME NEW h \in HexText
  PROVE  hexToASCII(h) \in Seq(Byte) /\ hexToASCII(h) \in Bytes(Len(h) \div 2)
         /\ 2 * (Len(h) \div 2) = Len(h) /\ Len(h) \in Nat /\ Len(h) \div 2 \in Nat
         /\ Len(hexToASCII(h)) = Len(h) \div 2
<1> DEFINE n == Len(h)
<1>1. n \in Nat /\ h \in Digits(n) /\ n % 2 = 0
  BY SequenceIs DEF HexText, Digits
<1> HIDE DEF n
<1>2. hexToASCII(h) \in Bytes(n \div 2) /\ n \div 2 \in Nat
  BY <1>1, HexToASCIIIs, Zenon
<1>3. hexToASCII(h) \in Seq(Byte) /\ Len(hexToASCII(h)) = n \div 2
  BY <1>2, SequenceOf, Zenon DEF Bytes
<1>4. 2 * (n \div 2) = n
  BY <1>1
<1> QED
  BY <1>1, <1>2, <1>3, <1>4, Zenon DEF n

LEMMA CipherBits ==
  ASSUME NEW c \in Clients, NEW i \in 1..Blocks(c), NEW mask
  PROVE  LET p == XOR_binary(BinBlock(c, i), mask)
             x == feistel(p, Agreed(c))
         IN /\ p \in Strings(BlockBits) /\ x \in Strings(BlockBits)
            /\ feistel(x, Reverse(Agreed(c))) = p
            /\ binToHex(x) \in Digits(DigitsPerBlock) /\ hexToBin(binToHex(x)) = x
            /\ binToHex(x) \in Seq(Digit)
<1> DEFINE p == XOR_binary(BinBlock(c, i), mask)
           x == feistel(p, Agreed(c))
<1>1. BlockBits \in Nat /\ DigitsPerBlock \in Nat /\ 4 * DigitsPerBlock = BlockBits
  BY BlockSizes
<1>2. p \in Strings(BlockBits)
  BY <1>1, BlockIs, XorBits, Zenon
<1> HIDE DEF p
<1>3. x \in Strings(BlockBits) /\ feistel(x, Reverse(Agreed(c))) = p
  BY <1>2, AgreedKeys, FeistelUndone, Zenon
<1> HIDE DEF x
<1>4. x \in Strings(4 * DigitsPerBlock)
  BY <1>1, <1>3
<1>5. binToHex(x) \in Digits(DigitsPerBlock) /\ hexToBin(binToHex(x)) = x
  BY <1>1, <1>4, BitsAgain, Zenon
<1>6. binToHex(x) \in Seq(Digit)
  BY <1>1, <1>5, SequenceOf, Zenon DEF Digits
<1> QED
  BY <1>2, <1>3, <1>5, <1>6, Zenon DEF x, p

-----------------------------------------------------------------------------

LEMMA InitValues == Init => Values
<1> SUFFICES ASSUME Init PROVE Values
  OBVIOUS
<1>1. /\ DOMAIN sent = Clients /\ DOMAIN data_ = Clients /\ DOMAIN encrypted = Clients
  BY Zenon DEF Init
<1>2. ASSUME NEW c \in Clients
      PROVE  /\ sent[c] \in 0 .. Blocks(c) /\ data_[c] \in Seq(Digit)
             /\ rk[c] \in Seq(Seq(Bit)) /\ (pc[c] \in Keyed => rk[c] = Agreed(c))
  <2>1. sent[c] = 0 /\ data_[c] = << >> /\ rk[c] = << >> /\ pc[c] = "start"
    BY Zenon DEF Init
  <2>2. Blocks(c) \in Nat
    BY PaddedIs, Zenon
  <2>3. pc[c] \notin Keyed
    BY <2>1 DEF Keyed
  <2> QED
    BY <2>1, <2>2, <2>3
<1>3. ASSUME NEW f \in Fds PROVE users[f].hex_data \in HexText
  <2>1. users[f] = NewUser("")
    BY Zenon DEF Init
  <2>2. users[f].hex_data = << >>
    <3>1. NewUser("").hex_data = << >>
      BY DEF NewUser
    <3> QED
      BY <2>1, <3>1, Zenon
  <2>3. << >> \in Seq(Digit) /\ Len(<< >>) % 2 = 0
    OBVIOUS
  <2> QED
    BY <2>2, <2>3 DEF HexText
<1>4. disk \in [Names -> Seq(Byte)]
  <2>1. disk = [n \in Names |-> << >>]
    BY Zenon DEF Init
  <2> QED
    BY <2>1
<1> QED
  BY <1>1, <1>2, <1>3, <1>4, Zenon DEF Values

-----------------------------------------------------------------------------
(* Each step keeps the types. *)

(* A client moves on and computes nothing. *)
LEMMA ClientMoves ==
  ASSUME StepInv, Values, NEW c \in Clients, NEW p, pc' = [pc EXCEPT ![c] = p],
         p \in Keyed => rk'[c] = Agreed(c),
         rk' = rk \/ rk' = [rk EXCEPT ![c] = Agreed(c)],
         UNCHANGED <<sent, data_, users, disk>>, DOMAIN encrypted' = DOMAIN encrypted
  PROVE  Values'
<1>1. DOMAIN sent' = Clients /\ DOMAIN data_' = Clients /\ DOMAIN encrypted' = Clients
  BY DEF Values
<1>2. ASSUME NEW d \in Clients
      PROVE  /\ sent'[d] \in 0 .. Blocks(d) /\ data_'[d] \in Seq(Digit)
             /\ rk'[d] \in Seq(Seq(Bit)) /\ (pc'[d] \in Keyed => rk'[d] = Agreed(d))
  <2>1. sent[d] \in 0 .. Blocks(d) /\ data_[d] \in Seq(Digit) /\ rk[d] \in Seq(Seq(Bit))
        /\ (pc[d] \in Keyed => rk[d] = Agreed(d))
    BY DEF Values
  <2>2. Agreed(d) \in Seq(Seq(Bit)) /\ Agreed(c) \in Seq(Seq(Bit))
    BY AgreedKeys
  <2>3. DOMAIN pc = Clients /\ DOMAIN rk = Clients
    BY DEF StepInv, Tables
  <2>4. sent'[d] = sent[d] /\ data_'[d] = data_[d]
    OBVIOUS
  <2>5. rk'[d] \in {rk[d], Agreed(d)} /\ (d # c => rk'[d] = rk[d] /\ pc'[d] = pc[d]) /\ pc'[c] = p
    BY <2>3
  <2>6. rk'[d] \in Seq(Seq(Bit))
    BY <2>1, <2>2, <2>5
  <2>7. (pc'[d] \in Keyed => rk'[d] = Agreed(d))
    BY <2>1, <2>5
  <2> QED
    BY <2>1, <2>4, <2>6, <2>7
<1>3. (\A f \in Fds : users'[f].hex_data \in HexText) /\ disk' \in [Names -> Seq(Byte)]
  BY DEF Values
<1> QED
  BY <1>1, <1>2, <1>3, Zenon DEF Values

LEMMA ConnectValues ==
  ASSUME StepInv, Values, NEW c \in Clients, Connect(c)
  PROVE  Values'
<1>1. /\ pc' = [pc EXCEPT ![c] = "key"] /\ rk' = rk
      /\ UNCHANGED <<sent, data_, users, disk>> /\ DOMAIN encrypted' = DOMAIN encrypted
  BY DEF Connect
<1>2. "key" \notin Keyed
  BY DEF Keyed
<1> QED
  BY <1>1, <1>2, ClientMoves, Zenon

LEMMA TakeKeyValues ==
  ASSUME StepInv, Values, NEW c \in Clients, TakeKey(c)
  PROVE  Values'
<1>1. /\ pc[c] = "key" /\ toClient[c] # << >> /\ pc' = [pc EXCEPT ![c] = "iv"]
      /\ UNCHANGED <<sent, data_, users, disk>> /\ DOMAIN encrypted' = DOMAIN encrypted
  BY DEF TakeKey, Answered, serverVars
<1>2. toClient[c] = <<Message("[public_key]", ServerKeyOf[c])>>
  BY <1>1, TalkAt DEF Dialogue, AtKey, Asks
<1>3. rk' = [rk EXCEPT ![c] = Agreed(c)]
  <2>1. Head(toClient[c]).value = ServerKeyOf[c]
    BY <1>2, OneMessage DEF Message
  <2> QED
    BY <2>1, Zenon DEF TakeKey, Agreed
<1>4. rk'[c] = Agreed(c)
  BY <1>3 DEF StepInv, Tables
<1> QED
  BY <1>1, <1>3, <1>4, ClientMoves, Zenon

(* A client that has the keys goes on. *)
LEMMA KeyedMoves ==
  ASSUME StepInv, Values, NEW c \in Clients, NEW p, pc' = [pc EXCEPT ![c] = p], pc[c] \in Keyed,
         UNCHANGED <<rk, sent, data_, users, disk>>, DOMAIN encrypted' = DOMAIN encrypted
  PROVE  Values'
<1>1. rk'[c] = Agreed(c)
  BY DEF Values
<1>2. UNCHANGED <<sent, data_, users, disk>> /\ rk' = rk
  OBVIOUS
<1> QED
  BY <1>1, <1>2, ClientMoves, Zenon

LEMMA SendNameValues ==
  ASSUME StepInv, Values, NEW c \in Clients, SendName(c)
  PROVE  Values'
<1>1. /\ pc[c] \in Keyed /\ pc' = [pc EXCEPT ![c] = "name"]
      /\ UNCHANGED <<rk, sent, data_, users, disk>> /\ DOMAIN encrypted' = DOMAIN encrypted
  BY DEF SendName, serverVars, Keyed
<1> QED
  BY <1>1, KeyedMoves, Zenon

LEMMA SendSizeValues ==
  ASSUME StepInv, Values, NEW c \in Clients, SendSize(c)
  PROVE  Values'
<1>1. /\ pc[c] \in Keyed /\ pc' = [pc EXCEPT ![c] = "data"]
      /\ UNCHANGED <<rk, sent, data_, users, disk>> /\ DOMAIN encrypted' = DOMAIN encrypted
  BY DEF SendSize, serverVars, Keyed
<1> QED
  BY <1>1, KeyedMoves, Zenon

LEMMA EndTextValues ==
  ASSUME StepInv, Values, NEW c \in Clients, EndText(c)
  PROVE  Values'
<1>1. /\ pc[c] \in Keyed /\ pc' = [pc EXCEPT ![c] = "end"]
      /\ UNCHANGED <<rk, sent, data_, users, disk>>
      /\ DOMAIN encrypted' = DOMAIN encrypted
  BY DEF EndText, serverVars, Keyed
<1> QED
  BY <1>1, KeyedMoves, Zenon

LEMMA LeaveValues ==
  ASSUME StepInv, Values, NEW c \in Clients, Leave(c)
  PROVE  Values'
<1>1. /\ pc[c] \in Keyed /\ pc' = [pc EXCEPT ![c] = "done"]
      /\ UNCHANGED <<rk, sent, data_, users, disk>>
      /\ DOMAIN encrypted' = DOMAIN encrypted
  BY DEF Leave, serverVars, Keyed
<1> QED
  BY <1>1, KeyedMoves, Zenon

(* The block that a client writes. *)
Cipher(c) == feistel(XOR_binary(BinBlock(c, sent[c] + 1), chain[c]), Agreed(c))

LEMMA EncryptIs ==
  ASSUME StepInv, Values, NEW c \in Clients, CBC_encrypt(c)
  PROVE  /\ pc[c] = "data" /\ sent[c] + 1 \in 1..Blocks(c) /\ sent[c] \in Nat /\ Blocks(c) \in Nat
         /\ sent' = [sent EXCEPT ![c] = @ + 1]
         /\ data_' = [data_ EXCEPT ![c] = @ \o binToHex(Cipher(c))]
         /\ \E garbage \in Garbage :
              LET cut == IF sent[c] + 1 = Blocks(c) /\ ~isTxt(c)
                         THEN 4 * addPaddingResult(initializeData(c), garbage) ELSE 0
              IN /\ chain' = [chain EXCEPT ![c] = CutInPlace(Cipher(c), cut)]
                 /\ toServer' = [toServer EXCEPT ![c] = Append(@, Message("block", CutInPlace(Cipher(c), cut)))]
         /\ toServer[c] = << >> /\ toClient[c] # << >> /\ toClient' = [toClient EXCEPT ![c] = Tail(@)]
         /\ UNCHANGED <<pc, rk, encrypted, backlog, fd, users, disk, completed>>
<1>1. pc[c] = "data" /\ sent[c] < Blocks(c) /\ toClient[c] # << >> /\ toClient' = [toClient EXCEPT ![c] = Tail(@)]
  BY DEF CBC_encrypt, Answered, Receive
<1>2. rk[c] = Agreed(c)
  BY <1>1 DEF Values, Keyed
<1>3. sent[c] \in Nat /\ Blocks(c) \in Nat /\ sent[c] + 1 \in 1..Blocks(c)
  <2>1. sent[c] \in 0..Blocks(c) /\ Blocks(c) \in Nat
    BY PaddedIs DEF Values
  <2> QED
    BY <1>1, <2>1
<1>4. /\ sent' = [sent EXCEPT ![c] = @ + 1]
      /\ data_' = [data_ EXCEPT ![c] = @ \o binToHex(Cipher(c))]
      /\ UNCHANGED <<pc, rk, encrypted, backlog, fd, users, disk, completed>>
  BY <1>2 DEF CBC_encrypt, Cipher, serverVars
<1>5. \E garbage \in Garbage :
        LET cut == IF sent[c] + 1 = Blocks(c) /\ ~isTxt(c)
                   THEN 4 * addPaddingResult(initializeData(c), garbage) ELSE 0
        IN /\ chain' = [chain EXCEPT ![c] = CutInPlace(Cipher(c), cut)]
           /\ toServer' = [toServer EXCEPT ![c] = Append(@, Message("block", CutInPlace(Cipher(c), cut)))]
  BY <1>2, Zenon DEF CBC_encrypt, Cipher, Send
<1>6. toServer[c] = << >>
  BY <1>1, BetweenBlocks DEF IsAnswered
<1> QED
  BY <1>1, <1>3, <1>4, <1>5, <1>6, Zenon

LEMMA EncryptValues ==
  ASSUME StepInv, Values, NEW c \in Clients, CBC_encrypt(c)
  PROVE  Values'
<1>1. /\ sent[c] + 1 \in 1..Blocks(c) /\ Blocks(c) \in Nat
      /\ sent' = [sent EXCEPT ![c] = @ + 1]
      /\ data_' = [data_ EXCEPT ![c] = @ \o binToHex(Cipher(c))]
      /\ UNCHANGED <<pc, rk, encrypted, users, disk>>
  BY EncryptIs, Zenon
<1>2. binToHex(Cipher(c)) \in Seq(Digit)
  BY <1>1, CipherBits, Zenon DEF Cipher
<1>3. DOMAIN sent' = Clients /\ DOMAIN data_' = Clients /\ DOMAIN encrypted' = Clients
  BY <1>1 DEF Values
<1>4. ASSUME NEW d \in Clients
      PROVE  /\ sent'[d] \in 0 .. Blocks(d) /\ data_'[d] \in Seq(Digit)
             /\ rk'[d] \in Seq(Seq(Bit)) /\ (pc'[d] \in Keyed => rk'[d] = Agreed(d))
  <2>1. sent[d] \in 0 .. Blocks(d) /\ data_[d] \in Seq(Digit) /\ rk[d] \in Seq(Seq(Bit))
        /\ (pc[d] \in Keyed => rk[d] = Agreed(d))
    BY DEF Values
  <2>2. DOMAIN sent = Clients /\ DOMAIN data_ = Clients
    BY DEF Values
  <2>3. d # c => sent'[d] = sent[d] /\ data_'[d] = data_[d]
    BY <1>1, <2>2
  <2>4. d = c => sent'[d] = sent[c] + 1 /\ data_'[d] = data_[c] \o binToHex(Cipher(c))
    BY <1>1, <2>2
  <2>5. data_[d] \o binToHex(Cipher(c)) \in Seq(Digit)
    BY <1>2, <2>1, ConcatProperties
  <2>6. sent'[d] \in 0 .. Blocks(d) /\ data_'[d] \in Seq(Digit)
    <3>1. CASE d = c
      <4>1. sent[c] + 1 \in 0..Blocks(c)
        BY <1>1
      <4> QED
        BY <2>4, <2>5, <3>1, <4>1
    <3>2. CASE d # c
      BY <2>1, <2>3, <3>2
    <3> QED
      BY <3>1, <3>2
  <2>7. rk' = rk /\ pc' = pc
    BY <1>1
  <2> QED
    BY <2>1, <2>6, <2>7
<1>5. (\A f \in Fds : users'[f].hex_data \in HexText) /\ disk' \in [Names -> Seq(Byte)]
  BY <1>1 DEF Values
<1> QED
  BY <1>3, <1>4, <1>5, Zenon DEF Values

LEMMA KillValues ==
  ASSUME StepInv, Values, NEW c \in Clients, Kill(c)
  PROVE  Values'
<1>1. /\ pc' = [pc EXCEPT ![c] = "killed"] /\ rk' = [rk EXCEPT ![c] = << >>]
      /\ sent' = [sent EXCEPT ![c] = 0] /\ data_' = [data_ EXCEPT ![c] = << >>]
      /\ UNCHANGED <<encrypted, users, disk>>
  BY DEF Kill, serverVars
<1>2. /\ DOMAIN pc = Clients /\ DOMAIN rk = Clients /\ DOMAIN sent = Clients /\ DOMAIN data_ = Clients
  BY DEF Values, StepInv, Tables
<1>3. DOMAIN sent' = Clients /\ DOMAIN data_' = Clients /\ DOMAIN encrypted' = Clients
  BY <1>1 DEF Values
<1>4. ASSUME NEW d \in Clients
      PROVE  /\ sent'[d] \in 0 .. Blocks(d) /\ data_'[d] \in Seq(Digit)
             /\ rk'[d] \in Seq(Seq(Bit)) /\ (pc'[d] \in Keyed => rk'[d] = Agreed(d))
  <2>1. CASE d = c
    <3>1. sent'[d] = 0 /\ data_'[d] = << >> /\ rk'[d] = << >> /\ pc'[d] = "killed"
      BY <1>1, <1>2, <2>1
    <3>2. Blocks(d) \in Nat
      BY PaddedIs, Zenon
    <3>3. pc'[d] \notin Keyed
      BY <3>1 DEF Keyed
    <3> QED
      BY <3>1, <3>2, <3>3
  <2>2. CASE d # c
    <3>1. sent'[d] = sent[d] /\ data_'[d] = data_[d] /\ rk'[d] = rk[d] /\ pc'[d] = pc[d]
      BY <1>1, <1>2, <2>2
    <3> QED
      BY <3>1 DEF Values
  <2> QED
    BY <2>1, <2>2
<1>5. (\A f \in Fds : users'[f].hex_data \in HexText) /\ disk' \in [Names -> Seq(Byte)]
  BY <1>1 DEF Values
<1> QED
  BY <1>3, <1>4, <1>5, Zenon DEF Values

(* The server changes an entry. *)
LEMMA ServerValues ==
  ASSUME StepInv, Values, UNCHANGED clientVars, NEW f \in Fds, NEW v,
         users' = [users EXCEPT ![f] = v], v.hex_data \in HexText, disk' \in [Names -> Seq(Byte)]
  PROVE  Values'
<1>1. /\ DOMAIN sent' = Clients /\ DOMAIN data_' = Clients /\ DOMAIN encrypted' = Clients
      /\ \A c \in Clients : /\ sent'[c] \in 0 .. Blocks(c) /\ data_'[c] \in Seq(Digit)
                            /\ rk'[c] \in Seq(Seq(Bit)) /\ (pc'[c] \in Keyed => rk'[c] = Agreed(c))
  BY DEF Values, clientVars
<1>2. \A g \in Fds : users'[g].hex_data \in HexText
  BY DEF Values, StepInv, Tables
<1> QED
  BY <1>1, <1>2, Zenon DEF Values

LEMMA AcceptValues ==
  ASSUME StepInv, Values, register_new_client
  PROVE  Values'
<1>1. PICK c \in Clients : c = Head(backlog) /\ fd[c] = NotAccepted
  <2>1. backlog \in Seq(Clients) /\ backlog # << >>
    BY DEF register_new_client, StepInv, Descriptors
  <2>2. Head(backlog) \in Clients /\ Head(backlog) = backlog[1] /\ 1 \in 1..Len(backlog)
    BY <2>1, HeadTailProperties, LenProperties, ElementOfSeq
  <2> QED
    BY <2>2 DEF StepInv, Descriptors
<1> DEFINE f == Min(Fds \ OpenFds)
           v == [NewUser(FileOf[c].ip) EXCEPT !.server_key = ServerKeyOf[c]]
<1>2. f \in Fds
  BY <1>1, SomeFdIsFree DEF StepInv
<1>3. UNCHANGED clientVars /\ UNCHANGED disk /\ users' = [users EXCEPT ![f] = v]
  BY <1>1, Zenon DEF register_new_client
<1>4. v.hex_data \in HexText
  <2>1. v.hex_data = << >>
    BY DEF NewUser
  <2>2. << >> \in Seq(Digit) /\ Len(<< >>) % 2 = 0
    OBVIOUS
  <2> HIDE DEF v
  <2> QED
    BY <2>1, <2>2 DEF HexText
<1>5. disk' \in [Names -> Seq(Byte)]
  BY <1>3 DEF Values
<1> HIDE DEF f, v
<1> QED
  BY <1>2, <1>3, <1>4, <1>5, ServerValues, Zenon

LEMMA ServeBlockValues ==
  ASSUME StepInv, Values, NEW f \in OpenFds, ServeBlock(f)
  PROVE  Values'
<1> DEFINE u == users[f]
           bin == Incoming(f).value
           v == CBC_decrypt(u, bin)
<1>1. f \in Fds
  BY ClientOfFd DEF StepInv
<1>2. UNCHANGED clientVars /\ users' = [users EXCEPT ![f] = v] /\ UNCHANGED disk
  BY Zenon DEF ServeBlock
<1>3. u.hex_data \in HexText /\ DOMAIN u = Fields
  BY <1>1 DEF Values, StepInv, Tables
<1> HIDE DEF u, bin
<1>4. v.hex_data \in HexText
  <2>1. v.hex_data = u.hex_data \o binToHex(Kept(u, bin))
    BY <1>3, DecryptIs, Zenon
  <2> QED
    BY <1>3, <2>1, KeptText, HexTextJoin, Zenon
<1>5. disk' \in [Names -> Seq(Byte)]
  BY <1>2 DEF Values
<1> HIDE DEF v
<1> QED
  BY <1>1, <1>2, <1>4, <1>5, ServerValues, Zenon

LEMMA DecryptFileValues ==
  ASSUME StepInv, Values, NEW f \in OpenFds, create_decrypt_file(f)
  PROVE  Values'
<1> DEFINE v == [users[f] EXCEPT !.EOC_flag = TRUE]
           more == hexToASCII(users[f].hex_data)
           name == users[f].file_name
<1>1. f \in Fds
  BY ClientOfFd DEF StepInv
<1>2. UNCHANGED clientVars /\ disk' = [disk EXCEPT ![name] = @ \o more]
  BY Zenon DEF create_decrypt_file, appendToFile
<1>3. users' = [users EXCEPT ![f] = v]
  BY <1>1 DEF create_decrypt_file, StepInv, Tables
<1>4. users[f].hex_data \in HexText /\ v.hex_data = users[f].hex_data
  BY <1>1 DEF Values, StepInv, Tables, Fields
<1>5. more \in Seq(Byte)
  BY <1>4, BytesOfText, Zenon
<1> HIDE DEF more, name, v
<1>6. disk' \in [Names -> Seq(Byte)]
  <2>1. disk \in [Names -> Seq(Byte)]
    BY DEF Values
  <2>2. ASSUME NEW n \in Names PROVE disk[n] \o more \in Seq(Byte)
    <3>1. disk[n] \in Seq(Byte)
      BY <2>1
    <3> QED
      BY <1>5, <3>1, ConcatProperties
  <2>3. disk' = [n \in Names |-> IF n = name THEN disk[n] \o more ELSE disk[n]]
    BY <1>2, <2>1
  <2> QED
    BY <2>1, <2>2, <2>3
<1> QED
  BY <1>1, <1>2, <1>3, <1>4, <1>6, ServerValues, Zenon

LEMMA ServeKeyValues ==
  ASSUME StepInv, Values, NEW f \in OpenFds, ServeKey(f)
  PROVE  Values'
<1> DEFINE u == users[f]
<1>1. f \in Fds
  BY ClientOfFd DEF StepInv
<1>2. PICK keys : users' = [users EXCEPT ![f].key_flag = TRUE, ![f].rrk = keys]
  BY Zenon DEF ServeKey
<1> DEFINE v == [u EXCEPT !.key_flag = TRUE, !.rrk = keys]
<1>3. u.hex_data \in HexText /\ DOMAIN u = Fields /\ DOMAIN users = Fds
  BY <1>1 DEF Values, StepInv, Tables
<1>4. users' = [users EXCEPT ![f] = v]
  BY <1>1, <1>2, <1>3
<1>5. UNCHANGED clientVars /\ UNCHANGED disk
  BY Zenon DEF ServeKey
<1>6. v.hex_data \in HexText
  BY <1>3 DEF Fields
<1>7. disk' \in [Names -> Seq(Byte)]
  BY <1>5 DEF Values
<1> HIDE DEF v
<1> QED
  BY <1>1, <1>4, <1>5, <1>6, <1>7, ServerValues, Zenon

(* What is known of the file, with one more marker. *)
Marked(u, c, in) ==
  CASE in.tag = "[iv]" -> [u EXCEPT !.iv = in.value]
    [] in.tag = "[file_name]" ->
         [u EXCEPT !.file_name = <<u.ip, in.value>>, !.isTxt = isTxt(c), !.file_name_flag = TRUE]
    [] in.tag = "[file_size]" -> [u EXCEPT !.file_size_flag = TRUE]

LEMMA MarkedIs ==
  ASSUME NEW u, NEW c, NEW in, in.tag \in {"[iv]", "[file_name]", "[file_size]"}, DOMAIN u = Fields
  PROVE  LET v == Marked(u, c, in) IN
         /\ v.hex_data = u.hex_data /\ v.ip = u.ip
         /\ in.tag = "[iv]" => v.iv = in.value /\ v.file_name = u.file_name /\ v.isTxt = u.isTxt
         /\ in.tag = "[file_name]" => v.iv = u.iv /\ v.file_name = <<u.ip, in.value>> /\ v.isTxt = isTxt(c)
         /\ in.tag = "[file_size]" => v.iv = u.iv /\ v.file_name = u.file_name /\ v.isTxt = u.isTxt
<1>1. CASE in.tag = "[iv]"
  <2>1. Marked(u, c, in) = [u EXCEPT !.iv = in.value]
    BY <1>1 DEF Marked
  <2> QED
    BY <1>1, <2>1 DEF Fields
<1>2. CASE in.tag = "[file_name]"
  <2>1. Marked(u, c, in) = [u EXCEPT !.file_name = <<u.ip, in.value>>, !.isTxt = isTxt(c), !.file_name_flag = TRUE]
    BY <1>2 DEF Marked
  <2> QED
    BY <1>2, <2>1 DEF Fields
<1>3. CASE in.tag = "[file_size]"
  <2>1. Marked(u, c, in) = [u EXCEPT !.file_size_flag = TRUE]
    BY <1>3 DEF Marked
  <2> QED
    BY <1>3, <2>1 DEF Fields
<1> QED
  BY <1>1, <1>2, <1>3

LEMMA MarkedKeeps ==
  ASSUME NEW u, NEW c, NEW in, in.tag \in {"[iv]", "[file_name]", "[file_size]"}, DOMAIN u = Fields
  PROVE  Marked(u, c, in).hex_data = u.hex_data /\ Marked(u, c, in).ip = u.ip
BY MarkedIs

LEMMA ServeMarkerValues ==
  ASSUME StepInv, Values, NEW f \in OpenFds, ServeMarker(f)
  PROVE  Values'
<1> DEFINE u == users[f]
           c == ClientAt(f)
           in == Incoming(f)
           v == Marked(u, c, in)
<1>1. f \in Fds
  BY ClientOfFd DEF StepInv
<1>2. /\ UNCHANGED clientVars /\ UNCHANGED disk
      /\ users' = [users EXCEPT ![f] = v] /\ in.tag \in {"[iv]", "[file_name]", "[file_size]"}
  BY Zenon DEF ServeMarker, Marked
<1>3. u.hex_data \in HexText /\ DOMAIN u = Fields
  BY <1>1 DEF Values, StepInv, Tables
<1>4. disk' \in [Names -> Seq(Byte)]
  BY <1>2 DEF Values
<1> HIDE DEF u, c, in
<1>5. v.hex_data = u.hex_data
  <2>1. in.tag \in {"[iv]", "[file_name]", "[file_size]"} /\ DOMAIN u = Fields
    BY <1>2, <1>3
  <2> QED
    BY <2>1, MarkedKeeps
<1> HIDE DEF v
<1> QED
  BY <1>1, <1>2, <1>3, <1>4, <1>5, ServerValues, Zenon

LEMMA ValuesUnchanged ==
  ASSUME Values, UNCHANGED <<pc, rk, sent, data_, encrypted, users, disk>>
  PROVE  Values'
BY DEF Values

LEMMA ValuesStay == StepInv /\ Values /\ [Next]_vars => Values'
<1> SUFFICES ASSUME StepInv, Values, [Next]_vars  PROVE Values'
  OBVIOUS
<1>1. CASE UNCHANGED vars
  BY <1>1, ValuesUnchanged DEF vars, clientVars, serverVars
<1>2. CASE register_new_client
  BY <1>2, AcceptValues
<1>3. ASSUME NEW f \in OpenFds, serve_client(f)  PROVE Values'
  <2>1. CASE ServeClosed(f)
    BY <2>1, ValuesUnchanged DEF ServeClosed, clientVars
  <2> QED
    BY <1>3, <2>1, ServeBlockValues, DecryptFileValues, ServeKeyValues, ServeMarkerValues DEF serve_client
<1>4. ASSUME NEW c \in Clients, ClientStep(c)  PROVE Values'
  BY <1>4, ConnectValues, TakeKeyValues, SendNameValues, SendSizeValues, EncryptValues,
     EndTextValues, LeaveValues DEF ClientStep
<1>5. ASSUME NEW c \in Clients, Kill(c)  PROVE Values'
  BY <1>5, KillValues
<1>6. CASE Idle
  BY <1>1, <1>6 DEF Idle
<1> QED
  BY <1>1, <1>2, <1>3, <1>4, <1>5, <1>6 DEF Next, Server

LEMMA TypeFollows == StepInv /\ Values => TypeOK
<1> SUFFICES ASSUME StepInv, Values PROVE TypeOK
  OBVIOUS
<1>1. /\ pc \in [Clients -> {"start", "key", "iv", "name", "data", "end", "done", "killed"}]
      /\ fd \in [Clients -> Fds \cup {NotAccepted, Closed}]
  BY DEF StepInv, Tables, PCs
<1>2. \A c \in Clients : sent[c] \in 0 .. Blocks(c) /\ rk[c] \in Seq(Seq(Bit)) /\ data_[c] \in Seq(Digit)
  BY DEF Values
<1>3. \A f \in Fds : users[f].hex_data \in Seq(Digit) /\ Len(users[f].hex_data) % 2 = 0
  BY DEF Values, HexText
<1>4. disk \in [Names -> Seq(Byte)]
  BY DEF Values
<1> QED
  BY <1>1, <1>2, <1>3, <1>4, Zenon DEF TypeOK

(* Every variable keeps its type whatever the files, keys and chaining     *)
(* values are: round keys and chaining values stay strings of bits of      *)
(* their lengths (key.cpp, Feistel.cpp), and what removeTrailingZeros of   *)
(* common.cpp leaves of a text is a whole number of bytes.                 *)
THEOREM TypeCorrect == Spec => []TypeOK
<1>1. Init => StepInv /\ Values
  BY InitStepInv, InitValues
<1>2. StepInv /\ Values /\ [Next]_vars => (StepInv /\ Values)'
  BY StepInvStays, ValuesStay
<1>3. StepInv /\ Values => TypeOK
  BY TypeFollows
<1> QED
  BY <1>1, <1>2, <1>3, PTL DEF Spec

-----------------------------------------------------------------------------
(* What a client has written, block by block. *)

BlockAt(h, i) == hexToBin(SubSeq(h, (i - 1) * DigitsPerBlock + 1, (i - 1) * DigitsPerBlock + DigitsPerBlock))
Chained(c, h, i) == IF i = 1 THEN IvOf[c] ELSE BlockAt(h, i - 1)

Enciphered(c, n, h) ==
  /\ h \in Digits(n * DigitsPerBlock)
  /\ \A i \in 1..n : feistel(BlockAt(h, i), Reverse(Agreed(c))) = XOR_binary(BinBlock(c, i), Chained(c, h, i))

(* Only the last block is ever cut. *)
Intact(c, i) == i = 0 \/ i < Blocks(c) \/ isTxt(c) \/ Padding(initializeData(c)) = 0

IsPicture(c) == FileOf[c].extension = "bmp"
Overlaid(c, bytes) ==
  LET n == Min({HeaderBytes, Len(FileOf[c].content)})
  IN SubSeq(FileOf[c].content, 1, n) \o SubSeq(bytes, n + 1, Len(bytes))

(* At p, with n blocks written as the digits h and the chaining value iv, a*)
(* client has enciphered the first n blocks, and what it has put beside its*)
(* picture is all of h, and at its end also the header.                    *)
Writing(c, p, n, h, iv, picture) ==
  /\ p \in {"start", "key", "iv", "name"} => n = 0
  /\ p # "killed" => Enciphered(c, n, h)
  /\ p = "data" => (Intact(c, n) => iv = Chained(c, h, n + 1))
  /\ p \in {"end", "done"} => n = Blocks(c)
  /\ p \notin {"end", "done", "killed"} => picture = << >>
  /\ p = "end" => (IsPicture(c) => picture = hexToASCII(h))
  /\ p = "done" => (IsPicture(c) => picture = Overlaid(c, hexToASCII(h)))

Written == \A c \in Clients : Writing(c, pc[c], sent[c], data_[c], chain[c], encrypted[c])

LEMMA PartStays ==
  ASSUME NEW m \in Nat, NEW d \in Nat, NEW s \in Digits(m), NEW t \in Digits(d), NEW at \in Nat, at + d <= m
  PROVE  SubSeq(s \o t, at + 1, at + d) = SubSeq(s, at + 1, at + d)
<1> DEFINE u == s \o t
           a == SubSeq(u, at + 1, at + d)
           b == SubSeq(s, at + 1, at + d)
<1>1. u \in Digits(m + d) /\ \A i \in 1..m : u[i] = s[i]
  BY DigitsJoin, Zenon
<1>2. m + d \in Nat /\ at + d <= m + d
  OBVIOUS
<1> HIDE DEF u
<1>3. a \in Digits(d) /\ \A q \in 1..d : a[q] = u[at + q]
  <2>1. u \in Digits(m + d)
    BY <1>1
  <2> QED
    BY <1>2, <2>1, HexPart, Zenon
<1>4. b \in Digits(d) /\ \A q \in 1..d : b[q] = s[at + q]
  BY HexPart, Zenon
<1> HIDE DEF a, b
<1>5. \A q \in 1..d : at + q \in 1..m
  OBVIOUS
<1>6. \A q \in 1..d : a[q] = b[q]
  BY <1>1, <1>3, <1>4, <1>5
<1>7. a = b
  BY <1>3, <1>4, <1>6, SameDigits, Zenon
<1> QED
  BY <1>7, Zenon DEF a, b, u

LEMMA PartAdded ==
  ASSUME NEW m \in Nat, NEW d \in Nat, NEW s \in Digits(m), NEW t \in Digits(d)
  PROVE  SubSeq(s \o t, m + 1, m + d) = t
<1> DEFINE u == s \o t
           a == SubSeq(u, m + 1, m + d)
<1>1. u \in Digits(m + d) /\ \A i \in 1..d : u[m + i] = t[i]
  BY DigitsJoin, Zenon
<1>2. m + d \in Nat /\ m + d <= m + d
  OBVIOUS
<1> HIDE DEF u
<1>3. a \in Digits(d) /\ \A q \in 1..d : a[q] = u[m + q]
  <2>1. u \in Digits(m + d)
    BY <1>1
  <2> QED
    BY <1>2, <2>1, HexPart, Zenon
<1> HIDE DEF a
<1>6. \A q \in 1..d : a[q] = t[q]
  BY <1>1, <1>3
<1>7. a = t
  BY <1>3, <1>6, SameDigits, Zenon
<1> QED
  BY <1>7, Zenon DEF a, u

LEMMA OneMoreBlock ==
  ASSUME NEW n \in Nat, NEW h \in Digits(n * DigitsPerBlock), NEW x \in Digits(DigitsPerBlock)
  PROVE  /\ h \o x \in Digits((n + 1) * DigitsPerBlock)
         /\ \A i \in 1..n : BlockAt(h \o x, i) = BlockAt(h, i)
         /\ BlockAt(h \o x, n + 1) = hexToBin(x)
<1> DEFINE d == DigitsPerBlock
           m == n * d
<1>1. d \in Nat
  BY BlockSizes
<1>2. m \in Nat /\ (n + 1) * d = m + d
  <2> HIDE DEF d
  <2> QED
    BY <1>1
<1>3. h \o x \in Digits(m + d)
  BY <1>1, <1>2, DigitsJoin, Zenon
<1>4. ASSUME NEW i \in 1..n PROVE BlockAt(h \o x, i) = BlockAt(h, i)
  <2>1. (i - 1) * d \in Nat /\ (i - 1) * d + d <= m
    BY <1>1, Multiples, Zenon
  <2> DEFINE at == (i - 1) * d
  <2>2. SubSeq(h \o x, at + 1, at + d) = SubSeq(h, at + 1, at + d)
    <3> HIDE DEF at, d
    <3>1. h \in Digits(m) /\ x \in Digits(d)
      BY DEF d
    <3>2. at \in Nat /\ at + d <= m
      BY <2>1 DEF at
    <3> HIDE DEF m
    <3> QED
      BY <1>1, <1>2, <3>1, <3>2, PartStays, Zenon
  <2> QED
    BY <2>2, Zenon DEF BlockAt
<1>5. BlockAt(h \o x, n + 1) = hexToBin(x)
  <2>1. ((n + 1) - 1) * d = m
    <3>1. (n + 1) - 1 = n
      OBVIOUS
    <3> QED
      BY <3>1
  <2>2. SubSeq(h \o x, m + 1, m + d) = x
    BY <1>1, <1>2, PartAdded, Zenon
  <2>3. SubSeq(h \o x, ((n + 1) - 1) * d + 1, ((n + 1) - 1) * d + d) = x
    BY <2>1, <2>2, Zenon
  <2> QED
    BY <2>3, Zenon DEF BlockAt
<1>6. h \o x \in Digits((n + 1) * d)
  BY <1>2, <1>3, Zenon
<1> QED
  BY <1>4, <1>5, <1>6, Zenon

LEMMA BlockBitsOf ==
  ASSUME NEW n \in Nat, NEW h \in Digits(n * DigitsPerBlock), NEW i \in 1..n
  PROVE  /\ BlockAt(h, i) \in Strings(BlockBits) /\ BlockAt(h, i) \in Seq(Bit) /\ Len(BlockAt(h, i)) = BlockBits
         /\ SubSeq(h, (i - 1) * DigitsPerBlock + 1, (i - 1) * DigitsPerBlock + DigitsPerBlock) \in Digits(DigitsPerBlock)
<1> DEFINE d == DigitsPerBlock
           m == n * d
           at == (i - 1) * d
           x == SubSeq(h, at + 1, at + d)
<1>1. d \in Nat /\ 4 * d = BlockBits /\ BlockBits \in Nat
  BY BlockSizes
<1>2. at \in Nat /\ at + d <= m /\ m \in Nat
  BY <1>1, Multiples, Zenon
<1> HIDE DEF at
<1>3. x \in Digits(d)
  <2>1. h \in Digits(m)
    OBVIOUS
  <2> HIDE DEF m, d
  <2> QED
    BY <1>1, <1>2, <2>1, HexPart, Zenon
<1> HIDE DEF x
<1>4. hexToBin(x) \in Strings(4 * d)
  BY <1>1, <1>3, HexToBinIs, Zenon
<1> DEFINE y == BlockAt(h, i)
<1>5. y \in Strings(BlockBits)
  <2>1. y = hexToBin(x)
    BY Zenon DEF BlockAt, x, at
  <2> QED
    BY <1>1, <1>4, <2>1, Zenon
<1> HIDE DEF y
<1>6. y \in Seq(Bit) /\ Len(y) = BlockBits
  BY <1>1, <1>5, SequenceOf, Zenon DEF Strings
<1> QED
  BY <1>3, <1>5, <1>6, Zenon DEF y, x, at

(* The next block, when the chaining value is what it should be. *)
LEMMA NextBlock ==
  ASSUME NEW c \in Clients, NEW n \in Nat, n + 1 \in 1..Blocks(c), NEW h, Enciphered(c, n, h)
  PROVE  LET x  == feistel(XOR_binary(BinBlock(c, n + 1), Chained(c, h, n + 1)), Agreed(c))
             g  == h \o binToHex(x)
         IN Enciphered(c, n + 1, g) /\ BlockAt(g, n + 1) = x /\ Chained(c, g, (n + 1) + 1) = x
<1> DEFINE p == XOR_binary(BinBlock(c, n + 1), Chained(c, h, n + 1))
           x == feistel(p, Agreed(c))
           y == binToHex(x)
           g == h \o y
<1>1. /\ feistel(x, Reverse(Agreed(c))) = p
      /\ y \in Digits(DigitsPerBlock) /\ hexToBin(y) = x
  BY CipherBits, Zenon
<1> HIDE DEF x, y
<1>2. h \in Digits(n * DigitsPerBlock)
  BY DEF Enciphered
<1>3. /\ g \in Digits((n + 1) * DigitsPerBlock)
      /\ \A i \in 1..n : BlockAt(g, i) = BlockAt(h, i)
      /\ BlockAt(g, n + 1) = hexToBin(y)
  BY <1>1, <1>2, OneMoreBlock, Zenon
<1> HIDE DEF g
<1>4. ASSUME NEW i \in 1..(n + 1)
      PROVE  feistel(BlockAt(g, i), Reverse(Agreed(c))) = XOR_binary(BinBlock(c, i), Chained(c, g, i))
  <2>1. Chained(c, g, i) = Chained(c, h, i)
    <3>1. CASE i = 1
      BY <3>1 DEF Chained
    <3>2. CASE i # 1
      <4>1. i - 1 \in 1..n
        BY <3>2
      <4> QED
        BY <1>3, <3>2, <4>1 DEF Chained
    <3> QED
      BY <3>1, <3>2
  <2>2. CASE i = n + 1
    <3>1. feistel(BlockAt(g, i), Reverse(Agreed(c))) = p
      BY <1>1, <1>3, <2>2, Zenon
    <3> QED
      BY <2>1, <2>2, <3>1, Zenon
  <2>3. CASE i # n + 1
    <3>1. i \in 1..n
      BY <2>3
    <3>2. feistel(BlockAt(h, i), Reverse(Agreed(c))) = XOR_binary(BinBlock(c, i), Chained(c, h, i))
      BY <3>1 DEF Enciphered
    <3> QED
      BY <1>3, <2>1, <3>1, <3>2, Zenon
  <2> QED
    BY <2>2, <2>3
<1>5. Enciphered(c, n + 1, g)
  BY <1>3, <1>4, Zenon DEF Enciphered
<1>6. BlockAt(g, n + 1) = x
  BY <1>1, <1>3, Zenon
<1>7. Chained(c, g, (n + 1) + 1) = x
  <2>1. (n + 1) + 1 # 1 /\ ((n + 1) + 1) - 1 = n + 1
    OBVIOUS
  <2>2. Chained(c, g, (n + 1) + 1) = BlockAt(g, ((n + 1) + 1) - 1)
    BY <2>1, Zenon DEF Chained
  <2> QED
    BY <1>6, <2>1, <2>2, Zenon
<1> QED
  BY <1>5, <1>6, <1>7, Zenon DEF g, y, x

-----------------------------------------------------------------------------
(* Each step keeps what the clients have written. *)

LEMMA NothingEnciphered ==
  ASSUME NEW c
  PROVE  Enciphered(c, 0, << >>)
<1>1. 0 * DigitsPerBlock = 0
  BY BlockSizes
<1>2. << >> \in [1..0 -> Digit] /\ 1..0 = {}
  <2>1. << >> \in Seq(Digit) /\ Len(<< >>) = 0
    OBVIOUS
  <2> QED
    BY <2>1, SequenceIs
<1> QED
  BY <1>1, <1>2, Zenon DEF Enciphered, Digits

OthersIdle(c) ==
  \A d \in Clients \ {c} :
    /\ pc'[d] = pc[d] /\ sent'[d] = sent[d] /\ data_'[d] = data_[d]
    /\ chain'[d] = chain[d] /\ encrypted'[d] = encrypted[d]

LEMMA OthersWritten ==
  ASSUME Written, NEW c \in Clients, OthersIdle(c),
         Writing(c, pc'[c], sent'[c], data_'[c], chain'[c], encrypted'[c])
  PROVE  Written'
<1> SUFFICES ASSUME NEW d \in Clients
             PROVE  Writing(d, pc'[d], sent'[d], data_'[d], chain'[d], encrypted'[d])
  BY Zenon DEF Written
<1>1. CASE d = c
  BY <1>1
<1>2. CASE d # c
  <2>1. Writing(d, pc[d], sent[d], data_[d], chain[d], encrypted[d])
    BY DEF Written
  <2> QED
    BY <1>2, <2>1 DEF OthersIdle
<1> QED
  BY <1>1, <1>2

LEMMA InitWritten == Init => Written
<1> SUFFICES ASSUME Init, NEW c \in Clients
             PROVE  Writing(c, pc[c], sent[c], data_[c], chain[c], encrypted[c])
  BY Zenon DEF Written
<1>1. pc[c] = "start" /\ sent[c] = 0 /\ data_[c] = << >> /\ encrypted[c] = << >>
  BY Zenon DEF Init
<1> QED
  BY <1>1, NothingEnciphered DEF Writing

(* A client that only moves on from p to q. *)
LEMMA MovesOn ==
  ASSUME StepInv, Values, Written, NEW c \in Clients, NEW q \in {"key", "iv", "name", "data"},
         pc' = [pc EXCEPT ![c] = q], pc[c] \in {"start", "key", "iv", "name"},
         UNCHANGED <<sent, data_, encrypted>>,
         \/ UNCHANGED chain /\ q # "data"
         \/ chain' = [chain EXCEPT ![c] = IvOf[c]]
  PROVE  Written'
<1>1. Writing(c, pc[c], sent[c], data_[c], chain[c], encrypted[c])
  BY DEF Written
<1>2. DOMAIN pc = Clients /\ DOMAIN chain = Clients
  BY DEF StepInv, Tables
<1>3. OthersIdle(c) /\ pc'[c] = q /\ sent'[c] = sent[c] /\ data_'[c] = data_[c] /\ encrypted'[c] = encrypted[c]
  BY <1>2 DEF OthersIdle
<1>4. q = "data" => chain'[c] = IvOf[c] /\ sent[c] = 0
  BY <1>1, <1>2 DEF Writing
<1>5. Writing(c, q, sent[c], data_[c], chain'[c], encrypted[c])
  <2>1. \A h : Chained(c, h, 0 + 1) = IvOf[c]
    BY DEF Chained
  <2>2. q = "data" => chain'[c] = Chained(c, data_[c], sent[c] + 1)
    BY <1>4, <2>1
  <2>3. q \in {"start", "key", "iv", "name"} => sent[c] = 0
    BY <1>1 DEF Writing
  <2>4. Enciphered(c, sent[c], data_[c])
    BY <1>1 DEF Writing
  <2>5. q \notin {"end", "done", "killed"} => encrypted[c] = << >>
    BY <1>1 DEF Writing
  <2> QED
    BY <2>2, <2>3, <2>4, <2>5 DEF Writing
<1>6. Writing(c, pc'[c], sent'[c], data_'[c], chain'[c], encrypted'[c])
  BY <1>3, <1>5, Zenon
<1> QED
  BY <1>3, <1>6, OthersWritten, Zenon


LEMMA ConnectWrites ==
  ASSUME StepInv, Values, Written, NEW c \in Clients, Connect(c)
  PROVE  Written'
<1>1. /\ pc' = [pc EXCEPT ![c] = "key"] /\ pc[c] \in {"start", "key", "iv", "name"}
      /\ UNCHANGED <<sent, data_, encrypted>> /\ UNCHANGED chain /\ "key" # "data"
      /\ "key" \in {"key", "iv", "name", "data"}
  BY DEF Connect, Started
<1> QED
  BY <1>1, MovesOn, Zenon

LEMMA TakeKeyWrites ==
  ASSUME StepInv, Values, Written, NEW c \in Clients, TakeKey(c)
  PROVE  Written'
<1>1. /\ pc' = [pc EXCEPT ![c] = "iv"] /\ pc[c] \in {"start", "key", "iv", "name"}
      /\ UNCHANGED <<sent, data_, encrypted>> /\ UNCHANGED chain /\ "iv" # "data"
      /\ "iv" \in {"key", "iv", "name", "data"}
  BY DEF TakeKey, serverVars
<1> QED
  BY <1>1, MovesOn, Zenon

LEMMA SendNameWrites ==
  ASSUME StepInv, Values, Written, NEW c \in Clients, SendName(c)
  PROVE  Written'
<1>1. /\ pc' = [pc EXCEPT ![c] = "name"] /\ pc[c] \in {"start", "key", "iv", "name"}
      /\ UNCHANGED <<sent, data_, encrypted>> /\ UNCHANGED chain /\ "name" # "data"
      /\ "name" \in {"key", "iv", "name", "data"}
  BY DEF SendName, serverVars
<1> QED
  BY <1>1, MovesOn, Zenon

LEMMA SendSizeWrites ==
  ASSUME StepInv, Values, Written, NEW c \in Clients, SendSize(c)
  PROVE  Written'
<1>1. /\ pc' = [pc EXCEPT ![c] = "data"] /\ pc[c] \in {"start", "key", "iv", "name"}
      /\ UNCHANGED <<sent, data_, encrypted>> /\ chain' = [chain EXCEPT ![c] = IvOf[c]]
      /\ "data" \in {"key", "iv", "name", "data"}
  BY DEF SendSize, serverVars
<1> QED
  BY <1>1, MovesOn, Zenon

LEMMA EndTextWrites ==
  ASSUME StepInv, Values, Written, NEW c \in Clients, EndText(c)
  PROVE  Written'
<1>1. /\ pc[c] = "data" /\ sent[c] = Blocks(c)
      /\ encrypted' = [encrypted EXCEPT ![c] =
                         IF FileOf[c].extension = "bmp" THEN @ \o hexToASCII(data_[c]) ELSE @]
      /\ pc' = [pc EXCEPT ![c] = "end"] /\ UNCHANGED <<chain, sent, data_>>
  BY DEF EndText
<1>2. Writing(c, pc[c], sent[c], data_[c], chain[c], encrypted[c])
  BY DEF Written
<1>3. DOMAIN pc = Clients /\ DOMAIN encrypted = Clients
  BY DEF StepInv, Tables, Values
<1>4. OthersIdle(c) /\ pc'[c] = "end" /\ sent'[c] = sent[c] /\ data_'[c] = data_[c] /\ chain'[c] = chain[c]
  BY <1>1, <1>3 DEF OthersIdle
<1>5. encrypted[c] = << >> /\ Enciphered(c, sent[c], data_[c])
  BY <1>1, <1>2 DEF Writing
<1>6. IsPicture(c) => encrypted'[c] = hexToASCII(data_[c])
  <2>1. SUFFICES ASSUME IsPicture(c) PROVE encrypted'[c] = hexToASCII(data_[c])
    OBVIOUS
  <2> DEFINE bytes == hexToASCII(data_[c])
             m == sent[c] * DigitsPerBlock
  <2>2. data_[c] \in Digits(m) /\ m \in Nat
    <3>1. sent[c] \in Nat /\ DigitsPerBlock \in Nat
      BY BlockSizes DEF Values
    <3> QED
      BY <1>5, <3>1 DEF Enciphered
  <2> HIDE DEF m
  <2>3. bytes \in Bytes(m \div 2) /\ m \div 2 \in Nat
    BY <2>2, HexToASCIIIs, Zenon
  <2>4. bytes \in Seq(Byte)
    BY <2>3, SequenceOf, Zenon DEF Bytes
  <2>5. encrypted'[c] = << >> \o bytes
    BY <1>1, <1>3, <1>5, <2>1 DEF IsPicture
  <2> HIDE DEF bytes
  <2>6. << >> \o bytes = bytes
    BY <2>4
  <2> QED
    BY <2>5, <2>6, Zenon DEF bytes
<1>7. Writing(c, "end", sent[c], data_[c], chain[c], encrypted'[c])
  BY <1>1, <1>5, <1>6, Zenon DEF Writing
<1>8. Writing(c, pc'[c], sent'[c], data_'[c], chain'[c], encrypted'[c])
  BY <1>4, <1>7, Zenon
<1> QED
  BY <1>4, <1>8, OthersWritten, Zenon

LEMMA LeaveWrites ==
  ASSUME StepInv, Values, Written, NEW c \in Clients, Leave(c)
  PROVE  Written'
<1>1. /\ pc[c] = "end"
      /\ encrypted' = [encrypted EXCEPT ![c] = IF FileOf[c].extension = "bmp" THEN runDD(c) ELSE @]
      /\ pc' = [pc EXCEPT ![c] = "done"] /\ UNCHANGED <<chain, sent, data_>>
  BY DEF Leave
<1>2. Writing(c, pc[c], sent[c], data_[c], chain[c], encrypted[c])
  BY DEF Written
<1>3. DOMAIN pc = Clients /\ DOMAIN encrypted = Clients
  BY DEF StepInv, Tables, Values
<1>4. OthersIdle(c) /\ pc'[c] = "done" /\ sent'[c] = sent[c] /\ data_'[c] = data_[c] /\ chain'[c] = chain[c]
  BY <1>1, <1>3 DEF OthersIdle
<1>5. sent[c] = Blocks(c) /\ Enciphered(c, sent[c], data_[c]) /\ (IsPicture(c) => encrypted[c] = hexToASCII(data_[c]))
  BY <1>1, <1>2 DEF Writing
<1>6. IsPicture(c) => encrypted'[c] = Overlaid(c, hexToASCII(data_[c]))
  <2>1. IsPicture(c) => encrypted'[c] = runDD(c)
    BY <1>1, <1>3 DEF IsPicture
  <2>2. runDD(c) = Overlaid(c, encrypted[c])
    BY Zenon DEF runDD, Overlaid
  <2> QED
    BY <1>5, <2>1, <2>2, Zenon
<1>7. Writing(c, "done", sent[c], data_[c], chain[c], encrypted'[c])
  BY <1>5, <1>6 DEF Writing
<1>8. Writing(c, pc'[c], sent'[c], data_'[c], chain'[c], encrypted'[c])
  BY <1>4, <1>7, Zenon
<1> QED
  BY <1>4, <1>8, OthersWritten, Zenon

LEMMA KillWrites ==
  ASSUME StepInv, Values, Written, NEW c \in Clients, Kill(c)
  PROVE  Written'
<1>1. /\ pc' = [pc EXCEPT ![c] = "killed"] /\ chain' = [chain EXCEPT ![c] = << >>]
      /\ sent' = [sent EXCEPT ![c] = 0] /\ data_' = [data_ EXCEPT ![c] = << >>] /\ UNCHANGED encrypted
  BY DEF Kill
<1>2. DOMAIN pc = Clients /\ DOMAIN chain = Clients /\ DOMAIN sent = Clients /\ DOMAIN data_ = Clients
  BY DEF StepInv, Tables, Values
<1>3. OthersIdle(c) /\ pc'[c] = "killed"
  BY <1>1, <1>2 DEF OthersIdle
<1>4. Writing(c, pc'[c], sent'[c], data_'[c], chain'[c], encrypted'[c])
  BY <1>3 DEF Writing
<1> QED
  BY <1>3, <1>4, OthersWritten, Zenon

(* The last block is the one that is cut, and only when it was filled up.  *)
LEMMA NotCut ==
  ASSUME NEW c, NEW i, NEW garbage, NEW x, i # 0, Intact(c, i)
  PROVE  LET cut == IF i = Blocks(c) /\ ~isTxt(c)
                    THEN 4 * addPaddingResult(initializeData(c), garbage) ELSE 0
         IN ~(i < Blocks(c) /\ i = Blocks(c)) => CutInPlace(x, cut) = x
<1> DEFINE cut == IF i = Blocks(c) /\ ~isTxt(c)
                  THEN 4 * addPaddingResult(initializeData(c), garbage) ELSE 0
<1>1. SUFFICES ASSUME ~(i < Blocks(c) /\ i = Blocks(c)) PROVE CutInPlace(x, cut) = x
  OBVIOUS
<1>2. cut = 0
  <2>1. CASE i = Blocks(c) /\ ~isTxt(c)
    <3>1. Padding(initializeData(c)) = 0
      BY <1>1, <2>1 DEF Intact
    <3>2. addPaddingResult(initializeData(c), garbage) = 0
      BY <3>1 DEF addPaddingResult
    <3> QED
      BY <2>1, <3>2
  <2>2. CASE ~(i = Blocks(c) /\ ~isTxt(c))
    BY <2>2
  <2> QED
    BY <2>1, <2>2
<1> HIDE DEF cut
<1> QED
  BY <1>2 DEF CutInPlace

LEMMA EncryptWrites ==
  ASSUME StepInv, Values, Written, NEW c \in Clients, CBC_encrypt(c)
  PROVE  Written'
<1> DEFINE n == sent[c]
           h == data_[c]
           x == Cipher(c)
           g == h \o binToHex(x)
<1>1. /\ pc[c] = "data" /\ n + 1 \in 1..Blocks(c) /\ n \in Nat /\ Blocks(c) \in Nat
      /\ sent' = [sent EXCEPT ![c] = @ + 1]
      /\ data_' = [data_ EXCEPT ![c] = @ \o binToHex(x)]
      /\ UNCHANGED <<pc, encrypted>>
  BY EncryptIs, Zenon
<1>2. PICK garbage \in Garbage :
        LET cut == IF n + 1 = Blocks(c) /\ ~isTxt(c)
                   THEN 4 * addPaddingResult(initializeData(c), garbage) ELSE 0
        IN chain' = [chain EXCEPT ![c] = CutInPlace(x, cut)]
  BY EncryptIs, Zenon
<1> DEFINE cut == IF n + 1 = Blocks(c) /\ ~isTxt(c)
                  THEN 4 * addPaddingResult(initializeData(c), garbage) ELSE 0
<1>3. DOMAIN sent = Clients /\ DOMAIN data_ = Clients /\ DOMAIN chain = Clients
  BY DEF StepInv, Tables, Values
<1>4. Writing(c, pc[c], n, h, chain[c], encrypted[c])
  BY DEF Written
<1>5. Enciphered(c, n, h) /\ chain[c] = Chained(c, h, n + 1) /\ encrypted[c] = << >>
  <2>1. Intact(c, n)
    BY <1>1 DEF Intact
  <2> QED
    BY <1>1, <1>4, <2>1 DEF Writing
<1>6. Enciphered(c, n + 1, g) /\ Chained(c, g, (n + 1) + 1) = x
  <2>1. x = feistel(XOR_binary(BinBlock(c, n + 1), Chained(c, h, n + 1)), Agreed(c))
    BY <1>5, Zenon DEF Cipher
  <2> HIDE DEF x, n, h
  <2> QED
    BY <1>1, <1>5, <2>1, NextBlock, Zenon
<1>7. /\ OthersIdle(c) /\ pc'[c] = "data" /\ sent'[c] = n + 1 /\ data_'[c] = g
      /\ encrypted'[c] = << >> /\ chain'[c] = CutInPlace(x, cut)
  <2> HIDE DEF x, cut
  <2>1. chain' = [chain EXCEPT ![c] = CutInPlace(x, cut)]
    BY <1>2, Zenon DEF cut
  <2> QED
    BY <1>1, <1>3, <1>5, <2>1 DEF OthersIdle
<1>8. Intact(c, n + 1) => CutInPlace(x, cut) = x
  <2>1. n + 1 # 0 /\ ~(n + 1 < Blocks(c) /\ n + 1 = Blocks(c))
    BY <1>1
  <2> DEFINE i == n + 1
  <2>2. i # 0 /\ ~(i < Blocks(c) /\ i = Blocks(c))
    BY <2>1
  <2> HIDE DEF x, i
  <2>3. Intact(c, i) => CutInPlace(x, IF i = Blocks(c) /\ ~isTxt(c)
                                      THEN 4 * addPaddingResult(initializeData(c), garbage) ELSE 0) = x
    BY <2>2, NotCut, Zenon
  <2> QED
    BY <2>3, Zenon DEF i
<1> HIDE DEF x, g, n, h, cut
<1>9. Writing(c, "data", n + 1, g, CutInPlace(x, cut), << >>)
  BY <1>6, <1>8, Zenon DEF Writing
<1>10. Writing(c, pc'[c], sent'[c], data_'[c], chain'[c], encrypted'[c])
  BY <1>7, <1>9, Zenon
<1> QED
  BY <1>7, <1>10, OthersWritten, Zenon

LEMMA WrittenUnchanged ==
  ASSUME Written, UNCHANGED clientVars
  PROVE  Written'
BY DEF Written, clientVars

LEMMA WrittenStays == StepInv /\ Values /\ Written /\ [Next]_vars => Written'
<1> SUFFICES ASSUME StepInv, Values, Written, [Next]_vars  PROVE Written'
  OBVIOUS
<1>1. CASE UNCHANGED vars
  BY <1>1, WrittenUnchanged DEF vars
<1>2. CASE register_new_client
  BY <1>2, WrittenUnchanged DEF register_new_client
<1>3. ASSUME NEW f \in OpenFds, serve_client(f)  PROVE Written'
  <2>1. UNCHANGED clientVars
    BY <1>3, Zenon DEF serve_client, ServeBlock, create_decrypt_file, ServeKey, ServeMarker, ServeClosed
  <2> QED
    BY <2>1, WrittenUnchanged
<1>4. ASSUME NEW c \in Clients, ClientStep(c)  PROVE Written'
  BY <1>4, ConnectWrites, TakeKeyWrites, SendNameWrites, SendSizeWrites, EncryptWrites,
     EndTextWrites, LeaveWrites DEF ClientStep
<1>5. ASSUME NEW c \in Clients, Kill(c)  PROVE Written'
  BY <1>5, KillWrites
<1>6. CASE Idle
  BY <1>1, <1>6 DEF Idle
<1> QED
  BY <1>1, <1>2, <1>3, <1>4, <1>5, <1>6 DEF Next, Server

-----------------------------------------------------------------------------
(* An encrypted picture opens. *)

LEMMA SmallerOf ==
  ASSUME NEW a \in Nat, NEW b \in Nat
  PROVE  Min({a, b}) \in Nat /\ Min({a, b}) <= a /\ Min({a, b}) <= b /\ Min({a, b}) \in {a, b}
<1> DEFINE S == {a, b}
<1>1. S \in SUBSET Nat /\ S # {} /\ a \in S /\ b \in S
  OBVIOUS
<1> HIDE DEF S
<1>2. Min(S) \in S /\ \A n \in S : Min(S) <= n
  BY <1>1, LeastNumber, Zenon
<1>3. Min(S) \in Nat
  BY <1>1, <1>2
<1>4. Min(S) <= a /\ Min(S) <= b
  BY <1>1, <1>2
<1> QED
  BY <1>2, <1>3, <1>4 DEF S

LEMMA FirstBytes ==
  ASSUME NEW m \in Nat, NEW bytes \in Bytes(m), NEW n \in Nat, n <= m
  PROVE  SubSeq(bytes, 1, n) \in Bytes(n) /\ \A q \in 1..n : SubSeq(bytes, 1, n)[q] = bytes[q]
<1> DEFINE s == SubSeq(bytes, 0 + 1, 0 + n)
           o == 0
<1>1. o \in Nat /\ o + n <= m
  OBVIOUS
<1>2. s = SubSeq(bytes, o + 1, o + n)
  OBVIOUS
<1>3. s = SubSeq(bytes, 1, n)
  <2>1. 0 + n = n
    OBVIOUS
  <2> QED
    BY <2>1
<1>4. \A q \in 1..n : o + q = q
  OBVIOUS
<1> HIDE DEF o, s
<1>5. /\ SubSeq(bytes, o + 1, o + n) \in Bytes(n)
      /\ \A q \in 1..n : SubSeq(bytes, o + 1, o + n)[q] = bytes[o + q]
  BY <1>1, BytePart, Zenon
<1>6. s \in Bytes(n) /\ \A q \in 1..n : s[q] = bytes[o + q]
  BY <1>2, <1>5, Zenon
<1>7. \A q \in 1..n : s[q] = bytes[q]
  BY <1>4, <1>6, Zenon
<1> QED
  BY <1>3, <1>6, <1>7, Zenon

LEMMA HexDigits ==
  ASSUME NEW n \in Nat, NEW hex \in Digits(n), NEW m \in Nat, NEW k \in Nat, m + k <= n
  PROVE  /\ SubSeq(hex, m + 1, m + k) \in Digits(k)
         /\ \A q \in 1..k : SubSeq(hex, m + 1, m + k)[q] = hex[m + q]
<1> QED
  BY HexPart, Zenon

LEMMA OverlaidIs ==
  ASSUME NEW l \in Nat, NEW file \in Bytes(l), NEW m \in Nat, NEW bytes \in Bytes(m),
         NEW n \in Nat, n <= l, n <= m
  PROVE  LET all == SubSeq(file, 1, n) \o SubSeq(bytes, n + 1, Len(bytes)) IN
         /\ all \in Bytes(m) /\ Len(all) = m
         /\ SubSeq(all, 1, n) = SubSeq(file, 1, n)
         /\ \A i \in (n + 1)..m : all[i] = bytes[i]
<1> DEFINE a == SubSeq(file, 1, n)
           k == m - n
           b == SubSeq(bytes, n + 1, n + k)
           all == a \o b
<1>1. k \in Nat /\ n + k = m /\ Len(bytes) = m /\ 0 + n = n /\ 0 + 1 = 1 /\ 0 + n <= l /\ n + k <= m
  BY SequenceOf DEF Bytes
<1>2. a \in Bytes(n) /\ \A q \in 1..n : a[q] = file[q]
  BY FirstBytes, Zenon
<1> HIDE DEF k
<1>3. b \in Bytes(k) /\ \A q \in 1..k : b[q] = bytes[n + q]
  <2>1. n + k <= m /\ k \in Nat
    BY <1>1
  <2> QED
    BY <2>1, BytePart, Zenon
<1> HIDE DEF a, b
<1>4. /\ \A i \in 1..n : all[i] = a[i]
      /\ \A i \in 1..k : all[n + i] = b[i]
      /\ all \in Bytes(n + k)
  BY <1>1, <1>2, <1>3, BytesJoin, Zenon
<1> HIDE DEF all
<1>5. all \in Bytes(m) /\ Len(all) = m
  <2>1. all \in Bytes(m)
    BY <1>1, <1>4, Zenon
  <2> QED
    BY <2>1, SequenceOf, Zenon DEF Bytes
<1>6. SubSeq(all, 1, n) = a
  <2> DEFINE s == SubSeq(all, 1, n)
  <2>1. all \in Bytes(m)
    BY <1>5, Zenon
  <2>2. s \in Bytes(n) /\ \A q \in 1..n : s[q] = all[q]
    BY <2>1, FirstBytes, Zenon
  <2> HIDE DEF s
  <2>3. \A q \in 1..n : s[q] = a[q]
    BY <1>4, <2>2, Zenon
  <2>4. s = a
    BY <1>2, <2>2, <2>3, SameBytes, Zenon
  <2> QED
    BY <2>4, Zenon DEF s
<1>7. ASSUME NEW i \in (n + 1)..m PROVE all[i] = bytes[i]
  <2>1. i - n \in 1..k /\ n + (i - n) = i
    BY <1>1
  <2> QED
    BY <1>3, <1>4, <2>1
<1>8. all = SubSeq(file, 1, n) \o SubSeq(bytes, n + 1, Len(bytes))
  BY <1>1, Zenon DEF all, a, b
<1> QED
  BY <1>5, <1>6, <1>7, <1>8, Zenon DEF a

(* A block of the file behind the header is the block that was written. *)
LEMMA BlockBehind ==
  ASSUME NEW n \in Nat, NEW h \in Digits(n * DigitsPerBlock),
         NEW bytes \in Bytes(n * BlockBytes), NEW top \in Nat,
         \A i \in (top + 1)..(n * BlockBytes) : bytes[i] = hexToASCII(h)[i],
         NEW i \in 1..n, top <= (i - 1) * BlockBytes
  PROVE  BlockOf(bytes, i) = BlockAt(h, i)
<1> DEFINE b == BlockBytes
           d == DigitsPerBlock
           m == n * b
           at == (i - 1) * b
           part == SubSeq(bytes, at + 1, at + b)
           hex == SubSeq(h, (i - 1) * d + 1, (i - 1) * d + d)
           old == hexToASCII(h)
           again == strToHex(part)
<1>1. b \in Nat /\ d \in Nat /\ d = 2 * b
  BY BlockSizes
<1>2. at \in Nat /\ at + b = i * b /\ m \in Nat /\ at + b <= m
  BY <1>1, Multiples, Zenon
<1>3. n * d = 2 * m /\ (i - 1) * d = 2 * at
  <2> HIDE DEF b, d
  <2> QED
    BY <1>1
<1>4. /\ part \in Bytes(b) /\ \A q \in 1..b : part[q] = bytes[at + q]
  <2> HIDE DEF at, b
  <2>1. bytes \in Bytes(m)
    BY DEF b
  <2>2. at + b <= m
    BY <1>2
  <2>3. m \in Nat /\ at \in Nat /\ b \in Nat
    BY <1>1, <1>2
  <2> HIDE DEF m
  <2> QED
    BY <2>1, <2>2, <2>3, BytePart, Zenon
<1>5. BlockOf(bytes, i) = hexToBin(again)
  <2>1. BlockOf(bytes, i) = hexToBin(strToHex(SubSeq(bytes, (i - 1) * (BlockBits \div 8) + 1, i * (BlockBits \div 8))))
    BY Zenon DEF BlockOf
  <2>2. BlockBits \div 8 = b
    BY DEF BlockBytes
  <2> QED
    BY <1>2, <2>1, <2>2, Zenon
<1>6. BlockAt(h, i) = hexToBin(hex)
  BY Zenon DEF BlockAt
<1> HIDE DEF part
<1>7. /\ again \in Digits(2 * b)
      /\ \A q \in 1..b : again[2 * q - 1] = part[q] \div 16 /\ again[2 * q] = part[q] % 16
  BY <1>1, <1>4, StrToHexIs, Zenon
<1> HIDE DEF again
<1>8. h \in Digits(2 * m) /\ m \in Nat
  BY <1>2, <1>3, Zenon
<1>9. hex \in Digits(d) /\ \A q \in 1..d : hex[q] = h[2 * at + q]
  <2>1. 2 * at \in Nat /\ 2 * at + d <= 2 * m /\ 2 * m \in Nat
    <3> HIDE DEF at, d, m, b
    <3> QED
      BY <1>1, <1>2
  <2>2. hex = SubSeq(h, 2 * at + 1, 2 * at + d)
    BY <1>3, Zenon
  <2> DEFINE a2 == 2 * at
             m2 == 2 * m
  <2> HIDE DEF hex, at, d, m
  <2>4. a2 \in Nat /\ m2 \in Nat /\ a2 + d <= m2 /\ d \in Nat /\ h \in Digits(m2)
    BY <1>1, <1>8, <2>1
  <2> HIDE DEF a2, m2
  <2>5. /\ SubSeq(h, a2 + 1, a2 + d) \in Digits(d)
        /\ \A q \in 1..d : SubSeq(h, a2 + 1, a2 + d)[q] = h[a2 + q]
    BY <2>4, HexDigits, Zenon
  <2>3. /\ SubSeq(h, 2 * at + 1, 2 * at + d) \in Digits(d)
        /\ \A q \in 1..d : SubSeq(h, 2 * at + 1, 2 * at + d)[q] = h[2 * at + q]
    BY <2>5, Zenon DEF a2
  <2> QED
    BY <2>2, <2>3, Zenon
<1> HIDE DEF hex
<1>10. \A q \in 1..m : old[q] = 16 * h[2 * q - 1] + h[2 * q] /\ h[2 * q - 1] \in 0..15 /\ h[2 * q] \in 0..15
  <2> HIDE DEF m
  <2>0. 2 * m \in Nat /\ (2 * m) \div 2 = m
    BY <1>8
  <2>1. \A q \in 1..((2 * m) \div 2) : old[q] = 16 * h[2 * q - 1] + h[2 * q]
    BY <1>8, <2>0, HexToASCIIIs, Zenon
  <2>2. \A q \in 1..m : 2 * q - 1 \in 1..(2 * m) /\ 2 * q \in 1..(2 * m)
    BY <1>8
  <2>3. \A q \in 1..(2 * m) : h[q] \in 0..15
    BY <1>8 DEF Digits, Digit
  <2> QED
    BY <2>0, <2>1, <2>2, <2>3
<1> HIDE DEF old
<1>11. ASSUME NEW q \in 1..b
       PROVE  again[2 * q - 1] = hex[2 * q - 1] /\ again[2 * q] = hex[2 * q]
  <2>1. part[q] = old[at + q] /\ at + q \in 1..m
    <3>1. at + q \in (top + 1)..m /\ at + q \in 1..m
      <4> HIDE DEF m, b
      <4>1. top <= at
        BY DEF at, b
      <4> HIDE DEF at
      <4> QED
        BY <1>1, <1>2, <4>1
    <3> QED
      BY <1>4, <3>1 DEF old
  <2> HIDE DEF m, at, b, d
  <2>2. part[q] = 16 * h[2 * (at + q) - 1] + h[2 * (at + q)] /\ h[2 * (at + q) - 1] \in 0..15 /\ h[2 * (at + q)] \in 0..15
    BY <1>10, <2>1
  <2>3. 2 * q - 1 \in 1..d /\ 2 * q \in 1..d /\ 2 * at + (2 * q - 1) = 2 * (at + q) - 1 /\ 2 * at + 2 * q = 2 * (at + q)
    BY <1>1, <1>2
  <2>4. hex[2 * q - 1] = h[2 * (at + q) - 1] /\ hex[2 * q] = h[2 * (at + q)]
    BY <1>9, <2>3
  <2> DEFINE y == h[2 * (at + q) - 1]
             z == h[2 * (at + q)]
  <2>5. y \in 0..15 /\ z \in 0..15 /\ part[q] = 16 * y + z
    BY <2>2
  <2> HIDE DEF y, z
  <2>6. part[q] \div 16 = y /\ part[q] % 16 = z
    BY <2>5
  <2> QED
    BY <1>7, <2>4, <2>6 DEF y, z
<1>12. again = hex
  <2> HIDE DEF b, d
  <2>1. ASSUME NEW j \in 1..d PROVE again[j] = hex[j]
    <3>1. PICK q \in 1..b : j \in {2 * q - 1, 2 * q}
      <4>1. (j + 1) \div 2 \in 1..b /\ j \in {2 * ((j + 1) \div 2) - 1, 2 * ((j + 1) \div 2)}
        BY <1>1
      <4> QED
        BY <4>1
    <3> QED
      BY <1>11, <3>1
  <2>2. again \in Digits(d)
    BY <1>1, <1>7, Zenon
  <2> QED
    BY <1>9, <2>1, <2>2, SameDigits, Zenon
<1> QED
  BY <1>5, <1>6, <1>12, Zenon

LEMMA PictureFits ==
  ASSUME NEW c \in Clients, IsPicture(c)
  PROVE  LET file == FileOf[c].content IN
         /\ Len(file) \in Nat /\ file \in Bytes(Len(file))
         /\ Blocks(c) \in Nat /\ Blocks(c) * BlockBytes \in Nat
         /\ Len(file) <= Blocks(c) * BlockBytes
         /\ Blocks(c) * DigitsPerBlock = 2 * (Blocks(c) * BlockBytes)
<1> DEFINE file == FileOf[c].content
           l == Len(file)
           r == Len(readFile(c))
           n == Len(initializeData(c))
           p == Padding(initializeData(c))
           B == Blocks(c)
           b == BlockBytes
           d == DigitsPerBlock
<1>1. file \in Seq(Byte) /\ (FileOf[c].exists \/ file = << >>)
  BY EncryptedTransferAssumption
<1>2. l \in Nat /\ file \in Bytes(l)
  BY <1>1, SequenceIs, Zenon DEF Bytes
<1>3. l <= r /\ r \in Nat
  <2>1. "bmp" # "txt"
    OBVIOUS
  <2>2. ~isTxt(c)
    BY <2>1, Zenon DEF IsPicture, isTxt
  <2>3. readFile(c) = IF ~FileOf[c].exists THEN << >> ELSE file
    BY <2>2, Zenon DEF readFile
  <2>4. r \in Nat
    BY FileIs, Zenon
  <2>5. CASE FileOf[c].exists
    <3>1. r = l
      BY <2>3, <2>5, Zenon
    <3> HIDE DEF r, l
    <3> QED
      BY <1>2, <2>4, <3>1
  <2>6. CASE ~FileOf[c].exists
    <3>1. l = Len(<< >>)
      BY <1>1, <2>6, Zenon
    <3>2. l = 0
      BY <3>1
    <3> HIDE DEF r, l
    <3> QED
      BY <2>4, <3>2
  <2> QED
    BY <2>5, <2>6, Zenon
<1>4. n = 2 * r /\ n \in Nat
  BY HexIs, Zenon
<1>5. p \in Nat /\ B \in Nat /\ B * d = n + p
  BY PaddedIs, Zenon
<1>6. b \in Nat /\ d = 2 * b
  BY BlockSizes
<1> HIDE DEF file, l, r, n, p, B, b, d
<1>7. B * b \in Nat /\ B * d = 2 * (B * b)
  BY <1>5, <1>6
<1>8. l <= B * b
  <2> DEFINE m == B * b
  <2>1. m \in Nat /\ 2 * m = n + p
    BY <1>5, <1>7
  <2> HIDE DEF m
  <2>2. l <= m
    BY <1>2, <1>3, <1>4, <1>5, <2>1
  <2> QED
    BY <2>2 DEF m
<1> QED
  BY <1>2, <1>5, <1>7, <1>8 DEF file, l, B, b, d

(* The blocks that the header does not touch. *)
LEMMA Untouched ==
  ASSUME NEW h \in Nat, NEW b \in Nat, b # 0, NEW n \in Nat, n <= h, NEW B \in Nat,
         NEW i \in (((h + b - 1) \div b) + 2)..B
  PROVE  /\ i \in 2..B /\ i - 1 \in 1..B /\ i \in 1..B
         /\ n <= (i - 1) * b /\ n <= ((i - 1) - 1) * b
<1> DEFINE t == (h + b - 1) \div b
<1>1. t \in Nat /\ h <= t * b
  <2> DEFINE x == h + b - 1
  <2>1. x \in Nat /\ x = h + b - 1
    OBVIOUS
  <2>2. t \in Nat /\ x < t * b + b
    <3> HIDE DEF x
    <3>1. /\ x \div b \in Nat /\ x % b \in 0..(b - 1) /\ x = b * (x \div b) + (x % b)
      BY <2>1
    <3> DEFINE q == x \div b
               r == x % b
    <3>2. q \in Nat /\ r \in Nat /\ r < b /\ x = b * q + r
      BY <3>1
    <3> HIDE DEF q, r
    <3>3. q \in Nat /\ x < q * b + b
      BY <3>2
    <3>4. t = q
      BY DEF q, x
    <3> HIDE DEF t
    <3> QED
      BY <3>3, <3>4, Zenon
  <2> HIDE DEF x
  <2>3. t * b \in Nat
    BY <2>2
  <2> DEFINE m == t * b
  <2> HIDE DEF m, t
  <2> QED
    BY <2>1, <2>2, <2>3 DEF m
<1>2. i \in Nat /\ t + 2 <= i /\ i <= B
  <2>1. i \in (t + 2)..B
    OBVIOUS
  <2> HIDE DEF t
  <2> QED
    BY <1>1, <2>1
<1> HIDE DEF t
<1>3. \E e \in Nat : i = t + 2 + e
  BY <1>1, <1>2
<1>4. PICK e \in Nat : i = t + 2 + e
  BY <1>3
<1>5. (i - 1) - 1 = t + e /\ i - 1 = t + 1 + e
  BY <1>1, <1>4
<1>6. (t + e) * b = t * b + e * b /\ (t + 1 + e) * b = t * b + b + e * b /\ e * b \in Nat /\ t * b \in Nat
  BY <1>1
<1>7. n <= (t + e) * b /\ n <= (t + 1 + e) * b
  <2> DEFINE y == t * b
             z == e * b
  <2>1. y \in Nat /\ z \in Nat /\ h <= y
    BY <1>1, <1>6
  <2>2. (t + e) * b = y + z /\ (t + 1 + e) * b = y + b + z
    BY <1>6
  <2> HIDE DEF y, z
  <2>3. n <= y + z /\ n <= y + b + z
    BY <2>1
  <2> QED
    BY <2>2, <2>3
<1> QED
  BY <1>1, <1>2, <1>5, <1>7

(* What the picture is when the client has left. *)
LEMMA PictureIs ==
  ASSUME NEW c \in Clients, IsPicture(c), NEW h, Enciphered(c, Blocks(c), h)
  PROVE  LET bytes == Overlaid(c, hexToASCII(h))
             file  == FileOf[c].content
             n     == Min({HeaderBytes, Len(file)})
             touched == (HeaderBytes + BlockBytes - 1) \div BlockBytes
         IN /\ Len(bytes) = Blocks(c) * BlockBytes
            /\ SubSeq(bytes, 1, n) = SubSeq(file, 1, n)
            /\ \A i \in touched + 2 .. Blocks(c) :
                 XOR_binary(feistel(BlockOf(bytes, i), Reverse(Agreed(c))), BlockOf(bytes, i - 1))
                   = BinBlock(c, i)
<1> DEFINE old  == hexToASCII(h)
           file == FileOf[c].content
           l    == Len(file)
           B    == Blocks(c)
           m    == B * BlockBytes
           n    == Min({HeaderBytes, l})
           bytes == Overlaid(c, old)
           touched == (HeaderBytes + BlockBytes - 1) \div BlockBytes
<1>1. /\ l \in Nat /\ file \in Bytes(l) /\ B \in Nat /\ m \in Nat /\ l <= m
      /\ B * DigitsPerBlock = 2 * m
  BY PictureFits, Zenon
<1>2. HeaderBytes \in Nat /\ BlockBytes \in Nat /\ BlockBytes # 0
  BY BlockSizes, EncryptedTransferAssumption
<1>3. n \in Nat /\ n <= HeaderBytes /\ n <= l
  BY <1>1, <1>2, SmallerOf, Zenon
<1>4. h \in Digits(B * DigitsPerBlock)
  BY Zenon DEF Enciphered
<1>5. old \in Bytes(m)
  <2>1. h \in Digits(2 * m)
    BY <1>1, <1>4, Zenon
  <2> HIDE DEF m
  <2> QED
    BY <1>1, <2>1, HexAgain, Zenon
<1>6. n <= m
  <2> HIDE DEF n, m, l
  <2> QED
    BY <1>1, <1>3
<1>7. /\ bytes \in Bytes(m) /\ Len(bytes) = m
      /\ SubSeq(bytes, 1, n) = SubSeq(file, 1, n)
      /\ \A i \in (n + 1)..m : bytes[i] = old[i]
  <2>1. bytes = SubSeq(file, 1, n) \o SubSeq(old, n + 1, Len(old))
    BY Zenon DEF Overlaid
  <2> DEFINE all == SubSeq(file, 1, n) \o SubSeq(old, n + 1, Len(old))
  <2> HIDE DEF old, n, m, bytes, file, l
  <2>2. l \in Nat /\ file \in Bytes(l) /\ m \in Nat /\ old \in Bytes(m) /\ n \in Nat /\ n <= l /\ n <= m
    BY <1>1, <1>3, <1>5, <1>6, Zenon
  <2>3. /\ all \in Bytes(m) /\ Len(all) = m
        /\ SubSeq(all, 1, n) = SubSeq(file, 1, n)
        /\ \A i \in (n + 1)..m : all[i] = old[i]
    BY <2>2, OverlaidIs, Zenon
  <2>4. all = bytes
    BY <2>1, Zenon
  <2> QED
    BY <2>3, <2>4, Zenon
<1>8. ASSUME NEW i \in touched + 2 .. B
      PROVE  XOR_binary(feistel(BlockOf(bytes, i), Reverse(Agreed(c))), BlockOf(bytes, i - 1))
                   = BinBlock(c, i)
  <2>1. /\ i \in 2..B /\ i - 1 \in 1..B /\ i \in 1..B
        /\ n <= (i - 1) * BlockBytes /\ n <= ((i - 1) - 1) * BlockBytes
    <3> HIDE DEF n, B
    <3> QED
      BY <1>1, <1>2, <1>3, Untouched, Zenon
  <2>2. /\ \A k \in (n + 1)..(B * BlockBytes) : bytes[k] = hexToASCII(h)[k]
        /\ bytes \in Bytes(B * BlockBytes)
    BY <1>7, Zenon
  <2> DEFINE j == i - 1
  <2>3. j \in 1..B /\ n <= (j - 1) * BlockBytes
    BY <2>1, Zenon
  <2> HIDE DEF j, bytes, n, B
  <2>4. BlockOf(bytes, i) = BlockAt(h, i)
    BY <1>1, <1>3, <1>4, <2>1, <2>2, BlockBehind, Zenon
  <2>5. BlockOf(bytes, j) = BlockAt(h, j)
    BY <1>1, <1>3, <1>4, <2>3, <2>2, BlockBehind, Zenon
  <2>6. feistel(BlockAt(h, i), Reverse(Agreed(c))) = XOR_binary(BinBlock(c, i), BlockAt(h, j))
    <3>1. i # 1
      BY <2>1
    <3>2. Chained(c, h, i) = BlockAt(h, j)
      BY <3>1, Zenon DEF Chained, j
    <3> QED
      BY <2>1, <3>2, Zenon DEF Enciphered, B
  <2>7. BinBlock(c, i) \in Strings(BlockBits) /\ BlockBits \in Nat
    BY <2>1, BlockIs, BlockSizes, Zenon DEF B
  <2>8. BlockAt(h, j) \in Seq(Bit) /\ Len(BlockAt(h, j)) = BlockBits
    BY <1>1, <1>4, <2>3, BlockBitsOf, Zenon
  <2> DEFINE mask == BlockAt(h, j)
             bits == BinBlock(c, i)
  <2> HIDE DEF mask, bits
  <2>9. Len(mask) >= BlockBits /\ mask \in Seq(Bit) /\ bits \in Strings(BlockBits)
    BY <2>7, <2>8 DEF mask, bits
  <2>10. XOR_binary(XOR_binary(bits, mask), mask) = bits
    BY <2>7, <2>9, XorTwice, Zenon
  <2> QED
    BY <2>4, <2>5, <2>6, <2>10, Zenon DEF mask, bits, j
<1> HIDE DEF old
<1> QED
  BY <1>7, <1>8, Zenon DEF old

LEMMA PictureFollows == StepInv /\ Values /\ Written => PictureOpens
<1> SUFFICES ASSUME StepInv, Values, Written, NEW c \in Clients,
                    pc[c] = "done", FileOf[c].extension = "bmp"
             PROVE  LET touched == (HeaderBytes + BlockBits \div 8 - 1) \div (BlockBits \div 8)
                        file == FileOf[c].content
                        n == Min({HeaderBytes, Len(file)})
                    IN /\ Len(encrypted[c]) = Blocks(c) * (BlockBits \div 8)
                       /\ SubSeq(encrypted[c], 1, n) = SubSeq(file, 1, n)
                       /\ \A i \in touched + 2 .. Blocks(c) :
                            XOR_binary(feistel(BlockOf(encrypted[c], i), Reverse(rk[c])),
                                       BlockOf(encrypted[c], i - 1))
                              = BinBlock(c, i)
  BY Zenon DEF PictureOpens
<1>1. IsPicture(c)
  BY DEF IsPicture
<1>2. Writing(c, "done", sent[c], data_[c], chain[c], encrypted[c])
  BY Zenon DEF Written
<1>3. sent[c] = Blocks(c) /\ encrypted[c] = Overlaid(c, hexToASCII(data_[c]))
  BY <1>1, <1>2 DEF Writing
<1>4. Enciphered(c, Blocks(c), data_[c])
  <2>1. "done" # "killed"
    OBVIOUS
  <2> QED
    BY <1>2, <1>3, <2>1, Zenon DEF Writing
<1>5. rk[c] = Agreed(c)
  BY DEF Values, Keyed
<1>6. BlockBits \div 8 = BlockBytes
  BY DEF BlockBytes
<1> QED
  BY <1>1, <1>3, <1>4, <1>5, <1>6, PictureIs, Zenon

(* When a client is done, the encrypted picture beside its own begins with *)
(* the header of the original (runDD), and the blocks behind the header    *)
(* open with the keys of the client, each chained to the one before, to the*)
(* blocks of the original: CBC_encrypt of Feistel.cpp.                     *)
THEOREM PicturesOpen == Spec => []PictureOpens
<1>1. Init => StepInv /\ Values /\ Written
  BY InitStepInv, InitValues, InitWritten, Zenon
<1>2. StepInv /\ Values /\ Written /\ [Next]_vars => (StepInv /\ Values /\ Written)'
  BY StepInvStays, ValuesStay, WrittenStays, Zenon
<1>3. StepInv /\ Values /\ Written => PictureOpens
  BY PictureFollows, Zenon
<1> QED
  BY <1>1, <1>2, <1>3, PTL DEF Spec

-----------------------------------------------------------------------------
(* What the server stores of a file. *)

(* The digits of the file in its first n blocks. *)
Told(c, n) ==
  IF n * DigitsPerBlock <= Len(initializeData(c)) THEN n * DigitsPerBlock ELSE Len(initializeData(c))
ZerosIn(c, i) == \E j \in 1 .. Len(TextBits(c, i)) : EightZerosAt(TextBits(c, i), j)

(* The bits of digits that others follow: zeros. *)
LEMMA BitsBefore ==
  ASSUME NEW l \in Nat, NEW m \in Nat, l <= m, NEW s \in Digits(l), NEW t \in Digits(m),
         \A q \in 1..l : t[q] = s[q], \A q \in (l + 1)..m : t[q] = 0
  PROVE  /\ \A j \in 1..(4 * l) : hexToBin(t)[j] = hexToBin(s)[j]
         /\ \A j \in (4 * l + 1)..(4 * m) : hexToBin(t)[j] = 0
<1> DEFINE S == hexToBin(s)
           T == hexToBin(t)
<1>1. \A i \in 1..l : /\ S[4 * i - 3] = (s[i] \div 8) % 2
                            /\ S[4 * i - 2] = (s[i] \div 4) % 2
                            /\ S[4 * i - 1] = (s[i] \div 2) % 2
                            /\ S[4 * i] = s[i] % 2
  BY HexToBinIs, Zenon
<1>2. \A i \in 1..m : /\ T[4 * i - 3] = (t[i] \div 8) % 2
                            /\ T[4 * i - 2] = (t[i] \div 4) % 2
                            /\ T[4 * i - 1] = (t[i] \div 2) % 2
                            /\ T[4 * i] = t[i] % 2
  BY HexToBinIs, Zenon
<1> HIDE DEF S, T
<1>3. ASSUME NEW j \in 1..(4 * l) PROVE T[j] = S[j]
  <2> DEFINE q == (j + 3) \div 4
  <2>1. q \in 1..l /\ j \in {4 * q - 3, 4 * q - 2, 4 * q - 1, 4 * q}
    OBVIOUS
  <2> HIDE DEF q
  <2>2. q \in 1..m /\ t[q] = s[q]
    BY <2>1
  <2>3. /\ T[4 * q - 3] = S[4 * q - 3] /\ T[4 * q - 2] = S[4 * q - 2]
        /\ T[4 * q - 1] = S[4 * q - 1] /\ T[4 * q] = S[4 * q]
    BY <1>1, <1>2, <2>1, <2>2, Zenon
  <2> QED
    BY <2>1, <2>3
<1>4. ASSUME NEW j \in (4 * l + 1)..(4 * m) PROVE T[j] = 0
  <2> DEFINE q == (j + 3) \div 4
  <2>1. q \in (l + 1)..m /\ j \in {4 * q - 3, 4 * q - 2, 4 * q - 1, 4 * q}
    OBVIOUS
  <2> HIDE DEF q
  <2>2. q \in 1..m /\ t[q] = 0
    BY <2>1
  <2>3. (0 \div 8) % 2 = 0 /\ (0 \div 4) % 2 = 0 /\ (0 \div 2) % 2 = 0 /\ 0 % 2 = 0
    OBVIOUS
  <2>4. /\ T[4 * q - 3] = 0 /\ T[4 * q - 2] = 0 /\ T[4 * q - 1] = 0 /\ T[4 * q] = 0
    BY <1>2, <2>2, <2>3, Zenon
  <2> QED
    BY <2>1, <2>4
<1> QED
  BY <1>3, <1>4 DEF S, T

(* Each block is the text of the block, and zeros behind it. *)
LEMMA TextOfBlock ==
  ASSUME NEW c \in Clients, NEW i \in 1..Blocks(c)
  PROVE  LET t == Len(TextBits(c, i))
             a == (i - 1) * DigitsPerBlock
         IN /\ t \in 0..BlockBits /\ TextBits(c, i) \in Strings(t)
            /\ \E r \in Nat : BlockBits = t + 8 * r
            /\ \A j \in 1..t : BinBlock(c, i)[j] = TextBits(c, i)[j]
            /\ \A j \in (t + 1)..BlockBits : BinBlock(c, i)[j] = 0
            /\ a \in Nat /\ Told(c, i - 1) = a /\ Told(c, i) = a + (t \div 4)
            /\ 4 * (t \div 4) = t /\ t \div 4 \in Nat
            /\ a + (t \div 4) <= Len(initializeData(c))
<1> DEFINE init == initializeData(c)
           l == Len(init)
           f == Len(readFile(c))
           p == Padding(init)
           B == Blocks(c)
           b == BlockBytes
           d == DigitsPerBlock
           a == (i - 1) * d
           a2 == (i - 1) * b
           bits == hexToBin(init)
           lo == 4 * a + 1
           hi == Min({i * BlockBits, Len(bits)})
           t == hi - lo + 1
           part == SubSeq(bits, lo, hi)
           pad == Padded(c)
<1>1. l = 2 * f /\ f \in Nat /\ l \in Nat /\ init \in Digits(l)
  BY HexIs, FileIs, Zenon
<1>2. /\ p \in Nat /\ p < d /\ B \in Nat /\ B * d = l + p /\ pad \in Digits(B * d)
      /\ \A j \in 1..l : pad[j] = init[j]
      /\ \A j \in 1..p : pad[l + j] = 0
  BY PaddedIs, Zenon
<1>3. b \in Nat /\ d \in Nat /\ d = 2 * b /\ BlockBits = 4 * d
  BY BlockSizes
<1>4. a \in Nat /\ a + d <= B * d /\ a + d = i * d
  <2> HIDE DEF d
  <2> QED
    BY <1>2, <1>3, Multiples, Zenon
<1>5. a2 \in Nat /\ a = 2 * a2 /\ i \in Nat /\ i * BlockBits = 4 * a + 4 * d /\ (i - 1) * BlockBits = 4 * a
  <2>1. i \in Nat /\ i - 1 \in Nat
    BY <1>2
  <2> HIDE DEF b, d
  <2> QED
    BY <1>3, <2>1
<1>6. bits \in Strings(4 * l) /\ Len(bits) = 4 * l
  <2>1. bits \in Strings(4 * l)
    BY <1>1, HexToBinIs, Zenon
  <2>2. 4 * l \in Nat
    BY <1>1
  <2> HIDE DEF bits, l
  <2> QED
    BY <2>1, <2>2, SequenceOf, Zenon DEF Strings
<1>7. TextBits(c, i) = part
  <2>1. TextBits(c, i) = SubSeq(bits, (i - 1) * BlockBits + 1, hi)
    BY Zenon DEF TextBits
  <2> QED
    BY <1>5, <2>1, Zenon
<1> HIDE DEF init, l, f, p, b, d, a, a2, bits, pad, B
<1>8. a < l
  <2> DEFINE m == B * d
  <2>1. m = l + p /\ a + d <= m
    BY <1>2, <1>4
  <2> HIDE DEF m
  <2> QED
    BY <1>1, <1>2, <1>3, <1>4, <2>1
<1>9. hi \in {4 * a + 4 * d, 4 * l} /\ hi <= 4 * a + 4 * d /\ hi <= 4 * l
  <2> DEFINE x == 4 * a + 4 * d
             y == 4 * l
  <2>3. hi = Min({x, y})
    BY <1>5, <1>6, Zenon
  <2> HIDE DEF hi
  <2>4. x \in Nat /\ y \in Nat
    BY <1>1, <1>3, <1>4
  <2>1. x \in Nat /\ y \in Nat /\ hi = Min({x, y})
    BY <2>3, <2>4, Zenon
  <2> HIDE DEF x, y, hi
  <2>2. hi \in {x, y} /\ hi <= x /\ hi <= y
    BY <2>1, SmallerOf, Zenon
  <2> QED
    BY <2>2, Zenon DEF x, y
<1> HIDE DEF hi
<1>10. /\ t \in 0..(4 * d) /\ 4 * (t \div 4) = t /\ t \div 4 \in Nat
       /\ \E r \in Nat : 4 * d = t + 8 * r
       /\ 4 * a + t <= 4 * l /\ (t = 4 * d \/ 4 * a + t = 4 * l)
       /\ (IF a + d <= l THEN a + d ELSE l) = a + (t \div 4)
       /\ lo \in Nat /\ lo # 0 /\ lo <= hi + 1 /\ hi \in Nat
  <2>1. a <= l
    BY <1>1, <1>4, <1>8
  <2>2. CASE a + d <= l
    <3>1. hi = 4 * a + 4 * d
      BY <1>1, <1>3, <1>4, <1>9, <2>2
    <3>2. t = 4 * d /\ lo = 4 * a + 1
      BY <1>3, <1>4, <3>1
    <3>3. (4 * d) \div 4 = d /\ 4 * d = 4 * d + 8 * 0
      BY <1>3
    <3> HIDE DEF t, lo
    <3> QED
      BY <1>1, <1>3, <1>4, <2>2, <3>1, <3>2, <3>3
  <2>3. CASE ~(a + d <= l)
    <3>1. hi = 4 * l
      BY <1>1, <1>3, <1>4, <1>9, <2>3
    <3>2. t = 4 * (l - a) /\ lo = 4 * a + 1
      BY <1>1, <1>4, <3>1
    <3>3. (4 * (l - a)) \div 4 = l - a /\ l - a \in Nat
      BY <1>1, <1>4, <2>1
    <3>4. a2 + b - f \in Nat /\ 4 * d = 4 * (l - a) + 8 * (a2 + b - f)
      BY <1>1, <1>3, <1>5, <2>1, <2>3
    <3> HIDE DEF t, lo
    <3> QED
      BY <1>1, <1>3, <1>4, <2>1, <2>3, <3>1, <3>2, <3>3, <3>4
  <2> QED
    BY <2>2, <2>3, Zenon
<1>11. Told(c, i) = a + (t \div 4)
  <2>1. Told(c, i) = IF i * d <= l THEN i * d ELSE l
    BY Zenon DEF Told, d, l, init
  <2> QED
    BY <1>4, <1>10, <2>1, Zenon
<1>12. Told(c, i - 1) = a
  <2>1. Told(c, i - 1) = IF a <= l THEN a ELSE l
    BY Zenon DEF Told, d, l, init, a
  <2>2. a <= l
    BY <1>1, <1>4, <1>8
  <2> QED
    BY <2>1, <2>2, Zenon
<1>13. a + (t \div 4) <= l
  <2> DEFINE e == t \div 4
  <2>1. e \in Nat /\ 4 * e = t /\ 4 * a + t <= 4 * l
    BY <1>10
  <2> HIDE DEF e, t
  <2> QED
    BY <1>1, <1>4, <2>1
<1>14. /\ \A j \in 1..t : part[j] = bits[lo + j - 1]
       /\ part \in Strings(t)
  <2>1. hi <= 4 * l /\ 4 * l \in Nat
    BY <1>1, <1>9
  <2> DEFINE m == 4 * l
  <2>2. hi <= m /\ m \in Nat /\ bits \in Strings(m) /\ lo \in Nat /\ hi \in Nat /\ lo # 0 /\ lo <= hi + 1
    BY <1>6, <1>10, <2>1
  <2> HIDE DEF m, lo
  <2> QED
    BY <2>2, BitsPart, Zenon
<1>15. Len(part) = t
  <2>1. t \in Nat
    BY <1>10
  <2> HIDE DEF t, part
  <2> QED
    BY <1>14, <2>1, SequenceOf, Zenon DEF Strings
<1>16. /\ \A j \in 1..(4 * l) : hexToBin(pad)[j] = bits[j]
       /\ \A j \in (4 * l + 1)..(4 * (B * d)) : hexToBin(pad)[j] = 0
  <2> DEFINE m == B * d
  <2>1. m \in Nat /\ l <= m /\ pad \in Digits(m)
    BY <1>1, <1>2
  <2>2. \A q \in (l + 1)..m : pad[q] = 0
    <3> SUFFICES ASSUME NEW q \in (l + 1)..m PROVE pad[q] = 0
      OBVIOUS
    <3>1. m = l + p
      BY <1>2
    <3> HIDE DEF m
    <3>2. q - l \in 1..p /\ l + (q - l) = q
      BY <1>1, <1>2, <3>1
    <3> QED
      BY <1>2, <3>2
  <2> HIDE DEF m
  <2>3. /\ \A j \in 1..(4 * l) : hexToBin(pad)[j] = hexToBin(init)[j]
        /\ \A j \in (4 * l + 1)..(4 * m) : hexToBin(pad)[j] = 0
    BY <1>1, <1>2, <2>1, <2>2, BitsBefore, Zenon
  <2> QED
    BY <2>3, Zenon DEF bits, m
<1>17. \A j \in 1..BlockBits : BinBlock(c, i)[j] = hexToBin(pad)[4 * a + j]
  BY BlockIs, Zenon DEF pad, a, d
<1>18. ASSUME NEW j \in 1..t PROVE BinBlock(c, i)[j] = part[j]
  <2>1. j \in 1..BlockBits /\ 4 * a + j \in 1..(4 * l) /\ lo + j - 1 = 4 * a + j
    <3>1. lo = 4 * a + 1 /\ t \in 0..(4 * d) /\ 4 * a + t <= 4 * l
      BY <1>10
    <3> HIDE DEF lo, t
    <3> QED
      BY <1>1, <1>3, <1>4, <3>1
  <2> HIDE DEF lo, t, part
  <2>2. BinBlock(c, i)[j] = hexToBin(pad)[4 * a + j] /\ hexToBin(pad)[4 * a + j] = bits[4 * a + j]
    BY <1>16, <1>17, <2>1
  <2>3. part[j] = bits[lo + j - 1]
    BY <1>14, Zenon
  <2> QED
    BY <2>1, <2>2, <2>3, Zenon
<1>19. ASSUME NEW j \in (t + 1)..BlockBits PROVE BinBlock(c, i)[j] = 0
  <2> DEFINE m == B * d
  <2>1. j \in 1..BlockBits /\ 4 * a + j \in (4 * l + 1)..(4 * m)
    <3>1. t \in 0..(4 * d) /\ (t = 4 * d \/ 4 * a + t = 4 * l)
      BY <1>10
    <3>2. a + d <= m /\ m \in Nat /\ j \in (t + 1)..BlockBits
      BY <1>2, <1>3, <1>4
    <3> HIDE DEF m, t
    <3> QED
      BY <1>1, <1>3, <1>4, <3>1, <3>2
  <2> HIDE DEF m
  <2> QED
    BY <1>16, <1>17, <2>1 DEF m
<1> HIDE DEF t, part
<1> QED
  BY <1>3, <1>4, <1>7, <1>10, <1>11, <1>12, <1>13, <1>14, <1>15, <1>18, <1>19, Zenon DEF a, d, l, init

-----------------------------------------------------------------------------
(* What the entry holds after n blocks: of a text, its digits so far, or   *)
(* fewer when zeros were taken out of a block; of another file, every      *)
(* block that was written as it is.                                        *)
DecodedText(c, n, hex) ==
  /\ (\A i \in 1..n : ~ZerosIn(c, i)) =>
       /\ hex \in Digits(Told(c, n))
       /\ \A j \in 1..Told(c, n) : hex[j] = initializeData(c)[j]
  /\ (\E i \in 1..n : ZerosIn(c, i)) => Len(hex) < Told(c, n)
DecodedBlocks(c, n, hex) ==
  /\ hex \in Digits(n * DigitsPerBlock)
  /\ \A i \in 1..n : Intact(c, i) =>
       \A q \in 1..DigitsPerBlock :
         hex[(i - 1) * DigitsPerBlock + q] = Padded(c)[(i - 1) * DigitsPerBlock + q]
Decoded(c, n, hex) == IF isTxt(c) THEN DecodedText(c, n, hex) ELSE DecodedBlocks(c, n, hex)

LEMMA NothingDecoded ==
  ASSUME NEW c \in Clients
  PROVE  Decoded(c, 0, << >>)
<1>1. Told(c, 0) = 0
  <2>1. Len(initializeData(c)) \in Nat /\ DigitsPerBlock \in Nat
    BY HexIs, BlockSizes, Zenon
  <2>2. 0 * DigitsPerBlock = 0
    BY <2>1
  <2> DEFINE l == Len(initializeData(c))
  <2>3. 0 <= l
    <3>1. l \in Nat
      BY <2>1
    <3> HIDE DEF l
    <3> QED
      BY <3>1
  <2> QED
    BY <2>2, <2>3, Zenon DEF Told
<1>2. \A i \in 1..0 : FALSE
  OBVIOUS
<1>3. << >> \in [1..0 -> Digit]
  OBVIOUS
<1>4. DecodedText(c, 0, << >>)
  BY <1>1, <1>2, <1>3, Zenon DEF DecodedText, Digits
<1>5. DecodedBlocks(c, 0, << >>)
  <2>1. 0 * DigitsPerBlock = 0
    BY BlockSizes
  <2> QED
    BY <1>2, <1>3, <2>1, Zenon DEF DecodedBlocks, Digits
<1> QED
  BY <1>4, <1>5, Zenon DEF Decoded

LEMMA OneMoreWhole ==
  ASSUME NEW c \in Clients, NEW n \in Nat, n + 1 \in 1..Blocks(c),
         NEW hex, DecodedBlocks(c, n, hex), NEW plain \in Strings(BlockBits),
         Intact(c, n + 1) => plain = BinBlock(c, n + 1)
  PROVE  DecodedBlocks(c, n + 1, hex \o binToHex(plain))
<1> DEFINE d == DigitsPerBlock
           B == Blocks(c)
           m == n * d
           x == binToHex(plain)
           g == hex \o x
<1>1. d \in Nat /\ BlockBits = 4 * d /\ B \in Nat
  BY BlockSizes, PaddedIs
<1>2. m \in Nat /\ m + d = (n + 1) * d /\ ((n + 1) - 1) * d = m
  <2>1. (n + 1) - 1 = n
    OBVIOUS
  <2> HIDE DEF d, B
  <2> QED
    BY <1>1, <2>1
<1>3. x \in Digits(d)
  <2>1. plain \in Strings(4 * d)
    BY <1>1, Zenon
  <2> HIDE DEF d
  <2> QED
    BY <1>1, <2>1, BitsAgain, Zenon
<1>4. hex \in Digits(m)
  BY Zenon DEF DecodedBlocks
<1> HIDE DEF x
<1>5. /\ \A j \in 1..m : g[j] = hex[j]
      /\ \A j \in 1..d : g[m + j] = x[j]
      /\ g \in Digits(m + d)
  <2> HIDE DEF d, m
  <2> QED
    BY <1>1, <1>2, <1>3, <1>4, DigitsJoin, Zenon
<1>6. ASSUME NEW i \in 1..(n + 1), Intact(c, i), NEW q \in 1..d
      PROVE  g[(i - 1) * d + q] = Padded(c)[(i - 1) * d + q]
  <2>1. CASE i = n + 1
    <3>1. (i - 1) * d = m
      BY <1>2, <2>1, Zenon
    <3>2. plain = BinBlock(c, n + 1)
      BY <1>6, <2>1, Zenon
    <3>3. x[q] = Padded(c)[m + q]
      <4>1. \A r \in 1..d : binToHex(BinBlock(c, n + 1))[r] = Padded(c)[((n + 1) - 1) * d + r]
        BY BlockIs, Zenon
      <4> QED
        BY <1>2, <3>2, <4>1, Zenon DEF x
    <3> QED
      BY <1>5, <3>1, <3>3, Zenon
  <2>2. CASE i # n + 1
    <3>1. i \in 1..n
      BY <2>2
    <3> DEFINE at == (i - 1) * d
    <3>2. at \in Nat /\ at + d <= m
      <4> HIDE DEF d
      <4> QED
        BY <1>1, <3>1, Multiples, Zenon
    <3>3. at + q \in 1..m
      <4> HIDE DEF at, m, d
      <4> QED
        BY <1>1, <1>2, <3>2
    <3>4. hex[at + q] = Padded(c)[at + q]
      BY <1>6, <3>1, Zenon DEF DecodedBlocks
    <3> QED
      BY <1>5, <3>3, <3>4, Zenon
  <2> QED
    BY <2>1, <2>2, Zenon
<1> HIDE DEF g
<1>7. g \in Digits((n + 1) * d)
  BY <1>2, <1>5, Zenon
<1> QED
  BY <1>6, <1>7, Zenon DEF DecodedBlocks, g, x

(* What is left of a block of a text when its zeros are taken out. *)
LEMMA LeftOfText ==
  ASSUME NEW c \in Clients, NEW i \in 1..Blocks(c)
  PROVE  LET t == Len(TextBits(c, i))
             kept == removeTrailingZeros(BinBlock(c, i))
         IN /\ kept \in Seq(Bit) /\ Len(kept) \in Nat /\ Len(kept) % 8 = 0 /\ t \in Nat /\ t % 8 = 0
            /\ Len(kept) <= t
            /\ ZerosIn(c, i) => Len(kept) < t
            /\ ~ZerosIn(c, i) =>
                 kept \in Strings(t) /\ \A j \in 1..t : kept[j] = BinBlock(c, i)[j]
<1> DEFINE n == BlockBits
           b == BinBlock(c, i)
           text == TextBits(c, i)
           t == Len(text)
           kept == removeTrailingZeros(b)
<1>1. /\ t \in 0..n /\ text \in Strings(t)
      /\ \E r \in Nat : n = t + 8 * r
      /\ \A j \in 1..t : b[j] = text[j]
      /\ \A j \in (t + 1)..n : b[j] = 0
  BY TextOfBlock, Zenon
<1>2. n \in Nat /\ n % 8 = 0
  BY BlockSizes
<1>3. b \in Strings(n)
  BY BlockIs, Zenon
<1> HIDE DEF b, text, n
<1>4. PICK r \in Nat : n = t + 8 * r
  BY <1>1, Zenon
<1>5. kept \in Seq(Bit) /\ Len(kept) \in Nat /\ Len(kept) % 8 = 0
  BY <1>2, <1>3, RemovedBits, Zenon
<1>6. t \in Nat /\ t % 8 = 0
  <2> HIDE DEF t
  <2> QED
    BY <1>1, <1>2, <1>4
<1>7. \A j \in 1..t : EightZerosAt(text, j) <=> j + 7 <= t /\ \A k \in j..(j + 7) : b[k] = 0
  <2> SUFFICES ASSUME NEW j \in 1..t
               PROVE  EightZerosAt(text, j) <=> j + 7 <= t /\ \A k \in j..(j + 7) : b[k] = 0
    BY Zenon
  <2>1. t \in Nat /\ text \in Strings(t) /\ j \in 1..(t + 1)
    <3>1. t \in Nat /\ j \in 1..t
      BY <1>6
    <3> HIDE DEF t
    <3>2. j \in 1..(t + 1)
      BY <3>1
    <3> QED
      BY <1>1, <3>1, <3>2, Zenon
  <2>2. EightZerosAt(text, j) <=> j + 7 <= t /\ \A k \in j..(j + 7) : text[k] = 0
    <3> HIDE DEF t
    <3> QED
      BY <2>1, KeptCases, Zenon
  <2>3. ASSUME j + 7 <= t, NEW k \in j..(j + 7) PROVE b[k] = text[k]
    <3>1. k \in 1..t
      <4>1. t \in Nat /\ j \in 1..t
        BY <1>6
      <4> HIDE DEF t
      <4> QED
        BY <2>3, <4>1
    <3> QED
      BY <1>1, <3>1, Zenon
  <2> QED
    BY <2>2, <2>3, Zenon
<1>8. ZerosIn(c, i) <=> \E j \in 1..t : EightZerosAt(text, j)
  BY Zenon DEF ZerosIn, text
<1> HIDE DEF t
<1>9. /\ Len(kept) <= t
      /\ ZerosIn(c, i) => Len(kept) < t
  <2>1. /\ Len(kept) <= t
        /\ (\E j \in 1..t : j + 7 <= t /\ \A k \in j..(j + 7) : b[k] = 0) => Len(kept) < t
    BY <1>1, <1>2, <1>3, <1>4, KeptFewer, Zenon
  <2> QED
    BY <1>7, <1>8, <2>1, Zenon
<1>10. ASSUME ~ZerosIn(c, i)
       PROVE  kept \in Strings(t) /\ \A j \in 1..t : kept[j] = b[j]
  <2>1. \A j \in 1..t : j + 7 <= t => \E k \in j..(j + 7) : b[k] # 0
    BY <1>7, <1>8, <1>10, Zenon
  <2> QED
    BY <1>1, <1>2, <1>3, <1>4, <2>1, KeptWhole, Zenon
<1> HIDE DEF kept
<1> QED
  BY <1>5, <1>6, <1>9, <1>10, Zenon DEF t, kept, b, text

LEMMA JoinedLength ==
  ASSUME NEW S, NEW s \in Seq(S), NEW t \in Seq(S)
  PROVE  Len(s \o t) = Len(s) + Len(t) /\ Len(s) \in Nat /\ Len(t) \in Nat
<1> QED
  OBVIOUS

LEMMA Quarters ==
  ASSUME NEW k \in Nat, NEW t \in Nat, k % 8 = 0, t % 8 = 0
  PROVE  /\ k \div 4 \in Nat /\ t \div 4 \in Nat
         /\ k <= t => k \div 4 <= t \div 4
         /\ k < t => k \div 4 < t \div 4
<1> QED
  OBVIOUS

LEMMA OneMoreText ==
  ASSUME NEW c \in Clients, NEW n \in Nat, n + 1 \in 1..Blocks(c),
         NEW hex \in Seq(Digit), DecodedText(c, n, hex)
  PROVE  DecodedText(c, n + 1, hex \o binToHex(removeTrailingZeros(BinBlock(c, n + 1))))
<1> DEFINE d == DigitsPerBlock
           init == initializeData(c)
           l == Len(init)
           b == BinBlock(c, n + 1)
           t == Len(TextBits(c, n + 1))
           e == t \div 4
           kept == removeTrailingZeros(b)
           x == binToHex(kept)
           g == hex \o x
           a == n * d
           k == Len(kept)
<1>1. a \in Nat /\ Told(c, n) = a /\ Told(c, n + 1) = a + e /\ 4 * e = t /\ e \in Nat /\ a + e <= l
  <2>1. (n + 1) - 1 = n
    OBVIOUS
  <2>2. /\ ((n + 1) - 1) * d \in Nat /\ Told(c, (n + 1) - 1) = ((n + 1) - 1) * d
        /\ Told(c, n + 1) = ((n + 1) - 1) * d + e /\ 4 * e = t /\ e \in Nat
        /\ ((n + 1) - 1) * d + e <= l
    BY TextOfBlock, Zenon
  <2> QED
    BY <2>1, <2>2, Zenon
<1>2. /\ kept \in Seq(Bit) /\ k \in Nat /\ k % 8 = 0 /\ t \in Nat /\ t % 8 = 0
      /\ k <= t
      /\ ZerosIn(c, n + 1) => k < t
      /\ ~ZerosIn(c, n + 1) =>
           kept \in Strings(t) /\ \A j \in 1..t : kept[j] = b[j]
  BY LeftOfText, Zenon
<1>3. l \in Nat
  BY HexIs, Zenon
<1> HIDE DEF t, d, init, l, kept, b, k
<1>4. x \in Seq(Digit) /\ Len(x) = k \div 4
  <2>1. kept \in Strings(k)
    BY <1>2, SequenceIs, Zenon DEF Strings, k
  <2>2. x \in Digits(k \div 4) /\ k \div 4 \in Nat
    BY <1>2, <2>1, BinToHexIs, Zenon
  <2> HIDE DEF x
  <2> QED
    BY <2>2, SequenceOf, Zenon DEF Digits
<1>5. Len(g) = Len(hex) + (k \div 4) /\ Len(hex) \in Nat
  <2> HIDE DEF x
  <2> QED
    BY <1>4, JoinedLength, Zenon
<1>6. /\ k \div 4 \in Nat /\ (k \div 4) <= e /\ (ZerosIn(c, n + 1) => (k \div 4) < e)
  BY <1>2, Quarters, Zenon
<1> HIDE DEF e, a
<1>7. CASE \E i \in 1..n : ZerosIn(c, i)
  <2>1. Len(hex) < a
    BY <1>1, <1>7, Zenon DEF DecodedText
  <2>2. Len(g) < a + e
    <3> DEFINE y == k \div 4
               z == Len(hex)
               w == Len(g)
    <3>1. y \in Nat /\ y <= e /\ z \in Nat /\ w = z + y /\ z < a
      BY <1>5, <1>6, <2>1
    <3> HIDE DEF y, z, w
    <3>2. w < a + e
      BY <1>1, <3>1
    <3> QED
      BY <3>2, Zenon DEF w
  <2>3. \E i \in 1..(n + 1) : ZerosIn(c, i)
    <3>1. PICK i \in 1..n : ZerosIn(c, i)
      BY <1>7, Zenon
    <3>2. i \in 1..(n + 1)
      OBVIOUS
    <3> QED
      BY <3>1, <3>2, Zenon
  <2> HIDE DEF g
  <2>4. DecodedText(c, n + 1, g)
    BY <1>1, <2>2, <2>3, Zenon DEF DecodedText
  <2> QED
    BY <2>4, Zenon DEF g, x, kept, b
<1>8. CASE ~(\E i \in 1..n : ZerosIn(c, i))
  <2>1. hex \in Digits(a) /\ \A j \in 1..a : hex[j] = init[j]
    BY <1>1, <1>8, Zenon DEF DecodedText, init
  <2>2. CASE ZerosIn(c, n + 1)
    <3>1. Len(hex) = a
      BY <1>1, <2>1, SequenceOf, Zenon DEF Digits
    <3>2. Len(g) < a + e
      <4> DEFINE y == k \div 4
                 w == Len(g)
      <4>1. y \in Nat /\ y < e /\ w = a + y
        BY <1>5, <1>6, <2>2, <3>1
      <4> HIDE DEF y, w
      <4>2. w < a + e
        BY <1>1, <4>1
      <4> QED
        BY <4>2, Zenon DEF w
    <3>3. n + 1 \in 1..(n + 1)
      OBVIOUS
    <3> HIDE DEF g
    <3>4. DecodedText(c, n + 1, g)
      BY <1>1, <2>2, <3>2, <3>3, Zenon DEF DecodedText
    <3> QED
      BY <3>4, Zenon DEF g, x, kept, b
  <2>3. CASE ~ZerosIn(c, n + 1)
    <3>1. kept \in Strings(t) /\ \A j \in 1..t : kept[j] = b[j]
      BY <1>2, <2>3, Zenon
    <3>2. /\ x \in Digits(e)
          /\ \A q \in 1..e : x[q] = 8 * kept[4 * q - 3] + 4 * kept[4 * q - 2] + 2 * kept[4 * q - 1] + kept[4 * q]
      BY <1>2, <3>1, BinToHexIs, Zenon DEF e
    <3>3. BlockBits \in Nat /\ b \in Strings(BlockBits) /\ BlockBits = 4 * d /\ d \in Nat
      BY BlockSizes, BlockIs, Zenon DEF b, d
    <3>4. /\ \A q \in 1..d : binToHex(b)[q] = 8 * b[4 * q - 3] + 4 * b[4 * q - 2] + 2 * b[4 * q - 1] + b[4 * q]
      <4>1. BlockBits \div 4 = d
        BY <3>3
      <4>2. \A q \in 1..(BlockBits \div 4) :
               binToHex(b)[q] = 8 * b[4 * q - 3] + 4 * b[4 * q - 2] + 2 * b[4 * q - 1] + b[4 * q]
        BY <3>3, BinToHexIs, Zenon
      <4> QED
        BY <4>1, <4>2, Zenon
    <3>5. \A q \in 1..d : binToHex(b)[q] = Padded(c)[a + q]
      <4>1. (n + 1) - 1 = n
        OBVIOUS
      <4>2. \A q \in 1..d : binToHex(b)[q] = Padded(c)[((n + 1) - 1) * d + q]
        BY BlockIs, Zenon DEF b, d
      <4> QED
        BY <4>1, <4>2, Zenon DEF a
    <3>6. \A j \in 1..l : Padded(c)[j] = init[j]
      BY PaddedIs, Zenon DEF l, init
    <3>7. t <= BlockBits
      <4>1. t \in 0..BlockBits
        BY TextOfBlock, Zenon DEF t
      <4> QED
        BY <3>3, <4>1
    <3>8. ASSUME NEW q \in 1..e PROVE x[q] = init[a + q]
      <4>1. /\ q \in 1..d /\ a + q \in 1..l
            /\ 4 * q - 3 \in 1..t /\ 4 * q - 2 \in 1..t /\ 4 * q - 1 \in 1..t /\ 4 * q \in 1..t
        BY <1>1, <1>3, <3>3, <3>7
      <4> HIDE DEF x, kept
      <4>2. x[q] = 8 * b[4 * q - 3] + 4 * b[4 * q - 2] + 2 * b[4 * q - 1] + b[4 * q]
        BY <3>1, <3>2, <4>1
      <4> QED
        BY <3>4, <3>5, <3>6, <4>1, <4>2, Zenon
    <3> HIDE DEF x
    <3>9. /\ \A j \in 1..a : g[j] = hex[j]
          /\ \A j \in 1..e : g[a + j] = x[j]
          /\ g \in Digits(a + e)
      BY <1>1, <2>1, <3>2, DigitsJoin, Zenon
    <3> HIDE DEF g
    <3>10. ASSUME NEW j \in 1..(a + e) PROVE g[j] = init[j]
      <4>1. CASE j <= a
        <5>1. j \in 1..a
          BY <1>1, <4>1
        <5> QED
          BY <2>1, <3>9, <5>1, Zenon
      <4>2. CASE ~(j <= a)
        <5>1. j - a \in 1..e /\ a + (j - a) = j
          BY <1>1, <4>2
        <5>2. g[a + (j - a)] = init[a + (j - a)]
          BY <3>8, <3>9, <5>1, Zenon
        <5> QED
          BY <5>1, <5>2, Zenon
      <4> QED
        BY <4>1, <4>2, Zenon
    <3>11. ASSUME NEW i \in 1..(n + 1) PROVE ~ZerosIn(c, i)
      <4>1. i = n + 1 \/ i \in 1..n
        OBVIOUS
      <4> QED
        BY <1>8, <2>3, <4>1, Zenon
    <3>12. DecodedText(c, n + 1, g)
      BY <1>1, <3>9, <3>10, <3>11, Zenon DEF DecodedText, init
    <3> QED
      BY <3>12, Zenon DEF g, x, kept, b
  <2> QED
    BY <2>2, <2>3, Zenon
<1> QED
  BY <1>7, <1>8, Zenon

LEMMA DecryptText ==
  \A u, bin : DOMAIN u = Fields =>
    CBC_decrypt(u, bin).hex_data = u.hex_data \o binToHex(Kept(u, bin))
<1> QED
  BY DecryptIs, Zenon

(* The server deciphers what the client enciphered. *)
LEMMA BlockDecoded ==
  ASSUME NEW c \in Clients, NEW n \in Nat, n + 1 \in 1..Blocks(c), NEW h, Enciphered(c, n + 1, h),
         NEW u, DOMAIN u = Fields, NEW bin,
         Intact(c, n + 1) => bin = BlockAt(h, n + 1), u.iv = Chained(c, h, n + 1),
         u.rrk = Reverse(Agreed(c)), u.isTxt = isTxt(c),
         u.hex_data \in HexText, Decoded(c, n, u.hex_data)
  PROVE  Decoded(c, n + 1, CBC_decrypt(u, bin).hex_data)
<1> DEFINE plain == Plain(u, bin)
           b == BinBlock(c, n + 1)
           mask == Chained(c, h, n + 1)
<1>1. CBC_decrypt(u, bin).hex_data = u.hex_data \o binToHex(Kept(u, bin))
  BY DecryptText, Zenon
<1>2. plain \in Strings(BlockBits)
  BY PlainBits, Zenon DEF Plain
<1>3. mask \in Seq(Bit) /\ Len(mask) >= BlockBits
  <2>1. CASE n + 1 = 1
    <3>1. mask = IvOf[c]
      BY <2>1, Zenon DEF Chained
    <3> QED
      BY <3>1, EncryptedTransferAssumption, Zenon
  <2>2. CASE n + 1 # 1
    <3> DEFINE B == Blocks(c)
    <3>1. n \in 1..(n + 1) /\ n + 1 \in Nat /\ (n + 1) - 1 = n
      BY <2>2
    <3>2. h \in Digits((n + 1) * DigitsPerBlock)
      BY Zenon DEF Enciphered
    <3>3. BlockAt(h, n) \in Seq(Bit) /\ Len(BlockAt(h, n)) = BlockBits
      BY <3>1, <3>2, BlockBitsOf, Zenon
    <3>4. mask = BlockAt(h, n)
      BY <2>2, <3>1, Zenon DEF Chained
    <3>5. BlockBits \in Nat
      BY BlockSizes
    <3> HIDE DEF mask
    <3>6. Len(mask) = BlockBits
      BY <3>3, <3>4, Zenon
    <3> QED
      BY <3>3, <3>4, <3>5, <3>6
  <2> QED
    BY <2>1, <2>2, Zenon
<1>4. ASSUME Intact(c, n + 1) PROVE plain = b
  <2>1. n + 1 \in 1..(n + 1)
    OBVIOUS
  <2>2. feistel(bin, u.rrk) = XOR_binary(b, mask)
    BY <1>4, <2>1, Zenon DEF Enciphered
  <2>3. b \in Strings(BlockBits) /\ BlockBits \in Nat
    BY BlockIs, BlockSizes, Zenon
  <2>4. plain = XOR_binary(XOR_binary(b, mask), mask)
    BY <2>2, Zenon DEF Plain
  <2> HIDE DEF mask, b, plain
  <2>5. XOR_binary(XOR_binary(b, mask), mask) = b
    BY <1>3, <2>3, XorTwice, Zenon
  <2> QED
    BY <2>4, <2>5, Zenon
<1>5. CASE isTxt(c)
  <2>1. Intact(c, n + 1)
    BY <1>5, Zenon DEF Intact
  <2>2. Kept(u, bin) = removeTrailingZeros(b)
    BY <1>4, <1>5, <2>1, Zenon DEF Kept
  <2>3. u.hex_data \in Seq(Digit)
    BY Zenon DEF HexText
  <2>4. DecodedText(c, n, u.hex_data)
    BY <1>5, Zenon DEF Decoded
  <2>5. DecodedText(c, n + 1, u.hex_data \o binToHex(removeTrailingZeros(b)))
    BY <2>3, <2>4, OneMoreText, Zenon
  <2> QED
    BY <1>1, <1>5, <2>2, <2>5, Zenon DEF Decoded
<1>6. CASE ~isTxt(c)
  <2>1. Kept(u, bin) = plain
    BY <1>6, Zenon DEF Kept
  <2>2. DecodedBlocks(c, n, u.hex_data)
    BY <1>6, Zenon DEF Decoded
  <2> HIDE DEF plain
  <2>3. DecodedBlocks(c, n + 1, u.hex_data \o binToHex(plain))
    BY <1>2, <1>4, <2>2, OneMoreWhole, Zenon
  <2> QED
    BY <1>1, <1>6, <2>1, <2>3, Zenon DEF Decoded
<1> QED
  BY <1>5, <1>6, Zenon

LEMMA InBlock ==
  ASSUME NEW d \in Nat, d # 0, NEW w \in Nat, NEW x \in 1..(w * d)
  PROVE  \E i \in 1..w : \E q \in 1..d : x = (i - 1) * d + q
<1> DEFINE y == x - 1
           k == y \div d
           r == y % d
<1>1. w * d \in Nat
  OBVIOUS
<1>2. y \in Nat /\ y < w * d
  <2> DEFINE m == w * d
  <2> HIDE DEF m
  <2> QED
    BY <1>1 DEF m
<1> HIDE DEF y
<1>3. k \in Nat /\ r \in 0..(d - 1) /\ y = d * k + r
  BY <1>2
<1> HIDE DEF k, r
<1>4. k < w
  <2> SUFFICES ASSUME ~(k < w) PROVE FALSE
    OBVIOUS
  <2>1. PICK e \in Nat : k = w + e
    <3>1. k - w \in Nat /\ k = w + (k - w)
      BY <1>3
    <3> QED
      BY <3>1
  <2>2. d * k = w * d + d * e /\ d * e \in Nat
    BY <2>1
  <2> DEFINE m == w * d
             z == d * e
             v == d * k
  <2>3. v = m + z /\ z \in Nat /\ m \in Nat /\ y = v + r /\ y < m
    BY <1>1, <1>2, <1>3, <2>2
  <2> HIDE DEF m, z, v
  <2> QED
    BY <1>3, <2>3
<1>5. k + 1 \in 1..w /\ r + 1 \in 1..d /\ (k + 1) - 1 = k
  BY <1>3, <1>4
<1>6. x = k * d + (r + 1)
  <2>1. d * k = k * d /\ d * k \in Nat
    BY <1>3
  <2> DEFINE v == k * d
  <2>2. v \in Nat /\ y = v + r /\ y = x - 1
    BY <1>3, <2>1 DEF y
  <2>3. x \in Nat
    BY <1>1
  <2> HIDE DEF v, y
  <2>4. x = v + (r + 1)
    BY <1>3, <2>2, <2>3
  <2> QED
    BY <2>4 DEF v
<1> QED
  BY <1>5, <1>6, Zenon

LEMMA WholeBlocks ==
  ASSUME NEW f \in Nat, NEW b \in Nat, b # 0
  PROVE  f \div b \in Nat /\ (f \div b) * b \in Nat /\ (f \div b) * b <= f
<1> DEFINE k == f \div b
           r == f % b
<1>1. k \in Nat /\ r \in 0..(b - 1) /\ f = b * k + r
  OBVIOUS
<1> HIDE DEF k, r
<1>2. b * k = k * b /\ k * b \in Nat
  BY <1>1
<1> DEFINE m == k * b
<1>3. m \in Nat /\ f = m + r
  BY <1>1, <1>2
<1> HIDE DEF m
<1>4. m <= f
  BY <1>1, <1>3
<1> QED
  BY <1>1, <1>3, <1>4 DEF m, k

LEMMA TextAcceptable ==
  ASSUME NEW c \in Clients, NEW hex \in HexText, isTxt(c), DecodedText(c, Blocks(c), hex)
  PROVE  Acceptable(c, hexToASCII(hex))
<1> DEFINE init == initializeData(c)
           l == Len(init)
           file == readFile(c)
           f == Len(file)
           bytes == hexToASCII(hex)
<1>1. l = 2 * f /\ l \in Nat /\ f \in Nat /\ init \in Digits(l) /\ hexToASCII(init) = file
  BY HexIs, FileIs, Zenon
<1>2. Told(c, Blocks(c)) = l
  <2> DEFINE m == Blocks(c) * DigitsPerBlock
             p == Padding(init)
  <2>1. m = l + p /\ p \in Nat
    BY PaddedIs, Zenon
  <2>2. Told(c, Blocks(c)) = IF m <= l THEN m ELSE l
    BY Zenon DEF Told
  <2> HIDE DEF m, p, l
  <2>3. m <= l => m = l
    BY <1>1, <2>1
  <2> QED
    BY <2>2, <2>3, Zenon
<1>3. ZeroFree(c) <=> \A i \in 1..Blocks(c) : ~ZerosIn(c, i)
  BY Zenon DEF ZeroFree, ZerosIn
<1>4. ASSUME ZeroFree(c) PROVE bytes = file
  <2>1. hex \in Digits(l) /\ \A j \in 1..l : hex[j] = init[j]
    BY <1>2, <1>3, <1>4, Zenon DEF DecodedText
  <2> HIDE DEF init, l
  <2>2. hex = init
    BY <1>1, <2>1, SameDigits, Zenon
  <2> QED
    BY <1>1, <2>2, Zenon
<1>5. ASSUME ~ZeroFree(c) PROVE Len(bytes) < f
  <2>1. Len(hex) < l
    BY <1>2, <1>3, <1>5, Zenon DEF DecodedText
  <2>2. Len(hex) \in Nat /\ 2 * (Len(hex) \div 2) = Len(hex) /\ Len(bytes) = Len(hex) \div 2
        /\ Len(hex) \div 2 \in Nat
    BY BytesOfText, Zenon
  <2> DEFINE y == Len(bytes)
             z == Len(hex)
  <2>3. y \in Nat /\ 2 * y = z /\ z < l
    BY <2>1, <2>2, Zenon
  <2> HIDE DEF y, z, l, f
  <2>4. y < f
    BY <1>1, <2>3
  <2> QED
    BY <2>4, Zenon DEF y
<1> QED
  BY <1>4, <1>5, Zenon DEF Acceptable

LEMMA BlocksAcceptable ==
  ASSUME NEW c \in Clients, NEW hex, ~isTxt(c), DecodedBlocks(c, Blocks(c), hex)
  PROVE  Acceptable(c, hexToASCII(hex))
<1> DEFINE init == initializeData(c)
           l == Len(init)
           file == readFile(c)
           f == Len(file)
           b == BlockBytes
           d == DigitsPerBlock
           B == Blocks(c)
           m == B * b
           w == f \div b
           whole == w * b
           bytes == hexToASCII(hex)
           p == Padding(init)
<1>1. /\ l = 2 * f /\ l \in Nat /\ f \in Nat /\ init \in Digits(l) /\ hexToASCII(init) = file
      /\ file \in Bytes(f)
  BY HexIs, FileIs, Zenon
<1>2. b \in Nat /\ b # 0 /\ d \in Nat /\ d # 0 /\ d = 2 * b
  BY BlockSizes
<1>3. /\ p \in Nat /\ p < d /\ B \in Nat /\ B * d = l + p
      /\ \A j \in 1..l : Padded(c)[j] = init[j]
  BY PaddedIs, Zenon
<1>4. w \in Nat /\ whole \in Nat /\ whole <= f
  <2> HIDE DEF f, b
  <2> QED
    BY <1>1, <1>2, WholeBlocks, Zenon
<1> HIDE DEF init, l, file, f, b, d, B, p
<1>5. m \in Nat /\ B * d = 2 * m
  BY <1>2, <1>3
<1>6. hex \in Digits(2 * m)
  BY <1>5, Zenon DEF DecodedBlocks, d, B
<1> HIDE DEF w
<1>7. w * d = 2 * whole
  BY <1>2, <1>4
<1>8. whole <= m
  <2> HIDE DEF m, whole
  <2>1. 2 * m = l + p
    BY <1>3, <1>5
  <2> QED
    BY <1>1, <1>3, <1>4, <1>5, <2>1
<1>9. ASSUME NEW x \in 1..(2 * whole) PROVE hex[x] = init[x]
  <2>1. x \in 1..(w * d)
    BY <1>7, Zenon
  <2>2. PICK i \in 1..w, q \in 1..d : x = (i - 1) * d + q
    BY <1>2, <1>4, <2>1, InBlock, Zenon
  <2>3. i \in 1..B /\ (i < B \/ p = 0)
    <3> DEFINE y == i * d
               z == w * d
               v == B * d
    <3>1. i \in Nat
      BY <1>4
    <3>2. z <= l /\ v = l + p /\ z \in Nat /\ v \in Nat
      <4>1. z = 2 * whole /\ v = l + p
        BY <1>3, <1>7, Zenon
      <4> HIDE DEF z, v, whole
      <4> QED
        BY <1>1, <1>3, <1>4, <4>1
    <3>3. w <= B /\ (w < B \/ p = 0)
      <4>1. CASE w >= B
        <5>1. PICK e \in Nat : w = B + e
          <6>1. w - B \in Nat /\ w = B + (w - B)
            BY <1>3, <1>4, <4>1
          <6> QED
            BY <6>1
        <5>2. z = v + e * d /\ e * d \in Nat /\ (e # 0 => e * d >= d)
          <6>1. z = v + e * d /\ e * d \in Nat
            BY <1>2, <1>3, <5>1
          <6>2. e # 0 => e * d >= d
            <7>1. ASSUME e # 0 PROVE e * d >= d
              <8>1. PICK g \in Nat : e = g + 1
                <9>1. e - 1 \in Nat /\ e = (e - 1) + 1
                  BY <7>1
                <9> QED
                  BY <9>1
              <8>2. e * d = g * d + d /\ g * d \in Nat
                BY <1>2, <8>1
              <8> DEFINE s == g * d
                         o == e * d
              <8>3. o = s + d /\ s \in Nat
                BY <8>2
              <8> HIDE DEF s, o
              <8>4. o >= d
                BY <1>2, <8>3
              <8> QED
                BY <8>4 DEF o
            <7> QED
              BY <7>1, Zenon
          <6> QED
            BY <6>1, <6>2, Zenon
        <5> DEFINE t == e * d
        <5>3. z = v + t /\ t \in Nat /\ (e # 0 => t >= d)
          BY <5>2, Zenon
        <5> HIDE DEF z, v, t
        <5>4. p = 0 /\ e = 0
          BY <1>1, <1>2, <1>3, <3>2, <5>3
        <5> QED
          BY <1>3, <5>1, <5>4
      <4>2. CASE ~(w >= B)
        BY <1>3, <1>4, <4>2
      <4> QED
        BY <4>1, <4>2, Zenon
    <3> HIDE DEF y, z, v
    <3> QED
      BY <1>3, <1>4, <3>1, <3>3
  <2>4. Intact(c, i)
    BY <2>3, Zenon DEF Intact, p, init, B
  <2>5. hex[(i - 1) * d + q] = Padded(c)[(i - 1) * d + q]
    BY <2>3, <2>4, Zenon DEF DecodedBlocks, d, B
  <2>6. x \in 1..l
    <3>1. x \in 1..(2 * whole)
      OBVIOUS
    <3> HIDE DEF whole
    <3> QED
      BY <1>1, <1>4, <3>1
  <2> QED
    BY <1>3, <2>2, <2>5, <2>6, Zenon
<1>10. /\ bytes \in Bytes(m)
       /\ \A i \in 1..m : bytes[i] = 16 * hex[2 * i - 1] + hex[2 * i]
  <2> DEFINE n == 2 * m
  <2>1. n \in Nat /\ n \div 2 = m
    BY <1>5
  <2>2. hex \in Digits(n)
    BY <1>6, Zenon
  <2> HIDE DEF n, m
  <2>3. /\ hexToASCII(hex) \in Bytes(n \div 2)
        /\ \A i \in 1..(n \div 2) : hexToASCII(hex)[i] = 16 * hex[2 * i - 1] + hex[2 * i]
    BY <2>1, <2>2, HexToASCIIIs, Zenon
  <2> QED
    BY <2>1, <2>3, Zenon
<1>11. \A i \in 1..f : file[i] = 16 * init[2 * i - 1] + init[2 * i]
  <2>1. l \div 2 = f
    BY <1>1
  <2>2. \A i \in 1..(l \div 2) : hexToASCII(init)[i] = 16 * init[2 * i - 1] + init[2 * i]
    BY <1>1, HexToASCIIIs, Zenon
  <2> QED
    BY <1>1, <2>1, <2>2, Zenon
<1> HIDE DEF bytes, m, whole
<1>12. \A i \in 1..whole : bytes[i] = file[i]
  <2> SUFFICES ASSUME NEW i \in 1..whole PROVE bytes[i] = file[i]
    OBVIOUS
  <2>1. i \in 1..m /\ i \in 1..f /\ 2 * i - 1 \in 1..(2 * whole) /\ 2 * i \in 1..(2 * whole)
    BY <1>1, <1>4, <1>5, <1>8
  <2> QED
    BY <1>9, <1>10, <1>11, <2>1, Zenon
<1>13. SubSeq(bytes, 1, whole) = SubSeq(file, 1, whole)
  <2>1. SubSeq(bytes, 1, whole) \in Bytes(whole) /\ \A q \in 1..whole : SubSeq(bytes, 1, whole)[q] = bytes[q]
    BY <1>4, <1>5, <1>8, <1>10, FirstBytes, Zenon
  <2>2. SubSeq(file, 1, whole) \in Bytes(whole) /\ \A q \in 1..whole : SubSeq(file, 1, whole)[q] = file[q]
    BY <1>1, <1>4, FirstBytes, Zenon
  <2> DEFINE s == SubSeq(bytes, 1, whole)
             t == SubSeq(file, 1, whole)
  <2>3. s \in Bytes(whole) /\ t \in Bytes(whole) /\ \A q \in 1..whole : s[q] = t[q]
    BY <1>12, <2>1, <2>2, Zenon
  <2> HIDE DEF s, t
  <2>4. s = t
    BY <2>3, SameBytes, Zenon
  <2> QED
    BY <2>4, Zenon DEF s, t
<1>14. Len(bytes) = m
  BY <1>5, <1>10, SequenceOf, Zenon DEF Bytes
<1>15. BlockBits \div 8 = b
  BY DEF b, BlockBytes
<1> QED
  BY <1>13, <1>14, <1>15, Zenon DEF Acceptable, m, B, whole, w, f, file, bytes

LEMMA DecodedAcceptable ==
  ASSUME NEW c \in Clients, NEW hex \in HexText, Decoded(c, Blocks(c), hex)
  PROVE  Acceptable(c, hexToASCII(hex))
<1> QED
  BY TextAcceptable, BlocksAcceptable, Zenon DEF Decoded

-----------------------------------------------------------------------------
(* What the entry of a descriptor says of the file of its client.          *)

FileName(c) == <<FileOf[c].ip, FileOf[c].name>>
Sends(ts, tag) == ts # << >> /\ Head(ts).tag = tag

(* The entry u knows the client c: whose file it is, and that nothing is   *)
(* deciphered before the dialogue comes to the text.                       *)
Knows(c, u) ==
  /\ u.ip = FileOf[c].ip
  /\ u.file_name_flag => u.file_name = FileName(c) /\ u.isTxt = isTxt(c)
  /\ ~(u.key_flag /\ u.file_name_flag /\ u.file_size_flag) => u.hex_data = << >>

(* With n blocks written, h, the entry holds what was read of them: one    *)
(* less while a block is on the wire, and all when the end of the text is, *)
(* also that of a client that was killed then.                             *)
Reading(c, p, ts, n, h, u) ==
  /\ p = "data" /\ Sends(ts, "[file_size]") => n = 0
  /\ p = "data" /\ Sends(ts, "block") =>
       n # 0 /\ u.iv = Chained(c, h, n) /\ Decoded(c, n - 1, u.hex_data)
  /\ p = "data" /\ ts = << >> => Decoded(c, n, u.hex_data)
  /\ p = "end" \/ (p = "killed" /\ Sends(ts, "EOT")) =>
       u.file_name_flag /\ Decoded(c, Blocks(c), u.hex_data)

Reception(c, p, ts, f, n, h, u) ==
  /\ f \in Fds => Knows(c, u) /\ Reading(c, p, ts, n, h, u)
  /\ Sends(ts, "EOT") => f # NotAccepted
  /\ Sends(ts, "[file_name]") => Head(ts).value = FileOf[c].name

Received ==
  \A c \in Clients : Reception(c, pc[c], toServer[c], fd[c], sent[c], data_[c], users[fd[c]])

LEMMA WhatIsSent ==
  /\ \A tag, value, other : Sends(<<Message(tag, value)>>, other) <=> tag = other
  /\ \A tag, value : Head(<<Message(tag, value)>>).value = value
  /\ \A other : ~Sends(<< >>, other)
<1> QED
  BY OneMessage DEF Sends, Message

LEMMA OthersReceive ==
  ASSUME Received, NEW c \in Clients,
         \A d \in Clients \ {c} :
           /\ pc'[d] = pc[d] /\ toServer'[d] = toServer[d] /\ fd'[d] = fd[d]
           /\ sent'[d] = sent[d] /\ data_'[d] = data_[d]
           /\ fd[d] \in Fds => users'[fd[d]] = users[fd[d]],
         Reception(c, pc'[c], toServer'[c], fd'[c], sent'[c], data_'[c], users'[fd'[c]])
  PROVE  Received'
<1> SUFFICES ASSUME NEW d \in Clients
             PROVE  Reception(d, pc'[d], toServer'[d], fd'[d], sent'[d], data_'[d], users'[fd'[d]])
  BY Zenon DEF Received
<1>1. CASE d = c
  BY <1>1
<1>2. CASE d # c
  <2>1. Reception(d, pc[d], toServer[d], fd[d], sent[d], data_[d], users[fd[d]])
    BY Zenon DEF Received
  <2>2. CASE fd[d] \in Fds
    <3>1. users'[fd'[d]] = users[fd[d]]
      BY <1>2, <2>2
    <3> QED
      BY <1>2, <2>1, <3>1
  <2>3. CASE fd[d] \notin Fds
    <3>1. /\ fd'[d] \notin Fds /\ (Sends(toServer'[d], "EOT") => fd'[d] # NotAccepted)
          /\ Sends(toServer'[d], "[file_name]") => Head(toServer'[d]).value = FileOf[d].name
      BY <1>2, <2>1, <2>3 DEF Reception
    <3> QED
      BY <3>1, Zenon DEF Reception
  <2> QED
    BY <2>2, <2>3
<1> QED
  BY <1>1, <1>2

LEMMA InitReceived == Init => Received
<1> SUFFICES ASSUME Init, NEW c \in Clients
             PROVE  Reception(c, pc[c], toServer[c], fd[c], sent[c], data_[c], users[fd[c]])
  BY Zenon DEF Received
<1>1. fd[c] = NotAccepted /\ toServer[c] = << >>
  BY Zenon DEF Init
<1>2. fd[c] \notin Fds /\ ~Sends(toServer[c], "EOT") /\ ~Sends(toServer[c], "[file_name]")
  BY <1>1, FdsAreNumbers, WhatIsSent
<1> QED
  BY <1>2, Zenon DEF Reception

LEMMA ReceptionOf ==
  ASSUME Received, NEW c \in Clients
  PROVE  Reception(c, pc[c], toServer[c], fd[c], sent[c], data_[c], users[fd[c]])
<1> QED
  BY Zenon DEF Received

(* The client c writes a message and goes to p. *)
LEMMA Writes ==
  ASSUME StepInv, Values, Received, NEW c \in Clients, NEW p, NEW tag, NEW value,
         pc' = [pc EXCEPT ![c] = p], toServer[c] = << >>,
         toServer' = [toServer EXCEPT ![c] = Append(@, Message(tag, value))],
         UNCHANGED <<users, fd>>,
         \A d \in Clients \ {c} : sent'[d] = sent[d] /\ data_'[d] = data_[d],
         fd[c] \in Fds => Reading(c, p, <<Message(tag, value)>>, sent'[c], data_'[c], users[fd[c]]),
         tag = "EOT" => fd[c] # NotAccepted, tag = "[file_name]" => value = FileOf[c].name
  PROVE  Received'
<1>1. Reception(c, pc[c], toServer[c], fd[c], sent[c], data_[c], users[fd[c]])
  BY ReceptionOf
<1>2. DOMAIN pc = Clients /\ DOMAIN toServer = Clients
  BY DEF StepInv, Tables
<1>3. pc'[c] = p /\ toServer'[c] = <<Message(tag, value)>>
  BY <1>2, OneMessage
<1>4. Reception(c, p, <<Message(tag, value)>>, fd[c], sent'[c], data_'[c], users[fd[c]])
  <2> DEFINE ts == <<Message(tag, value)>>
  <2>1. Sends(ts, "EOT") => tag = "EOT"
    BY WhatIsSent
  <2>2. Sends(ts, "[file_name]") => tag = "[file_name]"
    BY WhatIsSent
  <2>3. Head(ts).value = value
    BY WhatIsSent
  <2> HIDE DEF ts
  <2>4. Sends(ts, "[file_name]") => Head(ts).value = FileOf[c].name
    BY <2>2, <2>3
  <2>5. fd[c] \in Fds => Knows(c, users[fd[c]])
    BY <1>1, Zenon DEF Reception
  <2>6. fd[c] \in Fds => Reading(c, p, ts, sent'[c], data_'[c], users[fd[c]])
    BY Zenon DEF ts
  <2>7. Sends(ts, "EOT") => fd[c] # NotAccepted
    BY <2>1
  <2>8. Reception(c, p, ts, fd[c], sent'[c], data_'[c], users[fd[c]])
    BY <2>4, <2>5, <2>6, <2>7, Zenon DEF Reception
  <2> QED
    BY <2>8, Zenon DEF ts
<1>5. Reception(c, pc'[c], toServer'[c], fd'[c], sent'[c], data_'[c], users'[fd'[c]])
  BY <1>3, <1>4
<1>6. \A d \in Clients \ {c} :
           /\ pc'[d] = pc[d] /\ toServer'[d] = toServer[d] /\ fd'[d] = fd[d]
           /\ sent'[d] = sent[d] /\ data_'[d] = data_[d]
           /\ fd[d] \in Fds => users'[fd[d]] = users[fd[d]]
  BY <1>2
<1> QED
  BY <1>5, <1>6, OthersReceive, Zenon

(* Where the dialogue is not at the text, nothing is claimed of it. *)
LEMMA NotReading ==
  ASSUME NEW c, NEW p \in {"start", "key", "iv", "name", "done"}, NEW ts, NEW n, NEW h, NEW u
  PROVE  Reading(c, p, ts, n, h, u)
<1> QED
  BY DEF Reading

LEMMA ConnectReceives ==
  ASSUME StepInv, Values, Written, Received, NEW c \in Clients, Connect(c)
  PROVE  Received'
<1>1. /\ pc[c] = "start" /\ pc' = [pc EXCEPT ![c] = "key"]
      /\ toServer' = [toServer EXCEPT ![c] = Append(@, Message("[public_key]", KeyOf[c]))]
      /\ UNCHANGED <<users, fd>> /\ UNCHANGED <<sent, data_>>
  BY DEF Connect, Started, Send
<1>2. toServer[c] = << >>
  BY <1>1, TalkAt DEF Dialogue
<1>3. fd[c] \in Fds => Reading(c, "key", <<Message("[public_key]", KeyOf[c])>>, sent'[c], data_'[c], users[fd[c]])
  BY NotReading
<1>4. /\ "[public_key]" = "EOT" => fd[c] # NotAccepted
      /\ "[public_key]" = "[file_name]" => KeyOf[c] = FileOf[c].name
  OBVIOUS
<1>5. \A d \in Clients \ {c} : sent'[d] = sent[d] /\ data_'[d] = data_[d]
  BY <1>1
<1> QED
  BY <1>1, <1>2, <1>3, <1>4, <1>5, Writes, Zenon

LEMMA TakeKeyReceives ==
  ASSUME StepInv, Values, Written, Received, NEW c \in Clients, TakeKey(c)
  PROVE  Received'
<1>1. /\ pc[c] = "key" /\ pc' = [pc EXCEPT ![c] = "iv"] /\ toClient[c] # << >>
      /\ toServer' = [toServer EXCEPT ![c] = Append(@, Message("[iv]", IvOf[c]))]
      /\ UNCHANGED <<users, fd>> /\ UNCHANGED <<sent, data_>>
  BY Zenon DEF TakeKey, Answered, Send, serverVars
<1>2. toServer[c] = << >>
  BY <1>1, TalkAt, AnswerIsThere DEF Dialogue, AtKey
<1>3. fd[c] \in Fds => Reading(c, "iv", <<Message("[iv]", IvOf[c])>>, sent'[c], data_'[c], users[fd[c]])
  BY NotReading
<1>4. /\ "[iv]" = "EOT" => fd[c] # NotAccepted
      /\ "[iv]" = "[file_name]" => IvOf[c] = FileOf[c].name
  OBVIOUS
<1>5. \A d \in Clients \ {c} : sent'[d] = sent[d] /\ data_'[d] = data_[d]
  BY <1>1
<1> QED
  BY <1>1, <1>2, <1>3, <1>4, <1>5, Writes, Zenon

LEMMA SendNameReceives ==
  ASSUME StepInv, Values, Written, Received, NEW c \in Clients, SendName(c)
  PROVE  Received'
<1>1. /\ pc[c] = "iv" /\ pc' = [pc EXCEPT ![c] = "name"] /\ toClient[c] # << >>
      /\ toServer' = [toServer EXCEPT ![c] = Append(@, Message("[file_name]", FileOf[c].name))]
      /\ UNCHANGED <<users, fd>> /\ UNCHANGED <<sent, data_>>
  BY Zenon DEF SendName, Answered, Send, serverVars
<1>2. toServer[c] = << >>
  BY <1>1, TalkAt DEF Dialogue, AtIv, Asks, IsAnswered
<1>3. fd[c] \in Fds => Reading(c, "name", <<Message("[file_name]", FileOf[c].name)>>, sent'[c], data_'[c], users[fd[c]])
  BY NotReading
<1>4. /\ "[file_name]" = "EOT" => fd[c] # NotAccepted
      /\ "[file_name]" = "[file_name]" => FileOf[c].name = FileOf[c].name
  OBVIOUS
<1>5. \A d \in Clients \ {c} : sent'[d] = sent[d] /\ data_'[d] = data_[d]
  BY <1>1
<1> QED
  BY <1>1, <1>2, <1>3, <1>4, <1>5, Writes, Zenon

LEMMA SendSizeReceives ==
  ASSUME StepInv, Values, Written, Received, NEW c \in Clients, SendSize(c)
  PROVE  Received'
<1> DEFINE size == calculate_file_size(c)
<1>1. /\ pc[c] = "name" /\ pc' = [pc EXCEPT ![c] = "data"] /\ toClient[c] # << >>
      /\ toServer' = [toServer EXCEPT ![c] = Append(@, Message("[file_size]", size))]
      /\ UNCHANGED <<users, fd>> /\ UNCHANGED <<sent, data_>>
  BY Zenon DEF SendSize, Answered, Send, serverVars
<1>2. toServer[c] = << >>
  BY <1>1, TalkAt DEF Dialogue, AtName, Asks, IsAnswered
<1> HIDE DEF size
<1>3. sent'[c] = 0
  BY <1>1 DEF Written, Writing
<1>4. fd[c] \in Fds => Reading(c, "data", <<Message("[file_size]", size)>>, sent'[c], data_'[c], users[fd[c]])
  <2>1. /\ ~Sends(<<Message("[file_size]", size)>>, "block")
        /\ <<Message("[file_size]", size)>> # << >>
    BY WhatIsSent, OneMessage
  <2> DEFINE ts == <<Message("[file_size]", size)>>
             n == sent'[c]
             h == data_'[c]
             u == users[fd[c]]
  <2>2. n = 0 /\ ~Sends(ts, "block") /\ ts # << >>
    BY <1>3, <2>1
  <2> HIDE DEF ts, n, h, u
  <2>3. Reading(c, "data", ts, n, h, u)
    BY <2>2 DEF Reading
  <2> QED
    BY <2>3, Zenon DEF ts, n, h, u
<1>5. /\ "[file_size]" = "EOT" => fd[c] # NotAccepted
      /\ "[file_size]" = "[file_name]" => size = FileOf[c].name
  OBVIOUS
<1>6. \A d \in Clients \ {c} : sent'[d] = sent[d] /\ data_'[d] = data_[d]
  BY <1>1
<1> QED
  BY <1>1, <1>2, <1>4, <1>5, <1>6, Writes, Zenon

LEMMA EndTextReceives ==
  ASSUME StepInv, Values, Written, Received, NEW c \in Clients, EndText(c)
  PROVE  Received'
<1>1. /\ pc[c] = "data" /\ pc' = [pc EXCEPT ![c] = "end"] /\ toClient[c] # << >> /\ sent[c] = Blocks(c)
      /\ toServer' = [toServer EXCEPT ![c] = Append(@, Message("EOT", 0))]
      /\ UNCHANGED <<users, fd>> /\ UNCHANGED <<sent, data_>>
  BY Zenon DEF EndText, Answered, Send, serverVars
<1>2. /\ toServer[c] = << >> /\ fd[c] \in Fds /\ users[fd[c]].file_name_flag
  BY <1>1, BetweenBlocks DEF IsAnswered, Holds, Flags
<1>3. Reading(c, pc[c], toServer[c], sent[c], data_[c], users[fd[c]])
  BY <1>2, ReceptionOf DEF Reception
<1>4. Decoded(c, Blocks(c), users[fd[c]].hex_data)
  BY <1>1, <1>2, <1>3 DEF Reading
<1>5. Reading(c, "end", <<Message("EOT", 0)>>, sent'[c], data_'[c], users[fd[c]])
  BY <1>2, <1>4 DEF Reading
<1>6. ("EOT" = "EOT" => fd[c] # NotAccepted) /\ ("EOT" = "[file_name]" => 0 = FileOf[c].name)
  BY <1>2, FdsAreNumbers
<1>7. \A d \in Clients \ {c} : sent'[d] = sent[d] /\ data_'[d] = data_[d]
  BY <1>1
<1> QED
  BY <1>1, <1>2, <1>5, <1>6, <1>7, Writes, Zenon

LEMMA LeaveReceives ==
  ASSUME StepInv, Values, Written, Received, NEW c \in Clients, Leave(c)
  PROVE  Received'
<1>1. /\ pc[c] = "end" /\ fd[c] = Closed /\ pc' = [pc EXCEPT ![c] = "done"]
      /\ UNCHANGED <<users, fd, toServer>> /\ UNCHANGED <<sent, data_>>
  BY Zenon DEF Leave, serverVars
<1>2. fd[c] \notin Fds /\ fd[c] # NotAccepted /\ DOMAIN pc = Clients
  BY <1>1, FdsAreNumbers DEF StepInv, Tables
<1>3. Reception(c, pc'[c], toServer'[c], fd'[c], sent'[c], data_'[c], users'[fd'[c]])
  <2>1. /\ fd'[c] \notin Fds /\ fd'[c] # NotAccepted
        /\ Sends(toServer'[c], "[file_name]") => Head(toServer'[c]).value = FileOf[c].name
    BY <1>1, <1>2, ReceptionOf DEF Reception
  <2> QED
    BY <2>1, Zenon DEF Reception
<1>4. \A d \in Clients \ {c} :
           /\ pc'[d] = pc[d] /\ toServer'[d] = toServer[d] /\ fd'[d] = fd[d]
           /\ sent'[d] = sent[d] /\ data_'[d] = data_[d]
           /\ fd[d] \in Fds => users'[fd[d]] = users[fd[d]]
  BY <1>1, <1>2
<1> QED
  BY <1>3, <1>4, OthersReceive, Zenon

(* Only the end of the text has its mark. *)
LEMMA EndOnly ==
  ASSUME StepInv, NEW c \in Clients, Sends(toServer[c], "EOT"), pc[c] # "killed"
  PROVE  pc[c] = "end" /\ fd[c] \in Fds
<1>1. Dialogue(c, pc[c], toServer[c], toClient[c], fd[c], users[fd[c]], rk[c], chain[c])
  BY TalkAt
<1>2. \A tag, value : toServer[c] = <<Message(tag, value)>> => tag = "EOT"
  BY WhatIsSent
<1>3. toServer[c] # << >>
  BY DEF Sends
<1>4. pc[c] \notin {"start", "done"}
  BY <1>1, <1>3 DEF Dialogue
<1>5. pc[c] # "key"
  BY <1>1, <1>2, <1>3 DEF Dialogue, AtKey, Asks
<1>6. pc[c] # "iv"
  BY <1>1, <1>2, <1>3 DEF Dialogue, AtIv, Asks, IsAnswered
<1>7. pc[c] # "name"
  BY <1>1, <1>2, <1>3 DEF Dialogue, AtName, Asks, IsAnswered
<1>8. pc[c] # "data"
  BY <1>1, <1>2, <1>3 DEF Dialogue, AtData, Asks, IsAnswered
<1>9. pc[c] = "end"
  BY <1>4, <1>5, <1>6, <1>7, <1>8 DEF StepInv, Tables, PCs
<1> QED
  BY <1>1, <1>3, <1>9 DEF Dialogue, AtEnd

LEMMA KillReceives ==
  ASSUME StepInv, Values, Written, Received, NEW c \in Clients, Kill(c)
  PROVE  Received'
<1>1. /\ pc' = [pc EXCEPT ![c] = "killed"] /\ pc[c] # "killed"
      /\ sent' = [sent EXCEPT ![c] = 0] /\ data_' = [data_ EXCEPT ![c] = << >>]
      /\ UNCHANGED <<users, fd, toServer>>
  BY Zenon DEF Kill, serverVars
<1>2. DOMAIN pc = Clients /\ DOMAIN sent = Clients /\ DOMAIN data_ = Clients
  BY DEF StepInv, Tables, Values
<1>3. Reception(c, pc[c], toServer[c], fd[c], sent[c], data_[c], users[fd[c]])
  BY ReceptionOf
<1>4. Sends(toServer[c], "EOT") => pc[c] = "end" /\ fd[c] \in Fds
  BY <1>1, EndOnly
<1>5. pc'[c] = "killed" /\ sent'[c] = 0 /\ data_'[c] = << >>
  BY <1>1, <1>2
<1>6. fd[c] \in Fds => Reading(c, "killed", toServer[c], 0, << >>, users[fd[c]])
  BY <1>3, <1>4 DEF Reading, Reception
<1>7. Reception(c, "killed", toServer[c], fd[c], 0, << >>, users[fd[c]])
  BY <1>3, <1>6, Zenon DEF Reception
<1>8. Reception(c, pc'[c], toServer'[c], fd'[c], sent'[c], data_'[c], users'[fd'[c]])
  BY <1>1, <1>5, <1>7
<1>9. \A d \in Clients \ {c} :
           /\ pc'[d] = pc[d] /\ toServer'[d] = toServer[d] /\ fd'[d] = fd[d]
           /\ sent'[d] = sent[d] /\ data_'[d] = data_[d]
           /\ fd[d] \in Fds => users'[fd[d]] = users[fd[d]]
  BY <1>1, <1>2
<1> QED
  BY <1>8, <1>9, OthersReceive, Zenon

LEMMA EncryptReceives ==
  ASSUME StepInv, Values, Written, Received, NEW c \in Clients, CBC_encrypt(c)
  PROVE  Received'
<1> DEFINE n == sent[c]
           h == data_[c]
           x == binToHex(Cipher(c))
           u == users[fd[c]]
           g == h \o x
<1>1. /\ pc[c] = "data" /\ n + 1 \in 1..Blocks(c) /\ n \in Nat /\ Blocks(c) \in Nat
      /\ sent' = [sent EXCEPT ![c] = @ + 1] /\ data_' = [data_ EXCEPT ![c] = @ \o x]
      /\ toServer[c] = << >> /\ toClient[c] # << >>
      /\ UNCHANGED <<pc, users, fd>>
  BY EncryptIs
<1>2. PICK value : toServer' = [toServer EXCEPT ![c] = Append(@, Message("block", value))]
  <2>1. \E garbage \in Garbage :
          LET cut == IF sent[c] + 1 = Blocks(c) /\ ~isTxt(c)
                     THEN 4 * addPaddingResult(initializeData(c), garbage) ELSE 0
          IN toServer' = [toServer EXCEPT ![c] = Append(@, Message("block", CutInPlace(Cipher(c), cut)))]
    BY EncryptIs
  <2> QED
    BY <2>1, Zenon
<1>3. /\ DOMAIN sent = Clients /\ DOMAIN data_ = Clients /\ DOMAIN pc = Clients
  BY DEF Values, StepInv, Tables
<1>4. sent'[c] = n + 1 /\ data_'[c] = g
  BY <1>1, <1>3
<1>5. \A d \in Clients \ {c} : sent'[d] = sent[d] /\ data_'[d] = data_[d]
  BY <1>1, <1>3
<1>6. pc' = [pc EXCEPT ![c] = "data"]
  BY <1>1 DEF StepInv, Tables
<1>7. fd[c] \in Fds /\ u.iv = chain[c]
  BY <1>1, BetweenBlocks
<1>8. Writing(c, "data", n, h, chain[c], encrypted[c])
  BY <1>1, Zenon DEF Written
<1>9. Enciphered(c, n, h) /\ chain[c] = Chained(c, h, n + 1)
  <2>1. Intact(c, n)
    BY <1>1 DEF Intact
  <2>2. "data" # "killed"
    OBVIOUS
  <2> QED
    BY <1>8, <2>1, <2>2, Zenon DEF Writing
<1>10. Cipher(c) = feistel(XOR_binary(BinBlock(c, n + 1), Chained(c, h, n + 1)), Agreed(c))
  BY <1>9, Zenon DEF Cipher
<1>11. Chained(c, g, n + 1) = Chained(c, h, n + 1)
  <2>1. CASE n + 1 = 1
    BY <2>1, Zenon DEF Chained
  <2>2. CASE n + 1 # 1
    <3>1. n \in 1..n /\ (n + 1) - 1 = n
      BY <1>1, <2>2
    <3>2. h \in Digits(n * DigitsPerBlock)
      BY <1>9, Zenon DEF Enciphered
    <3>3. x \in Digits(DigitsPerBlock)
      BY <1>1, <1>10, CipherBits, Zenon
    <3> HIDE DEF x, h, n
    <3>4. BlockAt(h \o x, n) = BlockAt(h, n)
      BY <1>1, <3>1, <3>2, <3>3, OneMoreBlock, Zenon
    <3> QED
      BY <2>2, <3>1, <3>4, Zenon DEF Chained
  <2> QED
    BY <2>1, <2>2, Zenon
<1>12. Decoded(c, n, u.hex_data)
  <2>1. Reading(c, pc[c], toServer[c], sent[c], data_[c], users[fd[c]])
    BY <1>7, ReceptionOf DEF Reception
  <2> QED
    BY <1>1, <2>1, Zenon DEF Reading
<1> HIDE DEF n, h, x, u, g
<1>13. Reading(c, "data", <<Message("block", value)>>, n + 1, g, u)
  <2> DEFINE ts == <<Message("block", value)>>
             m == n + 1
  <2>1. ts # << >> /\ ~Sends(ts, "[file_size]") /\ ~Sends(ts, "EOT")
    BY WhatIsSent, OneMessage
  <2>2. m # 0 /\ m - 1 = n
    BY <1>1
  <2>3. u.iv = Chained(c, g, m)
    BY <1>7, <1>9, <1>11, Zenon
  <2> HIDE DEF ts, m
  <2>4. Decoded(c, m - 1, u.hex_data)
    BY <1>12, <2>2, Zenon
  <2>5. "data" # "end" /\ "data" # "killed"
    OBVIOUS
  <2>6. Reading(c, "data", ts, m, g, u)
    BY <2>1, <2>2, <2>3, <2>4, <2>5, Zenon DEF Reading
  <2> QED
    BY <2>6, Zenon DEF ts, m
<1>14. fd[c] \in Fds => Reading(c, "data", <<Message("block", value)>>, sent'[c], data_'[c], users[fd[c]])
  BY <1>4, <1>13, Zenon DEF u
<1>15. /\ "block" = "EOT" => fd[c] # NotAccepted
       /\ "block" = "[file_name]" => value = FileOf[c].name
  OBVIOUS
<1>16. UNCHANGED <<users, fd>>
  BY <1>1
<1> QED
  BY <1>1, <1>2, <1>5, <1>6, <1>14, <1>15, <1>16, Writes, Zenon

(* The server has the entry v for the client c. *)
LEMMA EntryReceives ==
  ASSUME StepInv, Received, NEW c \in Clients, fd[c] \in Fds, NEW v,
         UNCHANGED <<pc, sent, data_, fd>>,
         toServer' = [toServer EXCEPT ![c] = Tail(@)], toServer[c] # << >>,
         users' = [users EXCEPT ![fd[c]] = v],
         Knows(c, v), Reading(c, pc[c], << >>, sent[c], data_[c], v)
  PROVE  Received'
<1>1. /\ DOMAIN toServer = Clients /\ DOMAIN users = Fds
      /\ \A d \in Clients : fd[d] \in Fds /\ fd[d] = fd[c] => d = c
  BY DEF StepInv, Tables, Descriptors
<1>2. \E message : toServer[c] = <<message>>
  BY LittleIsLeft
<1>3. toServer'[c] = << >>
  BY <1>1, <1>2, OneMessage
<1>4. users'[fd'[c]] = v
  BY <1>1
<1>5. Reception(c, pc[c], << >>, fd[c], sent[c], data_[c], v)
  BY WhatIsSent, Zenon DEF Reception
<1>6. Reception(c, pc'[c], toServer'[c], fd'[c], sent'[c], data_'[c], users'[fd'[c]])
  BY <1>3, <1>4, <1>5
<1>7. \A d \in Clients \ {c} :
           /\ pc'[d] = pc[d] /\ toServer'[d] = toServer[d] /\ fd'[d] = fd[d]
           /\ sent'[d] = sent[d] /\ data_'[d] = data_[d]
           /\ fd[d] \in Fds => users'[fd[d]] = users[fd[d]]
  BY <1>1
<1> QED
  BY <1>6, <1>7, OthersReceive, Zenon

LEMMA ClosedReceives ==
  ASSUME StepInv, Received, NEW c \in Clients, fd' = [fd EXCEPT ![c] = Closed],
         UNCHANGED <<pc, sent, data_>>, toServer'[c] = << >>,
         \A d \in Clients \ {c} : toServer'[d] = toServer[d],
         \A d \in Clients \ {c} : fd[d] \in Fds => users'[fd[d]] = users[fd[d]]
  PROVE  Received'
<1>1. DOMAIN fd = Clients
  BY DEF StepInv, Tables
<1>2. fd'[c] = Closed
  BY <1>1
<1>3. fd'[c] \notin Fds /\ fd'[c] # NotAccepted /\ ~Sends(toServer'[c], "[file_name]")
  BY <1>2, FdsAreNumbers, WhatIsSent
<1>4. Reception(c, pc'[c], toServer'[c], fd'[c], sent'[c], data_'[c], users'[fd'[c]])
  BY <1>3, Zenon DEF Reception
<1>5. \A d \in Clients \ {c} :
           /\ pc'[d] = pc[d] /\ toServer'[d] = toServer[d] /\ fd'[d] = fd[d]
           /\ sent'[d] = sent[d] /\ data_'[d] = data_[d]
           /\ fd[d] \in Fds => users'[fd[d]] = users[fd[d]]
  BY <1>1
<1> QED
  BY <1>4, <1>5, OthersReceive, Zenon

(* A client that was killed wrote one message at most. *)
LEMMA KilledReads ==
  ASSUME NEW c, NEW n, NEW h, NEW u
  PROVE  Reading(c, "killed", << >>, n, h, u)
<1>1. ~Sends(<< >>, "EOT")
  BY WhatIsSent
<1> QED
  BY <1>1 DEF Reading

LEMMA ServeClosedReceives ==
  ASSUME StepInv, Received, NEW f \in OpenFds, ServeClosed(f)
  PROVE  Received'
<1> DEFINE c == ClientAt(f)
<1>1. c \in Clients
  BY ClientOfFd DEF StepInv
<1>2. /\ fd' = [fd EXCEPT ![c] = Closed] /\ UNCHANGED <<pc, sent, data_>>
      /\ UNCHANGED <<toServer, users>> /\ toServer[c] = << >>
  BY Zenon DEF ServeClosed, Close, clientVars, Readable
<1> HIDE DEF c
<1>3. /\ \A d \in Clients \ {c} : toServer'[d] = toServer[d]
      /\ toServer'[c] = << >>
      /\ \A d \in Clients \ {c} : fd[d] \in Fds => users'[fd[d]] = users[fd[d]]
  BY <1>2
<1> QED
  BY <1>1, <1>2, <1>3, ClosedReceives, Zenon

LEMMA DecryptFileReceives ==
  ASSUME StepInv, Received, NEW f \in OpenFds, create_decrypt_file(f)
  PROVE  Received'
<1> DEFINE c == ClientAt(f)
<1>1. c \in Clients /\ fd[c] = f /\ f \in Fds
  BY ClientOfFd DEF StepInv
<1>2. /\ fd' = [fd EXCEPT ![c] = Closed] /\ UNCHANGED <<pc, sent, data_>>
      /\ toServer' = [toServer EXCEPT ![c] = Tail(@)]
      /\ users' = [users EXCEPT ![f].EOC_flag = TRUE] /\ toServer[c] # << >>
  BY Zenon DEF create_decrypt_file, Close, Consume, clientVars, Readable
<1> HIDE DEF c
<1>3. /\ DOMAIN toServer = Clients /\ DOMAIN users = Fds
      /\ \A d \in Clients : fd[d] \in Fds /\ fd[d] = fd[c] => d = c
  BY <1>1 DEF StepInv, Tables, Descriptors
<1>5. toServer'[c] = << >>
  <2>1. \E message : toServer[c] = <<message>>
    BY <1>1, <1>2, LittleIsLeft
  <2> QED
    BY <1>1, <1>2, <1>3, <2>1, OneMessage
<1>4. /\ \A d \in Clients \ {c} : toServer'[d] = toServer[d]
      /\ \A d \in Clients \ {c} : fd[d] \in Fds => users'[fd[d]] = users[fd[d]]
  BY <1>1, <1>2, <1>3
<1> QED
  BY <1>1, <1>2, <1>4, <1>5, ClosedReceives, Zenon

LEMMA AcceptReceives ==
  ASSUME StepInv, Received, register_new_client
  PROVE  Received'
<1>1. PICK c \in Clients : c = Head(backlog) /\ fd[c] = NotAccepted /\ pc[c] # "start"
  <2>1. backlog \in Seq(Clients) /\ backlog # << >>
    BY DEF register_new_client, StepInv, Descriptors
  <2>2. Head(backlog) \in Clients /\ Head(backlog) = backlog[1] /\ 1 \in 1..Len(backlog)
    BY <2>1, HeadTailProperties, LenProperties, ElementOfSeq
  <2> QED
    BY <2>2 DEF StepInv, Descriptors
<1>2. PICK f \in Fds : f = Min(Fds \ OpenFds) /\ \A d \in Clients : fd[d] # f
  <2>1. Min(Fds \ OpenFds) \in Fds \ OpenFds
    BY <1>1, SomeFdIsFree DEF StepInv
  <2> QED
    BY <2>1 DEF OpenFds
<1> DEFINE u == [NewUser(FileOf[c].ip) EXCEPT !.server_key = ServerKeyOf[c]]
<1>3. /\ fd' = [fd EXCEPT ![c] = f] /\ users' = [users EXCEPT ![f] = u]
      /\ UNCHANGED <<pc, sent, data_, toServer>>
  BY <1>1, <1>2, Zenon DEF register_new_client, clientVars
<1>4. /\ u.ip = FileOf[c].ip /\ u.file_name_flag = FALSE /\ u.hex_data = << >>
  BY DEF NewUser
<1> HIDE DEF u
<1>5. Knows(c, u)
  BY <1>4 DEF Knows
<1>6. DOMAIN fd = Clients /\ DOMAIN users = Fds
  BY DEF StepInv, Tables
<1>7. fd'[c] = f /\ users'[f] = u
  BY <1>2, <1>3, <1>6
<1>8. /\ pc[c] \in {"key", "killed"} /\ ~Sends(toServer[c], "EOT")
  <2>1. Dialogue(c, pc[c], toServer[c], toClient[c], fd[c], users[fd[c]], rk[c], chain[c])
    BY <1>1, TalkAt
  <2>2. pc[c] \notin {"start", "iv", "name", "data", "end", "done"}
    BY <1>1, <2>1, FdsAreNumbers DEF Dialogue, AtIv, AtName, AtData, AtEnd
  <2>3. ~Sends(toServer[c], "EOT")
    BY <1>1, ReceptionOf DEF Reception
  <2> QED
    BY <2>2, <2>3 DEF StepInv, Tables, PCs
<1>9. Reading(c, pc[c], toServer[c], sent[c], data_[c], u)
  BY <1>8 DEF Reading
<1>10. Reception(c, pc[c], toServer[c], f, sent[c], data_[c], u)
  <2>1. Sends(toServer[c], "[file_name]") => Head(toServer[c]).value = FileOf[c].name
    BY <1>1, ReceptionOf, Zenon DEF Reception
  <2> QED
    BY <1>5, <1>8, <1>9, <2>1, Zenon DEF Reception
<1>11. Reception(c, pc'[c], toServer'[c], fd'[c], sent'[c], data_'[c], users'[fd'[c]])
  BY <1>3, <1>7, <1>10
<1>12. \A d \in Clients \ {c} :
           /\ pc'[d] = pc[d] /\ toServer'[d] = toServer[d] /\ fd'[d] = fd[d]
           /\ sent'[d] = sent[d] /\ data_'[d] = data_[d]
           /\ fd[d] \in Fds => users'[fd[d]] = users[fd[d]]
  BY <1>2, <1>3, <1>6
<1> QED
  BY <1>11, <1>12, OthersReceive, Zenon

LEMMA NameOfMessage ==
  ASSUME StepInv, Received, NEW c \in Clients, Sends(toServer[c], "[file_name]")
  PROVE  Head(toServer[c]).value = FileOf[c].name
<1> QED
  BY ReceptionOf DEF Reception

LEMMA ServeBlockReceives ==
  ASSUME StepInv, Values, Written, Received, NEW f \in OpenFds, ServeBlock(f)
  PROVE  Received'
<1> DEFINE c == ClientAt(f)
           u == users[f]
           in == Incoming(f)
           v == CBC_decrypt(u, in.value)
           n == sent[c]
           h == data_[c]
<1>1. c \in Clients /\ fd[c] = f /\ f \in Fds
  BY ClientOfFd DEF StepInv
<1>2. /\ toServer[c] # << >> /\ in = Head(toServer[c]) /\ in.tag # "EOT" /\ ExpectsText(u)
  BY DEF ServeBlock, Readable, Incoming
<1>3. users' = [users EXCEPT ![f] = v]
  BY Zenon DEF ServeBlock
<1>4. /\ UNCHANGED <<pc, sent, data_, fd>>
      /\ toServer' = [toServer EXCEPT ![c] = Tail(@)]
  BY Zenon DEF ServeBlock, clientVars, Consume
<1>5. DOMAIN u = Fields /\ u.hex_data \in HexText
  BY <1>1 DEF StepInv, Tables, Values
<1>6. Knows(c, u) /\ Reading(c, pc[c], toServer[c], n, h, u)
  BY <1>1, ReceptionOf DEF Reception
<1>7. /\ v.ip = u.ip /\ v.isTxt = u.isTxt /\ v.file_name = u.file_name
      /\ v.key_flag = u.key_flag /\ v.file_name_flag = u.file_name_flag
      /\ v.file_size_flag = u.file_size_flag
  <2> HIDE DEF u
  <2> QED
    BY <1>5 DEF CBC_decrypt, Fields
<1>8. u.key_flag /\ u.file_name_flag /\ u.file_size_flag
  BY <1>2 DEF ExpectsText
<1>9. u = users[fd[c]]
  BY <1>1
<1> HIDE DEF c, u, in, v, n, h
<1>10. Knows(c, v)
  BY <1>6, <1>7, <1>8 DEF Knows
<1>11. Reading(c, pc[c], << >>, n, h, v)
  <2>1. CASE pc[c] = "killed"
    BY <2>1, KilledReads
  <2>2. CASE pc[c] # "killed"
    <3>1. /\ pc[c] = "data" /\ toServer[c] = <<Message("block", chain[c])>>
          /\ Holds(u, rk[c], TRUE, TRUE)
      <4>1. ~Flags(u, FALSE, FALSE, FALSE) /\ ~Holds(u, rk[c], FALSE, FALSE) /\ ~Holds(u, rk[c], TRUE, FALSE)
        BY <1>8, Zenon DEF Holds, Flags
      <4>2. ~Asks(toServer[c], toClient[c], Message("EOT", 0))
        BY <1>2, OneMessage DEF Asks, Message
      <4> QED
        BY <1>1, <1>2, <2>2, <1>9, <4>1, <4>2, WhoAsks DEF Asks
    <3>2. in.value = chain[c] /\ Sends(toServer[c], "block")
      BY <1>2, <3>1, OneMessage, WhatIsSent DEF Message
    <3>3. n # 0 /\ u.iv = Chained(c, h, n) /\ Decoded(c, n - 1, u.hex_data)
      BY <1>6, <3>1, <3>2, Zenon DEF Reading
    <3>4. Writing(c, "data", n, h, chain[c], encrypted[c])
      BY <1>1, <3>1, Zenon DEF Written, n, h
    <3>5. n \in 0..Blocks(c) /\ Blocks(c) \in Nat
      <4>1. n \in 0..Blocks(c)
        BY <1>1 DEF Values, n
      <4>2. Blocks(c) \in Nat
        BY <1>1, PaddedIs, Zenon
      <4> QED
        BY <4>1, <4>2
    <3>6. rk[c] = Agreed(c)
      BY <1>1, <3>1 DEF Values, Keyed
    <3>7. u.rrk = Reverse(Agreed(c))
      BY <3>1, <3>6, Zenon DEF Holds
    <3> DEFINE m == n - 1
               bin == in.value
    <3>8. m \in Nat /\ m + 1 = n /\ m + 1 \in 1..Blocks(c)
      BY <3>3, <3>5
    <3>9. Enciphered(c, n, h) /\ (Intact(c, n) => chain[c] = Chained(c, h, n + 1))
      BY <3>4 DEF Writing
    <3>10. Chained(c, h, n + 1) = BlockAt(h, n)
      <4>1. n + 1 # 1 /\ (n + 1) - 1 = n
        BY <3>3, <3>5
      <4> QED
        BY <4>1, Zenon DEF Chained
    <3>11. u.isTxt = isTxt(c)
      BY <1>6, <1>8, Zenon DEF Knows
    <3>12. /\ Enciphered(c, m + 1, h) /\ (Intact(c, m + 1) => bin = BlockAt(h, m + 1))
           /\ u.iv = Chained(c, h, m + 1) /\ Decoded(c, m, u.hex_data)
      BY <3>2, <3>3, <3>8, <3>9, <3>10, Zenon
    <3> HIDE DEF m, bin
    <3>13. Decoded(c, m + 1, CBC_decrypt(u, bin).hex_data)
      BY <1>1, <1>5, <3>7, <3>8, <3>11, <3>12, BlockDecoded, Zenon
    <3>14. Decoded(c, n, v.hex_data)
      BY <3>8, <3>13, Zenon DEF v, bin
    <3>15. \A other : ~Sends(<< >>, other)
      BY WhatIsSent
    <3>16. "data" # "end" /\ "data" # "killed"
      OBVIOUS
    <3>17. Reading(c, "data", << >>, n, h, v)
      BY <3>14, <3>15, <3>16, Zenon DEF Reading
    <3> QED
      BY <3>1, <3>17
  <2> QED
    BY <2>1, <2>2
<1>12. fd[c] \in Fds
  BY <1>1
<1>13. users' = [users EXCEPT ![fd[c]] = v]
  BY <1>1, <1>3
<1> QED
  BY <1>1, <1>2, <1>4, <1>10, <1>11, <1>12, <1>13, EntryReceives, Zenon DEF n, h

LEMMA ServeKeyReceives ==
  ASSUME StepInv, Values, Written, Received, NEW f \in OpenFds, ServeKey(f)
  PROVE  Received'
<1> DEFINE c == ClientAt(f)
           u == users[f]
           n == sent[c]
           h == data_[c]
<1>1. c \in Clients /\ fd[c] = f /\ f \in Fds
  BY ClientOfFd DEF StepInv
<1>2. toServer[c] # << >> /\ ~u.key_flag
  BY DEF ServeKey, Readable
<1>3. PICK keys : users' = [users EXCEPT ![f].key_flag = TRUE, ![f].rrk = keys]
  BY Zenon DEF ServeKey
<1> DEFINE v == [u EXCEPT !.key_flag = TRUE, !.rrk = keys]
<1>4. /\ UNCHANGED <<pc, sent, data_, fd>>
      /\ toServer' = [toServer EXCEPT ![c] = Tail(@)]
  BY Zenon DEF ServeKey, clientVars, Consume
<1>5. DOMAIN u = Fields /\ DOMAIN users = Fds
  BY <1>1 DEF StepInv, Tables
<1>6. Knows(c, u)
  BY <1>1, ReceptionOf DEF Reception
<1>7. users' = [users EXCEPT ![f] = v]
  BY <1>1, <1>3, <1>5
<1>8. /\ v.ip = u.ip /\ v.isTxt = u.isTxt /\ v.file_name = u.file_name
      /\ v.file_name_flag = u.file_name_flag /\ v.hex_data = u.hex_data
  <2> HIDE DEF u
  <2> QED
    BY <1>5 DEF Fields
<1>9. u = users[fd[c]]
  BY <1>1
<1> HIDE DEF c, u, v, n, h
<1>10. Knows(c, v)
  BY <1>2, <1>6, <1>8 DEF Knows
<1>11. Reading(c, pc[c], << >>, n, h, v)
  <2>1. CASE pc[c] = "killed"
    BY <2>1, KilledReads
  <2>2. CASE pc[c] # "killed"
    <3>1. pc[c] = "key"
      <4>1. \A k, name, size : ~Holds(u, k, name, size)
        BY <1>2, Zenon DEF Holds, Flags
      <4> QED
        BY <1>1, <1>2, <1>9, <2>2, <4>1, WhoAsks
    <3> QED
      BY <3>1, NotReading
  <2> QED
    BY <2>1, <2>2
<1>12. fd[c] \in Fds
  BY <1>1
<1>13. users' = [users EXCEPT ![fd[c]] = v]
  BY <1>1, <1>7
<1> QED
  BY <1>1, <1>2, <1>4, <1>10, <1>11, <1>12, <1>13, EntryReceives, Zenon DEF n, h

LEMMA MarkedFlags ==
  ASSUME NEW u, NEW c, NEW in, in.tag \in {"[iv]", "[file_name]", "[file_size]"}, DOMAIN u = Fields
  PROVE  LET v == Marked(u, c, in) IN
         /\ v.key_flag = u.key_flag
         /\ in.tag # "[file_name]" => v.file_name_flag = u.file_name_flag
         /\ in.tag # "[file_size]" => v.file_size_flag = u.file_size_flag
<1>1. CASE in.tag = "[iv]"
  <2>1. Marked(u, c, in) = [u EXCEPT !.iv = in.value]
    BY <1>1 DEF Marked
  <2> QED
    BY <1>1, <2>1 DEF Fields
<1>2. CASE in.tag = "[file_name]"
  <2>1. Marked(u, c, in) = [u EXCEPT !.file_name = <<u.ip, in.value>>, !.isTxt = isTxt(c), !.file_name_flag = TRUE]
    BY <1>2 DEF Marked
  <2> QED
    BY <1>2, <2>1 DEF Fields
<1>3. CASE in.tag = "[file_size]"
  <2>1. Marked(u, c, in) = [u EXCEPT !.file_size_flag = TRUE]
    BY <1>3 DEF Marked
  <2> QED
    BY <1>3, <2>1 DEF Fields
<1> QED
  BY <1>1, <1>2, <1>3

LEMMA ServeMarkerReceives ==
  ASSUME StepInv, Values, Written, Received, NEW f \in OpenFds, ServeMarker(f)
  PROVE  Received'
<1> DEFINE c == ClientAt(f)
           u == users[f]
           in == Incoming(f)
           v == Marked(u, c, in)
           n == sent[c]
           h == data_[c]
<1>1. c \in Clients /\ fd[c] = f /\ f \in Fds
  BY ClientOfFd DEF StepInv
<1>2. /\ toServer[c] # << >> /\ in = Head(toServer[c])
      /\ u.key_flag /\ ~(u.file_name_flag /\ u.file_size_flag)
      /\ in.tag \in {"[iv]", "[file_name]", "[file_size]"}
  BY DEF ServeMarker, Readable, Incoming
<1>3. users' = [users EXCEPT ![f] = v]
  BY Zenon DEF ServeMarker, Marked
<1>4. /\ UNCHANGED <<pc, sent, data_, fd>>
      /\ toServer' = [toServer EXCEPT ![c] = Tail(@)]
  BY Zenon DEF ServeMarker, clientVars, Consume
<1>5. DOMAIN u = Fields
  BY <1>1 DEF StepInv, Tables
<1>6. Knows(c, u)
  BY <1>1, ReceptionOf DEF Reception
<1>7. u = users[fd[c]]
  BY <1>1
<1> HIDE DEF c, u, in
<1>8. /\ v.hex_data = u.hex_data /\ v.ip = u.ip
      /\ in.tag = "[iv]" => v.file_name = u.file_name /\ v.isTxt = u.isTxt
      /\ in.tag = "[file_name]" => v.file_name = <<u.ip, in.value>> /\ v.isTxt = isTxt(c)
      /\ in.tag = "[file_size]" => v.file_name = u.file_name /\ v.isTxt = u.isTxt
  <2>1. in.tag \in {"[iv]", "[file_name]", "[file_size]"} /\ DOMAIN u = Fields
    BY <1>2, <1>5
  <2> QED
    BY <2>1, MarkedIs
<1>9. /\ v.key_flag = u.key_flag
      /\ in.tag # "[file_name]" => v.file_name_flag = u.file_name_flag
      /\ in.tag # "[file_size]" => v.file_size_flag = u.file_size_flag
  <2>1. in.tag \in {"[iv]", "[file_name]", "[file_size]"} /\ DOMAIN u = Fields
    BY <1>2, <1>5
  <2> QED
    BY <2>1, MarkedFlags
<1> HIDE DEF v, n, h
<1>10. u.hex_data = << >>
  BY <1>2, <1>6 DEF Knows
<1>11. Knows(c, v)
  <2>1. v.ip = FileOf[c].ip /\ v.hex_data = << >>
    BY <1>6, <1>8, <1>10 DEF Knows
  <2>2. v.file_name_flag => v.file_name = FileName(c) /\ v.isTxt = isTxt(c)
    <3>1. CASE in.tag = "[file_name]"
      <4>1. in.value = FileOf[c].name
        <5>1. Sends(toServer[c], "[file_name]")
          BY <1>2, <3>1 DEF Sends
        <5> QED
          BY <1>1, <1>2, <5>1, NameOfMessage
      <4>2. u.ip = FileOf[c].ip
        BY <1>6 DEF Knows
      <4> QED
        BY <1>8, <3>1, <4>1, <4>2 DEF FileName
    <3>2. CASE in.tag # "[file_name]"
      <4>1. v.file_name_flag = u.file_name_flag /\ v.file_name = u.file_name /\ v.isTxt = u.isTxt
        BY <1>2, <1>8, <1>9, <3>2
      <4> QED
        BY <1>6, <4>1, Zenon DEF Knows
    <3> QED
      BY <3>1, <3>2
  <2> QED
    BY <2>1, <2>2, Zenon DEF Knows
<1>12. Reading(c, pc[c], << >>, n, h, v)
  <2>1. CASE pc[c] = "killed"
    BY <2>1, KilledReads
  <2>2. CASE pc[c] # "killed"
    <3>1. ~Flags(u, FALSE, FALSE, FALSE) /\ ~Holds(u, rk[c], TRUE, TRUE)
      BY <1>2, Zenon DEF Holds, Flags
    <3>2. \/ pc[c] \in {"iv", "name"}
          \/ pc[c] = "data" /\ toServer[c] = <<Message("[file_size]", calculate_file_size(c))>>
      BY <1>1, <1>2, <1>7, <2>2, <3>1, WhoAsks DEF Asks
    <3>3. CASE pc[c] \in {"iv", "name"}
      BY <3>3, NotReading
    <3>4. CASE pc[c] = "data" /\ toServer[c] = <<Message("[file_size]", calculate_file_size(c))>>
      <4>1. Sends(toServer[c], "[file_size]")
        BY <3>4, WhatIsSent
      <4>2. n = 0
        BY <1>1, <3>4, <4>1, ReceptionOf DEF Reception, Reading, n
      <4>3. Decoded(c, n, v.hex_data)
        <5>1. v.hex_data = << >>
          BY <1>8, <1>10
        <5> QED
          BY <1>1, <4>2, <5>1, NothingDecoded, Zenon
      <4>4. \A other : ~Sends(<< >>, other)
        BY WhatIsSent
      <4>5. "data" # "end" /\ "data" # "killed"
        OBVIOUS
      <4>6. Reading(c, "data", << >>, n, h, v)
        BY <4>3, <4>4, <4>5, Zenon DEF Reading
      <4> QED
        BY <3>4, <4>6
    <3> QED
      BY <3>2, <3>3, <3>4
  <2> QED
    BY <2>1, <2>2
<1>13. fd[c] \in Fds
  BY <1>1
<1>14. users' = [users EXCEPT ![fd[c]] = v]
  BY <1>1, <1>3
<1> QED
  BY <1>1, <1>2, <1>4, <1>11, <1>12, <1>13, <1>14, EntryReceives, Zenon DEF n, h

LEMMA ReceivedUnchanged ==
  ASSUME Received, UNCHANGED vars
  PROVE  Received'
<1>1. UNCHANGED <<pc, toServer, fd, sent, data_, users>>
  BY DEF vars, clientVars, serverVars
<1> QED
  BY <1>1 DEF Received

LEMMA ReceivedStays == StepInv /\ Values /\ Written /\ Received /\ [Next]_vars => Received'
<1> SUFFICES ASSUME StepInv, Values, Written, Received, [Next]_vars  PROVE Received'
  OBVIOUS
<1>1. CASE UNCHANGED vars
  BY <1>1, ReceivedUnchanged
<1>2. CASE register_new_client
  BY <1>2, AcceptReceives
<1>3. ASSUME NEW f \in OpenFds, serve_client(f)  PROVE Received'
  BY <1>3, ServeBlockReceives, DecryptFileReceives, ServeKeyReceives, ServeMarkerReceives,
     ServeClosedReceives DEF serve_client
<1>4. ASSUME NEW c \in Clients, ClientStep(c)  PROVE Received'
  BY <1>4, ConnectReceives, TakeKeyReceives, SendNameReceives, SendSizeReceives, EncryptReceives,
     EndTextReceives, LeaveReceives DEF ClientStep
<1>5. ASSUME NEW c \in Clients, Kill(c)  PROVE Received'
  BY <1>5, KillReceives
<1>6. CASE Idle
  BY <1>1, <1>6 DEF Idle
<1> QED
  BY <1>1, <1>2, <1>3, <1>4, <1>5, <1>6 DEF Next, Server

-----------------------------------------------------------------------------
(* The descriptor of a client whose text ended is closed, for good. *)
History ==
  /\ completed \in Seq(Clients)
  /\ \A i \in 1..Len(completed) : fd[completed[i]] = Closed

LEMMA ClosedStays ==
  ASSUME StepInv, History, UNCHANGED completed,
         \A d \in Clients : fd[d] = Closed => fd'[d] = Closed
  PROVE  History'
<1>1. completed' = completed
  OBVIOUS
<1>2. completed \in Seq(Clients)
  BY DEF History
<1>3. ASSUME NEW i \in 1..Len(completed) PROVE fd'[completed[i]] = Closed
  <2>1. completed[i] \in Clients
    BY <1>2, ElementOfSeq
  <2>2. fd[completed[i]] = Closed
    BY DEF History
  <2> QED
    BY <2>1, <2>2
<1> QED
  BY <1>1, <1>2, <1>3 DEF History

LEMMA InitHistory == Init => History
<1> SUFFICES ASSUME Init PROVE History
  OBVIOUS
<1>1. completed = << >>
  BY Zenon DEF Init
<1> QED
  BY <1>1 DEF History

LEMMA DecryptFileHistory ==
  ASSUME StepInv, History, NEW f \in OpenFds, create_decrypt_file(f)
  PROVE  History'
<1> DEFINE c == ClientAt(f)
<1>1. c \in Clients /\ fd[c] = f /\ f \in Fds
  BY ClientOfFd DEF StepInv
<1>2. fd' = [fd EXCEPT ![c] = Closed] /\ completed' = Append(completed, c)
  BY Zenon DEF create_decrypt_file, Close
<1> HIDE DEF c
<1>3. completed \in Seq(Clients) /\ DOMAIN fd = Clients
  BY DEF History, StepInv, Tables
<1>4. /\ completed' \in Seq(Clients) /\ Len(completed') = Len(completed) + 1 /\ Len(completed) \in Nat
      /\ \A i \in 1..Len(completed) : completed'[i] = completed[i]
      /\ completed'[Len(completed) + 1] = c
  BY <1>1, <1>2, <1>3
<1>5. ASSUME NEW i \in 1..Len(completed') PROVE fd'[completed'[i]] = Closed
  <2>1. CASE i = Len(completed) + 1
    BY <1>1, <1>2, <1>3, <1>4, <2>1
  <2>2. CASE i # Len(completed) + 1
    <3>1. i \in 1..Len(completed)
      BY <1>4, <2>2
    <3>2. completed[i] \in Clients /\ fd[completed[i]] = Closed /\ completed'[i] = completed[i]
      BY <1>3, <1>4, <3>1, ElementOfSeq DEF History
    <3> QED
      BY <1>1, <1>2, <1>3, <3>2
  <2> QED
    BY <2>1, <2>2
<1> QED
  BY <1>4, <1>5 DEF History

(* What is not the end of a text leaves the disk alone, and opens no       *)
(* descriptor of a client whose text ended.                                *)
LEMMA OnlyEndStores ==
  ASSUME StepInv, [Next]_vars, \A f \in OpenFds : ~create_decrypt_file(f)
  PROVE  /\ UNCHANGED <<disk, completed>>
         /\ \A d \in Clients : fd[d] = Closed => fd'[d] = Closed
<1> DEFINE Q == /\ UNCHANGED <<disk, completed>>
                /\ \A d \in Clients : fd[d] = Closed => fd'[d] = Closed
<1>1. CASE UNCHANGED vars
  BY <1>1 DEF vars, serverVars
<1>2. CASE register_new_client
  <2>1. PICK c \in Clients : c = Head(backlog) /\ fd[c] = NotAccepted
    <3>1. backlog \in Seq(Clients) /\ backlog # << >>
      BY <1>2 DEF register_new_client, StepInv, Descriptors
    <3>2. Head(backlog) \in Clients /\ Head(backlog) = backlog[1] /\ 1 \in 1..Len(backlog)
      BY <3>1, HeadTailProperties, LenProperties, ElementOfSeq
    <3> QED
      BY <3>2 DEF StepInv, Descriptors
  <2>2. (\E f : fd' = [fd EXCEPT ![c] = f]) /\ UNCHANGED <<disk, completed>>
    BY <1>2, <2>1, Zenon DEF register_new_client
  <2>3. DOMAIN fd = Clients
    BY DEF StepInv, Tables
  <2> QED
    BY <2>1, <2>2, <2>3, FdsAreNumbers
<1>3. ASSUME NEW f \in OpenFds, serve_client(f)  PROVE Q
  <2>1. CASE ServeClosed(f)
    <3>1. fd' = [fd EXCEPT ![ClientAt(f)] = Closed] /\ UNCHANGED <<disk, completed>>
      BY <2>1, Zenon DEF ServeClosed, Close
    <3>2. DOMAIN fd = Clients
      BY DEF StepInv, Tables
    <3> QED
      BY <3>1, <3>2
  <2>2. CASE ServeBlock(f)
    <3>1. UNCHANGED <<fd, disk, completed>>
      BY <2>2, Zenon DEF ServeBlock
    <3> QED
      BY <3>1
  <2>3. CASE ServeKey(f)
    <3>1. UNCHANGED <<fd, disk, completed>>
      BY <2>3, Zenon DEF ServeKey
    <3> QED
      BY <3>1
  <2>4. CASE ServeMarker(f)
    <3>1. UNCHANGED <<fd, disk, completed>>
      BY <2>4, Zenon DEF ServeMarker
    <3> QED
      BY <3>1
  <2>5. ~create_decrypt_file(f)
    BY <1>3
  <2> QED
    BY <1>3, <2>1, <2>2, <2>3, <2>4, <2>5, Zenon DEF serve_client
<1>4. ASSUME NEW c \in Clients, ClientStep(c) \/ Kill(c)  PROVE Q
  <2>1. UNCHANGED <<fd, disk, completed>>
    <3>1. CASE Connect(c)
      BY <3>1, Zenon DEF Connect
    <3>2. CASE TakeKey(c)
      BY <3>2, Zenon DEF TakeKey, serverVars
    <3>3. CASE SendName(c)
      BY <3>3, Zenon DEF SendName, serverVars
    <3>4. CASE SendSize(c)
      BY <3>4, Zenon DEF SendSize, serverVars
    <3>5. CASE CBC_encrypt(c)
      BY <3>5, Zenon DEF CBC_encrypt, serverVars
    <3>6. CASE EndText(c)
      BY <3>6, Zenon DEF EndText, serverVars
    <3>7. CASE Leave(c)
      BY <3>7, Zenon DEF Leave, serverVars
    <3>8. CASE Kill(c)
      BY <3>8, Zenon DEF Kill, serverVars
    <3> QED
      BY <1>4, <3>1, <3>2, <3>3, <3>4, <3>5, <3>6, <3>7, <3>8, Zenon DEF ClientStep
  <2> QED
    BY <2>1
<1>5. CASE Idle
  BY <1>1, <1>5 DEF Idle
<1> HIDE DEF Q
<1>6. Q
  BY <1>1, <1>2, <1>3, <1>4, <1>5 DEF Next, Server, Q
<1> QED
  BY <1>6 DEF Q

LEMMA HistoryStays == StepInv /\ History /\ [Next]_vars => History'
<1> SUFFICES ASSUME StepInv, History, [Next]_vars PROVE History'
  OBVIOUS
<1>1. CASE \E f \in OpenFds : create_decrypt_file(f)
  BY <1>1, DecryptFileHistory
<1>2. CASE \A f \in OpenFds : ~create_decrypt_file(f)
  <2>1. /\ UNCHANGED completed
        /\ \A d \in Clients : fd[d] = Closed => fd'[d] = Closed
    BY <1>2, OnlyEndStores
  <2> QED
    BY <2>1, ClosedStays, Zenon
<1> QED
  BY <1>1, <1>2

(* What the end of a text stores. *)
LEMMA EndStores ==
  ASSUME StepInv, Values, Written, Received, History, NEW f \in OpenFds, create_decrypt_file(f)
  PROVE  LET c == ClientAt(f)
             more == hexToASCII(users[f].hex_data)
         IN /\ c \in Clients /\ Acceptable(c, more) /\ more \in Seq(Byte)
            /\ FileName(c) \in Names /\ disk' = [disk EXCEPT ![FileName(c)] = @ \o more]
            /\ completed' = Append(completed, c)
            /\ \A i \in 1..Len(completed) : completed[i] # c
<1> DEFINE c == ClientAt(f)
           u == users[f]
           more == hexToASCII(u.hex_data)
<1>1. c \in Clients /\ fd[c] = f /\ f \in Fds
  BY ClientOfFd DEF StepInv
<1>2. /\ toServer[c] # << >> /\ ExpectsText(u) /\ Sends(toServer[c], "EOT")
      /\ disk' = [disk EXCEPT ![u.file_name] = @ \o more] /\ completed' = Append(completed, c)
  BY Zenon DEF create_decrypt_file, Readable, Incoming, Sends, appendToFile
<1>3. Knows(c, u) /\ Reading(c, pc[c], toServer[c], sent[c], data_[c], u)
  BY <1>1, ReceptionOf DEF Reception
<1>4. u.hex_data \in HexText
  BY <1>1 DEF Values
<1>5. pc[c] = "end" \/ pc[c] = "killed"
  BY <1>1, <1>2, EndOnly
<1> HIDE DEF c, u
<1>6. u.file_name = FileName(c)
  BY <1>2, <1>3 DEF Knows, ExpectsText
<1>7. Decoded(c, Blocks(c), u.hex_data)
  BY <1>2, <1>3, <1>5, Zenon DEF Reading
<1>8. Acceptable(c, more)
  BY <1>1, <1>4, <1>7, DecodedAcceptable, Zenon
<1>9. more \in Seq(Byte)
  BY <1>4, BytesOfText, Zenon
<1>10. FileName(c) \in Names
  BY <1>1 DEF FileName, Names
<1>11. ASSUME NEW i \in 1..Len(completed) PROVE completed[i] # c
  <2>1. fd[completed[i]] = Closed
    BY DEF History
  <2> QED
    BY <1>1, <2>1, FdsAreNumbers
<1> HIDE DEF more
<1> QED
  BY <1>1, <1>2, <1>6, <1>8, <1>9, <1>10, <1>11, Zenon DEF more, c, u

LEMMA Appended ==
  ASSUME NEW s \in Seq(Byte), NEW t \in Seq(Byte)
  PROVE  /\ Len(s) \in Nat /\ Len(s \o t) >= Len(s)
         /\ SubSeq(s \o t, 1, Len(s)) = s
         /\ SubSeq(s \o t, Len(s) + 1, Len(s \o t)) = t
<1> DEFINE m == Len(s)
           n == Len(t)
           j == s \o t
<1>1. /\ m \in Nat /\ n \in Nat /\ s \in Bytes(m) /\ t \in Bytes(n)
  BY SequenceIs, Zenon DEF Bytes
<1>2. /\ \A i \in 1..m : j[i] = s[i]
      /\ \A i \in 1..n : j[m + i] = t[i]
      /\ j \in Bytes(m + n)
  <2> HIDE DEF m, n
  <2> QED
    BY <1>1, BytesJoin, Zenon
<1>3. Len(j) = m + n
  BY JoinedLength, Zenon
<1> HIDE DEF m, n, j
<1>4. m <= m + n /\ m + n \in Nat
  BY <1>1
<1>5. SubSeq(j, 1, m) = s
  <2> DEFINE a == SubSeq(j, 1, m)
             l == m + n
  <2>0. j \in Bytes(l) /\ l \in Nat /\ m <= l
    BY <1>2, <1>4
  <2> HIDE DEF l
  <2>1. a \in Bytes(m) /\ \A q \in 1..m : a[q] = j[q]
    BY <1>1, <2>0, FirstBytes, Zenon
  <2> HIDE DEF a
  <2>2. \A q \in 1..m : a[q] = s[q]
    BY <1>2, <2>1
  <2>3. m \in Nat /\ a \in Bytes(m) /\ s \in Bytes(m)
    BY <1>1, <2>1, Zenon
  <2>4. a = s
    BY <2>2, <2>3, SameBytes, Zenon
  <2> QED
    BY <2>4, Zenon DEF a
<1>6. SubSeq(j, m + 1, m + n) = t
  <2> DEFINE a == SubSeq(j, m + 1, m + n)
             l == m + n
  <2>0. j \in Bytes(l) /\ l \in Nat /\ m + n <= l
    BY <1>2, <1>4
  <2> HIDE DEF l
  <2>1. a \in Bytes(n) /\ \A q \in 1..n : a[q] = j[m + q]
    BY <1>1, <2>0, BytePart, Zenon
  <2> HIDE DEF a
  <2>2. \A q \in 1..n : a[q] = t[q]
    BY <1>2, <2>1
  <2>3. n \in Nat /\ a \in Bytes(n) /\ t \in Bytes(n)
    BY <1>1, <2>1, Zenon
  <2>4. a = t
    BY <2>2, <2>3, SameBytes, Zenon
  <2> QED
    BY <2>4, Zenon DEF a
<1> QED
  BY <1>1, <1>3, <1>4, <1>5, <1>6 DEF m, n, j

LEMMA StoresOnce ==
  ASSUME StepInv, Values, Written, Received, History, NEW f \in OpenFds, create_decrypt_file(f)
  PROVE  Whole!Store(ClientAt(f)) /\ ClientAt(f) \in Clients
<1> DEFINE c == ClientAt(f)
           more == hexToASCII(users[f].hex_data)
           name == FileName(c)
           table == [d \in Clients |-> <<FileOf[d].ip, FileOf[d].name>>]
<1>1. /\ c \in Clients /\ Acceptable(c, more) /\ more \in Seq(Byte)
      /\ name \in Names /\ disk' = [disk EXCEPT ![name] = @ \o more]
      /\ completed' = Append(completed, c)
      /\ \A i \in 1..Len(completed) : completed[i] # c
  BY EndStores, Zenon
<1>2. table[c] = name
  BY <1>1 DEF FileName
<1>3. Whole!Names = Names
  BY DEF Whole!Names, Names
<1> HIDE DEF c, more, name
<1>4. disk \in [Names -> Seq(Byte)]
  BY DEF Values
<1>5. /\ DOMAIN disk' = Names /\ disk'[name] = disk[name] \o more /\ disk[name] \in Seq(Byte)
      /\ \A n \in Names \ {name} : disk'[n] = disk[n]
  BY <1>1, <1>4
<1> DEFINE before == disk[name]
           after  == disk'[name]
<1>6. /\ Len(before) \in Nat /\ Len(after) >= Len(before)
      /\ SubSeq(after, 1, Len(before)) = before
      /\ SubSeq(after, Len(before) + 1, Len(after)) = more
  BY <1>1, <1>5, Appended
<1>7. ~Whole!Finished(c)
  BY <1>1 DEF Whole!Finished
<1>8. Acceptable(c, SubSeq(after, Len(before) + 1, Len(after)))
  BY <1>1, <1>6
<1> HIDE DEF table
<1>9. Whole!Store(c)
  <2>1. disk[table[c]] = before /\ disk'[table[c]] = after
    BY <1>2
  <2> HIDE DEF before, after
  <2> QED
    BY <1>1, <1>2, <1>3, <1>5, <1>6, <1>7, <1>8, <2>1, Zenon DEF Whole!Store, table
<1> QED
  BY <1>1, <1>9 DEF c

(* The server implements the store of whole files: create_decrypt_file of  *)
(* ServerHelper.cpp appends what one client sent to the end, under the name*)
(* of that client and once for each, and nothing else changes the disk.    *)
THEOREM StoresWholeFiles == Spec => WholeFiles
<1> DEFINE All == StepInv /\ Values /\ Written /\ Received /\ History
<1>1. Init => All
  BY InitStepInv, InitValues, InitWritten, InitReceived, InitHistory, Zenon
<1>2. All /\ [Next]_vars => All'
  BY StepInvStays, ValuesStay, WrittenStays, ReceivedStays, HistoryStays, Zenon
<1>3. Init => Whole!Init
  <2>1. Whole!Names = Names
    BY DEF Whole!Names, Names
  <2> QED
    BY <2>1 DEF Init, Whole!Init
<1>4. All /\ [Next]_vars => [\E s \in Clients : Whole!Store(s)]_<<disk, completed>>
  <2> SUFFICES ASSUME All, [Next]_vars
               PROVE  [\E s \in Clients : Whole!Store(s)]_<<disk, completed>>
    OBVIOUS
  <2>1. CASE \E f \in OpenFds : create_decrypt_file(f)
    BY <2>1, StoresOnce
  <2>2. CASE \A f \in OpenFds : ~create_decrypt_file(f)
    BY <2>2, OnlyEndStores
  <2> QED
    BY <2>1, <2>2
<1> HIDE DEF All
<1> QED
  BY <1>1, <1>2, <1>3, <1>4, PTL DEF Spec, WholeFiles, Whole!Spec
=============================================================================
