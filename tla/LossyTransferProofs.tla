------------------------- MODULE LossyTransferProofs -------------------------
(***************************************************************************)
(* For every script, file, capacity and number of losses: the state of the *)
(* transfer is well typed, the proxy is stop-and-wait and takes for each   *)
(* packet the response to it, nobody counts more than the receiver has     *)
(* answered, the proxy does not cut off an open sender, the transfer       *)
(* implements OrderedDelivery, and no chunk of a file is given up without  *)
(* an unlucky draw.                                                        *)
(***************************************************************************)
EXTENDS LossyTransfer, SequenceTheorems, TLAPS

(* Answers taken and answers still in a stream are those that were written *)
(* to it; the greeting counts until it is read.                            *)
Answers ==
  /\ answered + Len(pToS) + (IF spc = "connect" THEN 0 ELSE 1)
       <= received_ack_count + (IF ppc \in {"connect", "accept"} THEN 0 ELSE 1)
  /\ spc = "connect" => answered = 0
  /\ rpc = "accept" => ack = 0
  /\ ppc = "connect" => received_ack_count + loss_ack_count = 0
  /\ ReceiverOpen =>
       received_ack_count + loss_ack_count + Len(rToP)
           + (IF ppc = "connect" THEN 0 ELSE 1)
         = ack + (IF rpc = "accept" THEN 0 ELSE 1)

Forwards ==
  /\ received_data_count <= received_ack_count + loss_ack_count + 1
  /\ ppc \in {"connect", "accept", "receive"} =>
       received_data_count = received_ack_count + loss_ack_count
  /\ ppc = "await" =>
       received_data_count = received_ack_count + loss_ack_count + 1

CountInv == TypeOK /\ Answers /\ Forwards /\ ForwardedOnce

(* The packets that can still be printed, from the oldest to the youngest, *)
(* carry non-decreasing numbers: what was printed last, what is on its way *)
(* to the receiver, what the proxy has not read, what the sender holds.    *)
Counts(p) == p.kind # "blank"

Pipeline(last, q, s, b, n) ==
  /\ last <= n
  /\ \A i \in 1..Len(q) :
       Counts(q[i]) /\ q[i].seq \in 1..n /\ last <= q[i].seq
  /\ \A i, j \in 1..Len(q) : i <= j => q[i].seq <= q[j].seq
  /\ \A j \in 1..Len(s) : Counts(s[j]) =>
       /\ s[j].seq \in 1..n
       /\ last <= s[j].seq
       /\ \A i \in 1..Len(q) : q[i].seq <= s[j].seq
  /\ \A i, j \in 1..Len(s) :
       i <= j /\ Counts(s[i]) /\ Counts(s[j]) => s[i].seq <= s[j].seq
  /\ Counts(b) => b.seq = n /\ n > 0

OrderInv ==
  /\ Pipeline(LastPrinted, pToR, sToP, buffer, taken)
  /\ spc \in {"connect", "input"} => ~Counts(buffer)

-----------------------------------------------------------------------------
(* What a read leaves of a stream is a stream, one unit shorter; what a    *)
(* write leaves is one unit longer.                                        *)
LEMMA ReadLemma ==
  ASSUME NEW s \in Seq(Unit), s # <<>>
  PROVE  /\ Tail(s) \in Seq(Unit)
         /\ Len(s) \in Nat /\ Len(Tail(s)) \in Nat
         /\ Len(Tail(s)) + 1 = Len(s)
<1>1. Len(s) \in Nat /\ Len(s) # 0
  BY LenProperties, EmptySeq
<1>2. Tail(s) \in Seq(Unit) /\ Len(Tail(s)) = Len(s) - 1
  BY HeadTailProperties
<1>. QED
  BY <1>1, <1>2

LEMMA WriteLemma ==
  ASSUME NEW s \in Seq(Unit), NEW u \in Unit
  PROVE  /\ Append(s, u) \in Seq(Unit)
         /\ Len(s) \in Nat
         /\ Len(Append(s, u)) = Len(s) + 1
BY AppendProperties, LenProperties

-----------------------------------------------------------------------------
(* The state of the transfer is well typed in every reachable state. *)
LEMMA InitTypeOK == Init => TypeOK
<1>. SUFFICES ASSUME Init  PROVE TypeOK
  OBVIOUS
<1>1. StreamsTypeOK
  BY EmptySeq DEF Init, StreamsInit, StreamsTypeOK
<1>2. SenderTypeOK
  <2>1. Empty \in Packet  BY DEF Empty, Packet, Kind
  <2>2. Len(File) \in Nat  BY SenderAssumption, LenProperties
  <2>. QED
    BY <2>1, <2>2, SenderAssumption, EmptySeq DEF Init, SenderInit, SenderTypeOK
<1>3. ProxyTypeOK
  <2>1. ppc \in {"connect", "accept", "receive", "await", "ended"}
    BY DEF Init, ProxyInit
  <2>2. forked \in BOOLEAN /\ broken \subseteq {"sender", "receiver"}
    BY DEF Init, ProxyInit
  <2>3. unlucky \in 0..MaxLoss
    BY ProxyAssumption DEF Init, ProxyInit
  <2>. QED  BY <2>1, <2>2, <2>3 DEF Init, ProxyInit, ProxyTypeOK
<1>4. ReceiverTypeOK
  BY EmptySeq DEF Init, ReceiverInit, ReceiverTypeOK
<1>. QED  BY <1>1, <1>2, <1>3, <1>4 DEF TypeOK

LEMMA SenderTypeStep == TypeOK /\ (UserNext \/ SenderNext) => TypeOK'
<1>. SUFFICES ASSUME TypeOK, UserNext \/ SenderNext  PROVE TypeOK'
  OBVIOUS
<1>. USE DEF TypeOK, StreamsTypeOK, SenderTypeOK
<1>. SUFFICES StreamsTypeOK' /\ SenderTypeOK'
  BY DEF UserNext, SenderNext, proxyVars, receiverVars, ProxyTypeOK, ReceiverTypeOK
<1>0. /\ Empty \in Packet
      /\ \A c \in 1..Len(File) : [seq |-> taken + 1, kind |-> File[c]] \in Packet
      /\ \A k \in Kind : [seq |-> taken + 1, kind |-> k] \in Packet
      /\ {"text", "exit"} \subseteq Kind
  BY SenderAssumption DEF Empty, Packet, Kind
<1>1. CASE UserNext
  BY <1>1 DEF UserNext, Type, streams
<1>2. CASE InputText
  BY <1>0, <1>2 DEF InputText, streams, Fd
<1>3. CASE InputStart
  BY <1>0, <1>3, SenderAssumption DEF InputStart, LoadChunk, streams, Fd
<1>4. CASE InputExit
  BY <1>0, <1>4 DEF InputExit, WriteToProxy, Fd
<1>5. CASE MainTimeout \/ MainReady \/ FileTimeout \/ FileReady
  BY <1>5 DEF MainTimeout, MainReady, FileTimeout, FileReady, Timeout, SelectReady,
              Ready, streams, Fd
<1>6. CASE Resend
  BY <1>6 DEF Resend, WriteToProxy, Fd
<1>7. CASE Read
  BY <1>0, <1>7, ReadLemma DEF Read, ReadAnswer, Fd
<1>11. CASE ReadGreeting
  BY <1>11, ReadLemma DEF ReadGreeting
<1>8. CASE FileWrite
  BY <1>8 DEF FileWrite, WriteToProxy, Fd
<1>10. CASE FileResend
  BY <1>10 DEF FileResend, WriteToProxy, Fd
<1>9. CASE FileRead
  <2>1. pToS' \in Seq(Unit)
    BY <1>9, ReadLemma DEF FileRead, ReadAnswer
  <2>2. answered' \in Nat
    BY <1>9 DEF FileRead, ReadAnswer
  <2>3. Len(File) \in Nat
    BY SenderAssumption, LenProperties
  <2>4. CASE chunk < Len(File)
    <3>1. /\ spc' = "fwrite" /\ chunk' = chunk + 1 /\ taken' = taken + 1
          /\ buffer' = [seq |-> taken + 1, kind |-> File[chunk + 1]]
      BY <1>9, <2>4 DEF FileRead, LoadChunk
    <3>2. chunk + 1 \in 1..Len(File)
      BY <2>3, <2>4
    <3>3. buffer' \in Packet
      BY <1>0, <3>1, <3>2
    <3>. QED  BY <1>9, <2>1, <2>2, <3>1, <3>2, <3>3 DEF FileRead
  <2>5. CASE ~(chunk < Len(File))
    <3>1. spc' = "select" /\ chunk' = 0 /\ buffer' = Empty /\ taken' = taken
      BY <1>9, <2>5 DEF FileRead
    <3>. QED  BY <1>0, <1>9, <2>1, <2>2, <2>3, <3>1 DEF FileRead
  <2>. QED  BY <2>4, <2>5
<1>. QED
  BY <1>1, <1>2, <1>3, <1>4, <1>5, <1>6, <1>7, <1>8, <1>9, <1>10, <1>11 DEF SenderNext, SenderStep

LEMMA ProxyTypeStep == TypeOK /\ ProxyNext => TypeOK'
<1>. SUFFICES ASSUME TypeOK, ProxyNext  PROVE TypeOK'
  OBVIOUS
<1>. USE DEF TypeOK, StreamsTypeOK, ProxyTypeOK
<1>. SUFFICES StreamsTypeOK' /\ ProxyTypeOK'
  BY DEF ProxyNext, senderVars, receiverVars, SenderTypeOK, ReceiverTypeOK
<1>0. /\ rToP # <<>> => Tail(rToP) \in Seq(Unit)
      /\ <<>> \in Seq(Unit)
      /\ Append(pToS, "answer") \in Seq(Unit)
      /\ Append(pToS, "greeting") \in Seq(Unit)
  BY ReadLemma, EmptySeq, AppendProperties DEF Unit
<1>. USE ProxyAssumption
<1>9. CASE ConnectReceiver
  BY <1>0, <1>9 DEF ConnectReceiver
<1>1. CASE ProxyAccept
  BY <1>0, <1>1 DEF ProxyAccept
<1>2. CASE IgnoreBlank
  BY <1>2 DEF IgnoreBlank, ReadPacket
<1>3. CASE DropData
  BY <1>3 DEF DropData, ReadPacket, Unlucky
<1>4. CASE ForwardData(ReceiverOpen)
  <2>1. /\ ppc' \in {"await", "ended"}
        /\ broken' \subseteq {"sender", "receiver"}
    BY <1>4 DEF ForwardData, WriteIsLost
  <2>2. /\ Head(sToP) \in Packet
        /\ sToP' \in Seq(Packet)
        /\ forked' \in BOOLEAN
    BY <1>4 DEF ForwardData, ReadPacket
  <2>3. pToR' \in Seq(Packet)
    <3>1. pToR' = pToR \/ pToR' = Append(pToR, Head(sToP))
      BY <1>4 DEF ForwardData
    <3>2. Append(pToR, Head(sToP)) \in Seq(Packet)
      BY <2>2, AppendProperties
    <3>3. pToR \in Seq(Packet)
      OBVIOUS
    <3>. QED  BY <3>1, <3>2, <3>3, Zenon
  <2>. QED  BY <1>4, <2>1, <2>2, <2>3 DEF ForwardData
<1>5. CASE DropAck(ReceiverOpen)
  BY <1>0, <1>5 DEF DropAck, ReadResponse, Unlucky
<1>6. CASE SkipEmptyAck(ReceiverOpen)
  BY <1>0, <1>6 DEF SkipEmptyAck, ReadResponse, Unlucky
<1>7. CASE ForwardAck(SenderOpen, ReceiverOpen)
  <2>1. /\ ppc' \in {"receive", "ended"}
        /\ broken' \subseteq {"sender", "receiver"}
    BY <1>7 DEF ForwardAck, WriteIsLost
  <2>2. rToP' \in Seq(Unit) /\ pToS' \in Seq(Unit)
    BY <1>0, <1>7 DEF ForwardAck, ReadResponse
  <2>. QED  BY <1>7, <2>1, <2>2 DEF ForwardAck
<1>8. CASE SenderGone(SenderOpen)
  BY <1>8 DEF SenderGone, streams
<1>. QED
  BY <1>1, <1>2, <1>3, <1>4, <1>5, <1>6, <1>7, <1>8, <1>9 DEF ProxyNext, ProxyStep

LEMMA ReceiverTypeStep == TypeOK /\ ReceiverNext => TypeOK'
<1>. SUFFICES ASSUME TypeOK, ReceiverNext  PROVE TypeOK'
  OBVIOUS
<1>. USE DEF TypeOK, StreamsTypeOK, ReceiverTypeOK
<1>. SUFFICES StreamsTypeOK' /\ ReceiverTypeOK'
  BY DEF ReceiverNext, senderVars, proxyVars, SenderTypeOK, ProxyTypeOK
<1>0. Append(rToP, "answer") \in Seq(Unit) /\ Append(rToP, "greeting") \in Seq(Unit)
  BY AppendProperties DEF Unit
<1>1. CASE ReceiverAccept
  BY <1>0, <1>1 DEF ReceiverAccept
<1>2. CASE ReceiveData
  BY <1>0, <1>2 DEF ReceiveData, ReadData
<1>3. CASE ReceiveExit
  BY <1>3 DEF ReceiveExit, ReadData
<1>4. CASE ReceiveEof(ProxyOpen)
  BY <1>4 DEF ReceiveEof, streams
<1>. QED
  BY <1>1, <1>2, <1>3, <1>4 DEF ReceiverNext, ReceiverStep

LEMMA TypeStep == TypeOK /\ [Next]_vars => TypeOK'
<1>1. TypeOK /\ UNCHANGED vars => TypeOK'
  BY DEF vars, streams, senderVars, proxyVars, receiverVars,
         TypeOK, StreamsTypeOK, SenderTypeOK, ProxyTypeOK, ReceiverTypeOK
<1>. QED
  BY <1>1, SenderTypeStep, ProxyTypeStep, ReceiverTypeStep DEF Next

(* Every reachable state of the transfer is well typed. *)
THEOREM TypeCorrect == Spec => []TypeOK
BY InitTypeOK, TypeStep, PTL DEF Spec

-----------------------------------------------------------------------------
(* Answers, packets and acknowledgements are accounted for.  The lemmas     *)
(* take CountInv apart by the program that moves.                           *)
LEMMA InitCount == Init => CountInv
<1>. SUFFICES ASSUME Init  PROVE CountInv
  OBVIOUS
<1>1. /\ answered = 0 /\ received_ack_count = 0 /\ received_data_count = 0
      /\ loss_ack_count = 0 /\ ack = 0
      /\ spc = "connect" /\ ppc = "connect" /\ rpc = "accept"
      /\ pToS = <<>> /\ rToP = <<>> /\ pToR = <<>> /\ output = <<>>
  BY DEF Init, StreamsInit, SenderInit, ProxyInit, ReceiverInit
<1>2. Len(<<>>) = 0
  BY EmptySeq
<1>. QED
  BY <1>1, <1>2, InitTypeOK DEF CountInv, Answers, Forwards, ForwardedOnce

(* What the counts range over. *)
LEMMA CountTypes ==
  ASSUME TypeOK
  PROVE  /\ answered \in Nat /\ ack \in Nat
         /\ received_data_count \in Nat /\ received_ack_count \in Nat
         /\ loss_ack_count \in Nat
         /\ Len(pToR) \in Nat /\ Len(output) \in Nat
         /\ Len(pToS) \in Nat /\ Len(rToP) \in Nat
         /\ pToS \in Seq(Unit) /\ rToP \in Seq(Unit)
BY LenProperties DEF TypeOK, StreamsTypeOK, SenderTypeOK, ProxyTypeOK, ReceiverTypeOK

(* The user and the sender: only a read changes what is counted. *)
LEMMA SenderCountStep ==
  ASSUME CountInv, UserNext \/ SenderNext
  PROVE  Answers' /\ Forwards' /\ ForwardedOnce'
<1>. USE DEF CountInv
<1>1. UNCHANGED <<proxyVars, receiverVars, pToR, rToP>>
  BY DEF UserNext, SenderNext, SenderStep, Type, ReadGreeting, InputText, InputStart, InputExit,
         MainTimeout, MainReady, FileTimeout, FileReady, Timeout, SelectReady,
         Resend, Read, FileWrite, FileResend, FileRead, WriteToProxy, ReadAnswer, streams
<1>2. \/ /\ UNCHANGED <<answered, pToS>> /\ (spc' = "connect" <=> spc = "connect")
      \/ ReadGreeting
      \/ ReadAnswer /\ spc # "connect" /\ spc' # "connect"
  <2>1. CASE UserNext
    BY <2>1 DEF UserNext, Type, streams
  <2>2. CASE SenderNext
    <3>1. CASE ReadGreeting \/ Read \/ FileRead
      BY <3>1 DEF Read, FileRead
    <3>2. CASE InputText \/ InputStart \/ InputExit
      BY <3>2 DEF InputText, InputStart, InputExit, WriteToProxy, streams
    <3>3. CASE MainTimeout \/ MainReady \/ FileTimeout \/ FileReady
      BY <3>3 DEF MainTimeout, MainReady, FileTimeout, FileReady, Timeout, SelectReady, streams
    <3>4. CASE Resend \/ FileWrite \/ FileResend
      BY <3>4 DEF Resend, FileWrite, FileResend, WriteToProxy
    <3>. QED
      BY <2>2, <3>1, <3>2, <3>3, <3>4 DEF SenderNext, SenderStep
  <2>. QED
    BY <2>1, <2>2
<1>t. CountTypes!2
  BY CountTypes
<1>3. /\ answered' + Len(pToS') + (IF spc' = "connect" THEN 0 ELSE 1)
           = answered + Len(pToS) + (IF spc = "connect" THEN 0 ELSE 1)
      /\ spc' = "connect" => answered' = 0
  <2>1. CASE UNCHANGED <<answered, pToS>> /\ (spc' = "connect" <=> spc = "connect")
    BY <2>1 DEF Answers
  <2>2. CASE ReadGreeting
    <3>1. /\ spc = "connect" /\ spc' = "input" /\ answered' = answered
          /\ Len(pToS') + 1 = Len(pToS) /\ Len(pToS') \in Nat
      BY <2>2, CountTypes, ReadLemma DEF ReadGreeting
    <3>. QED  BY <1>t, <3>1
  <2>3. CASE ReadAnswer /\ spc # "connect" /\ spc' # "connect"
    <3>1. /\ answered' = answered + 1
          /\ Len(pToS') + 1 = Len(pToS) /\ Len(pToS') \in Nat
      BY <2>3, CountTypes, ReadLemma DEF ReadAnswer
    <3>. QED  BY <1>t, <2>3, <3>1
  <2>. QED  BY <1>2, <2>1, <2>2, <2>3
<1>. QED
  BY <1>1, <1>3, CountTypes
     DEF Answers, Forwards, ForwardedOnce, ReceiverOpen, proxyVars, receiverVars

(* The proxy: a packet forwarded is one more to answer, a response read is  *)
(* one less in the stream and one more that was handled.                    *)
LEMMA ProxyCountStep ==
  ASSUME CountInv, ProxyNext
  PROVE  Answers' /\ Forwards' /\ ForwardedOnce'
<1>. USE DEF CountInv
<1>0. UNCHANGED <<answered, ack, output, rpc, spc>>
  BY DEF ProxyNext, senderVars, receiverVars
<1>t. CountTypes!2
  BY CountTypes
<1>9. CASE ConnectReceiver
  <2>1. /\ Len(rToP') + 1 = Len(rToP) /\ Len(rToP') \in Nat
    BY <1>9, <1>t, ReadLemma DEF ConnectReceiver
  <2>2. /\ ppc = "connect" /\ ppc' = "accept"
        /\ UNCHANGED <<received_data_count, received_ack_count, loss_ack_count, pToS, pToR>>
    BY <1>9 DEF ConnectReceiver
  <2>. QED
    BY <1>0, <1>t, <2>1, <2>2 DEF Answers, Forwards, ForwardedOnce, ReceiverOpen
<1>1. CASE ProxyAccept
  <2>1. /\ Len(pToS') = Len(pToS) + 1
    BY <1>1, <1>t, WriteLemma DEF ProxyAccept, Unit
  <2>2. /\ ppc = "accept" /\ ppc' = "receive"
        /\ UNCHANGED <<received_data_count, received_ack_count, loss_ack_count, rToP, pToR>>
    BY <1>1 DEF ProxyAccept
  <2>. QED
    BY <1>0, <1>t, <2>1, <2>2 DEF Answers, Forwards, ForwardedOnce, ReceiverOpen
<1>2. CASE IgnoreBlank \/ DropData \/ SenderGone(SenderOpen)
  <2>1. /\ UNCHANGED <<received_data_count, received_ack_count, loss_ack_count,
                       rToP, pToR, pToS>>
        /\ ppc \notin {"connect", "accept"}
        /\ ppc' \in {ppc, "ended"}
    BY <1>2 DEF IgnoreBlank, DropData, ReadPacket, SenderGone, streams
  <2>. QED
    BY <1>0, <1>t, <2>1 DEF Answers, Forwards, ForwardedOnce, ReceiverOpen
<1>3. CASE ForwardData(ReceiverOpen)
  <2>1. /\ UNCHANGED <<received_ack_count, loss_ack_count, rToP, pToS>>
        /\ received_data_count' = received_data_count + 1
        /\ ppc = "receive" /\ ppc' \in {"await", "ended"}
    BY <1>3 DEF ForwardData, ReadPacket, WriteIsLost
  <2>2. ReceiverOpen => Len(pToR') = Len(pToR) + 1
    <3>1. ReceiverOpen => pToR' = Append(pToR, Head(sToP)) /\ sToP # <<>>
      BY <1>3 DEF ForwardData, ReadPacket
    <3>2. sToP # <<>> => Head(sToP) \in Packet
      BY DEF TypeOK, StreamsTypeOK
    <3>3. sToP # <<>> => Len(Append(pToR, Head(sToP))) = Len(pToR) + 1
      BY <3>2, AppendProperties DEF TypeOK, StreamsTypeOK
    <3>. QED  BY <3>1, <3>3
  <2>3. ForwardedOnce'
    BY <1>0, <1>t, <2>1, <2>2 DEF ForwardedOnce, ReceiverOpen
  <2>4. Forwards'
    BY <1>t, <2>1 DEF Forwards
  <2>5. Answers'
    BY <1>0, <2>1 DEF Answers, ReceiverOpen
  <2>. QED
    BY <2>3, <2>4, <2>5
<1>r. ReadResponse(ReceiverOpen) /\ ReceiverOpen =>
        /\ Len(rToP') \in Nat
        /\ Len(rToP') + 1 = Len(rToP)
  BY <1>t, ReadLemma DEF ReadResponse
<1>4. CASE DropAck(ReceiverOpen)
  <2>1. /\ UNCHANGED <<received_data_count, received_ack_count, pToR, pToS>>
        /\ loss_ack_count' = loss_ack_count + 1
        /\ ppc = "await" /\ ppc' = "receive"
    BY <1>4 DEF DropAck, ReadResponse
  <2>2. ReadResponse(ReceiverOpen)
    BY <1>4 DEF DropAck
  <2>. QED
    BY <1>0, <1>t, <1>r, <2>1, <2>2 DEF Answers, Forwards, ForwardedOnce, ReceiverOpen
<1>5. CASE SkipEmptyAck(ReceiverOpen)
  <2>1. /\ UNCHANGED <<received_data_count, received_ack_count, loss_ack_count,
                       ppc, pToR, pToS>>
    BY <1>5 DEF SkipEmptyAck
  <2>2. ~ReceiverOpen
    BY <1>5 DEF SkipEmptyAck, ReadResponse, ResponseHasText
  <2>. QED
    BY <1>0, <2>1, <2>2 DEF Answers, Forwards, ForwardedOnce, ReceiverOpen
<1>6. CASE ForwardAck(SenderOpen, ReceiverOpen)
  <2>1. /\ UNCHANGED <<received_data_count, loss_ack_count, pToR>>
        /\ received_ack_count' = received_ack_count + 1
        /\ ppc = "await" /\ ppc' \in {"receive", "ended"}
    BY <1>6 DEF ForwardAck, ReadResponse, WriteIsLost
  <2>2. ReadResponse(ReceiverOpen)
    BY <1>6 DEF ForwardAck
  <2>3. Len(pToS') \in {Len(pToS), Len(pToS) + 1}
    <3>1. pToS' = Append(pToS, "answer") \/ pToS' = pToS
      BY <1>6 DEF ForwardAck
    <3>2. Len(Append(pToS, "answer")) = Len(pToS) + 1
      BY <1>t, WriteLemma DEF Unit
    <3>. QED  BY <3>1, <3>2
  <2>4. Answers'
    <3>1. ReceiverOpen' <=> ReceiverOpen
      BY <1>0 DEF ReceiverOpen
    <3>2. ReceiverOpen => received_ack_count' + loss_ack_count' + Len(rToP')
                            = received_ack_count + loss_ack_count + Len(rToP)
      BY <1>t, <1>r, <2>1, <2>2
    <3>3. answered' + Len(pToS') + (IF spc' = "connect" THEN 0 ELSE 1)
            <= received_ack_count' + 1
      BY <1>0, <1>t, <2>1, <2>3 DEF Answers
    <3>4. ppc' \notin {"connect", "accept"} /\ ppc # "connect"
      BY <2>1
    <3>. QED  BY <1>0, <3>1, <3>2, <3>3, <3>4 DEF Answers
  <2>. QED
    BY <1>0, <1>t, <2>1, <2>4 DEF Forwards, ForwardedOnce, ReceiverOpen
<1>. QED
  BY <1>1, <1>2, <1>3, <1>4, <1>5, <1>6, <1>9 DEF ProxyNext, ProxyStep

(* The receiver: what it prints it also counts and answers. *)
LEMMA ReceiverCountStep ==
  ASSUME CountInv, ReceiverNext
  PROVE  Answers' /\ Forwards' /\ ForwardedOnce'
<1>. USE DEF CountInv
<1>0. UNCHANGED <<answered, pToS, spc, ppc, received_data_count, received_ack_count, loss_ack_count>>
  BY DEF ReceiverNext, ReceiverStep, senderVars, proxyVars, ReceiverAccept, ReceiveData,
         ReceiveExit, ReceiveEof, streams
<1>t. CountTypes!2
  BY CountTypes
<1>1. CASE ReceiverAccept
  <2>1. /\ rpc = "accept" /\ rpc' = "receive" /\ UNCHANGED <<ack, output, pToR>>
    BY <1>1 DEF ReceiverAccept
  <2>2. Len(rToP') = Len(rToP) + 1
    BY <1>1, <1>t, WriteLemma DEF ReceiverAccept, Unit
  <2>. QED
    BY <1>0, <1>t, <2>1, <2>2 DEF Answers, Forwards, ForwardedOnce, ReceiverOpen
<1>2. CASE ReceiveData
  <2>1. /\ rpc = "receive" /\ rpc' = rpc /\ ack' = ack + 1
        /\ pToR # <<>> /\ pToR' = Tail(pToR) /\ output' = Append(output, Head(pToR))
        /\ rToP' = Append(rToP, "answer")
    BY <1>2 DEF ReceiveData, ReadData
  <2>2. Len(rToP') = Len(rToP) + 1
    BY <1>t, <2>1, WriteLemma DEF Unit
  <2>3. Len(pToR') = Len(pToR) - 1
    BY <2>1, HeadTailProperties DEF TypeOK, StreamsTypeOK
  <2>4. Len(output') = Len(output) + 1
    <3>1. Head(pToR) \in Packet
      BY <2>1 DEF TypeOK, StreamsTypeOK
    <3>2. Len(Append(output, Head(pToR))) = Len(output) + 1
      BY <3>1, AppendProperties DEF TypeOK, ReceiverTypeOK
    <3>. QED  BY <2>1, <3>2
  <2>5. ForwardedOnce'
    <3>1. Len(output) + Len(pToR) = received_data_count /\ Len(output) = ack
      BY <2>1 DEF ForwardedOnce, ReceiverOpen
    <3>2. /\ Len(output') + Len(pToR') = received_data_count
          /\ Len(output') = ack'
      <4>1. \A m, n, c \in Nat : m + n = c => (m + 1) + (n - 1) = c
        OBVIOUS
      <4>2. (Len(output) + 1) + (Len(pToR) - 1) = received_data_count
        BY <1>t, <3>1, <4>1, Zenon
      <4>3. ack' = ack + 1
        BY <2>1
      <4>. QED  BY <2>3, <2>4, <3>1, <4>2, <4>3, Zenon
    <3>. QED  BY <1>0, <3>2 DEF ForwardedOnce
  <2>6. Answers'
    BY <1>0, <1>t, <2>1, <2>2 DEF Answers, ReceiverOpen
  <2>. QED
    BY <1>0, <2>5, <2>6 DEF Forwards
<1>3. CASE ReceiveExit \/ ReceiveEof(ProxyOpen)
  <2>1. /\ ~ReceiverOpen' /\ rpc' # "accept"
    BY <1>3 DEF ReceiveExit, ReceiveEof, ReceiverOpen
  <2>. QED
    BY <1>0, <2>1 DEF Answers, Forwards, ForwardedOnce
<1>. QED
  BY <1>1, <1>2, <1>3 DEF ReceiverNext, ReceiverStep

LEMMA CountStep == CountInv /\ [Next]_vars => CountInv'
<1>. SUFFICES ASSUME CountInv, [Next]_vars  PROVE CountInv'
  OBVIOUS
<1>1. TypeOK'
  BY TypeStep DEF CountInv
<1>2. CASE UNCHANGED vars
  <2>. USE <1>2 DEF vars, streams, senderVars, proxyVars, receiverVars
  <2>1. Answers'
    BY DEF CountInv, Answers, ReceiverOpen
  <2>2. Forwards' /\ ForwardedOnce'
    BY DEF CountInv, Forwards, ForwardedOnce, ReceiverOpen
  <2>. QED
    BY <1>1, <2>1, <2>2 DEF CountInv
<1>3. CASE Next
  BY <1>1, <1>3, SenderCountStep, ProxyCountStep, ReceiverCountStep DEF Next, CountInv
<1>. QED
  BY <1>2, <1>3

LEMMA CountCorrect == Spec => []CountInv
BY InitCount, CountStep, PTL DEF Spec

(* The proxy never has more than one packet to answer. *)
THEOREM ProxyStopsAndWaits == Spec => []StopAndWait
<1>1. CountInv => StopAndWait
  BY DEF CountInv, Forwards, StopAndWait
<1>. QED
  BY <1>1, CountCorrect, PTL

(* What is forwarded to a running receiver is printed once, in a count that *)
(* the acknowledgement carries.                                             *)
THEOREM ForwardsOnce == Spec => []ForwardedOnce
<1>1. CountInv => ForwardedOnce
  BY DEF CountInv
<1>. QED
  BY <1>1, CountCorrect, PTL

(* The counts of a running receiver: its answers are those the proxy has    *)
(* handled and the one that may be under way.                               *)
LEMMA CountsAgree ==
  ASSUME CountInv, ReceiverOpen
  PROVE  /\ received_ack_count + loss_ack_count <= ack
         /\ ppc # "connect" => received_ack_count + loss_ack_count + Len(rToP) = ack
<1>1. CountTypes!2
  BY CountTypes DEF CountInv
<1>2. rpc = "accept" => ack = 0
  BY DEF CountInv, Answers
<1>3. CASE ppc = "connect"
  BY <1>1, <1>2, <1>3 DEF CountInv, Answers
<1>4. CASE ppc # "connect"
  BY <1>1, <1>2, <1>4 DEF CountInv, Answers
<1>. QED
  BY <1>3, <1>4

(* A running receiver answers the packet that was forwarded last, and none  *)
(* else is under way.                                                       *)
THEOREM ResponsesMatch == Spec => []ResponseMatches
<1>1. CountInv => ResponseMatches
  <2>. SUFFICES ASSUME CountInv, ReceiverOpen, ppc \in {"receive", "await"}
                PROVE  /\ ppc = "receive" => pToR = <<>> /\ rToP = <<>>
                       /\ ppc = "await" => Len(pToR) + Len(rToP) = 1
    BY DEF ResponseMatches
  <2>1. CountTypes!2
    BY CountTypes DEF CountInv
  <2>2. /\ received_ack_count + loss_ack_count + Len(rToP) = ack
        /\ ack + Len(pToR) = received_data_count
    BY CountsAgree DEF CountInv, ForwardedOnce
  <2>3. ppc = "await" => Len(pToR) + Len(rToP) = 1
    BY <2>1, <2>2 DEF CountInv, Forwards
  <2>4. ppc = "receive" => Len(pToR) = 0 /\ Len(rToP) = 0
    BY <2>1, <2>2 DEF CountInv, Forwards
  <2>5. pToR \in Seq(Packet) /\ rToP \in Seq(Unit)
    BY DEF CountInv, TypeOK, StreamsTypeOK
  <2>. QED
    BY <2>3, <2>4, <2>5, EmptySeq
<1>. QED
  BY <1>1, CountCorrect, PTL

(* The proxy is at most one packet ahead of what a running receiver has     *)
(* counted, and the sender has taken no more answers than that.             *)
THEOREM LeadIsBounded == Spec => []BoundedLead
<1>1. CountInv => BoundedLead
  <2>. SUFFICES ASSUME CountInv, ReceiverOpen
                PROVE  received_data_count <= ack + 1 /\ answered <= ack
    BY DEF BoundedLead
  <2>1. CountTypes!2
    BY CountTypes DEF CountInv
  <2>2. received_ack_count + loss_ack_count <= ack
    BY CountsAgree
  <2>3. answered <= received_ack_count
    <3>1. CASE spc = "connect"
      BY <2>1, <3>1 DEF CountInv, Answers
    <3>2. CASE spc # "connect"
      BY <2>1, <3>2 DEF CountInv, Answers
    <3>. QED  BY <3>1, <3>2
  <2>. QED
    BY <2>1, <2>2, <2>3 DEF CountInv, Forwards
<1>. QED
  BY <1>1, CountCorrect, PTL

(* The counters, the answers and the prints stay in step. *)
THEOREM StaysInLockStep == Spec => []LockStep
BY ProxyStopsAndWaits, ResponsesMatch, ForwardsOnce, LeadIsBounded, PTL DEF LockStep

-----------------------------------------------------------------------------
(* Why the sender is never cut off.  The proxy dies of a second write to a *)
(* peer that closed.  A closed sender is not cut off; a receiver that left *)
(* while the proxy still ran left because of a packet with "exit", and the *)
(* proxy forked when it read that packet.                                  *)
CutOffInv ==
  /\ \A i \in 1..Len(pToR) : pToR[i].kind = "exit" => forked
  /\ rpc = "closed" => forked \/ (ppc = "ended" /\ ~SenderOpen)
  /\ "receiver" \in broken => rpc = "closed"
  /\ "sender" \in broken => ~SenderOpen
  /\ SenderNeverCutOff

LEMMA InitCutOff == Init => CutOffInv
<1>1. Init => Len(pToR) = 0
  BY EmptySeq DEF Init, StreamsInit
<1>. QED
  BY <1>1 DEF Init, SenderInit, ProxyInit, ReceiverInit, CutOffInv, SenderOpen, SenderNeverCutOff

(* A closed sender stays closed, and leaves the other two alone. *)
LEMMA SenderCutOffStep ==
  ASSUME CutOffInv, UserNext \/ SenderNext
  PROVE  CutOffInv'
<1>1. UNCHANGED <<pToR, rpc, ppc, forked, broken>>
  BY DEF UserNext, SenderNext, SenderStep, Type, ReadGreeting, InputText, InputStart, InputExit,
         MainTimeout, MainReady, FileTimeout, FileReady, Timeout, SelectReady,
         Resend, Read, FileWrite, FileResend, FileRead, WriteToProxy, ReadAnswer,
         streams, proxyVars, receiverVars
<1>2. ~SenderOpen => ~SenderOpen'
  BY DEF UserNext, SenderNext, SenderStep, Type, ReadGreeting, InputText, InputStart, InputExit,
         MainTimeout, MainReady, FileTimeout, FileReady, Timeout, SelectReady,
         Resend, Read, FileWrite, FileResend, FileRead, SenderOpen
<1>. QED
  BY <1>1, <1>2 DEF CutOffInv, SenderNeverCutOff

(* What the proxy forwards it has read: it forked if there was "exit" in it. *)
LEMMA ProxyCutOffStep ==
  ASSUME TypeOK, CutOffInv, ProxyNext
  PROVE  CutOffInv'
<1>0. /\ UNCHANGED <<rpc, spc>>
      /\ SenderOpen' = SenderOpen
  BY DEF ProxyNext, senderVars, receiverVars, SenderOpen
<1>1. /\ ppc # "ended"
      /\ forked => forked'
  <2>1. ppc # "ended"
    BY DEF ProxyNext, ProxyStep, ConnectReceiver, ProxyAccept, IgnoreBlank, DropData, ForwardData, DropAck,
           SkipEmptyAck, ForwardAck, SenderGone, ReadPacket, ReadResponse
  <2>2. forked' = forked \/ ReadPacket
    BY DEF ProxyNext, ProxyStep, ConnectReceiver, ProxyAccept, IgnoreBlank, DropData, ForwardData, DropAck,
           SkipEmptyAck, ForwardAck, SenderGone
  <2>3. ReadPacket /\ forked => forked'
    BY Zenon DEF ReadPacket
  <2>. QED  BY <2>1, <2>2, <2>3
<1>2. rpc = "closed" => forked
  BY <1>1 DEF CutOffInv
<1>3. CASE UNCHANGED <<pToR, broken>> /\ (ppc' # "ended" \/ ~SenderOpen)
  BY <1>0, <1>1, <1>2, <1>3 DEF CutOffInv, SenderNeverCutOff
<1>4. CASE ForwardData(ReceiverOpen)
  <2>1. /\ sToP # <<>>
        /\ forked' = (forked \/ Head(sToP).kind = "exit")
    BY <1>4 DEF ForwardData, ReadPacket
  <2>2. CASE ReceiverOpen
    <3>1. /\ ppc' = "await" /\ pToR' = Append(pToR, Head(sToP)) /\ UNCHANGED broken
      BY <1>4, <2>2 DEF ForwardData
    <3>2. Head(sToP) \in Packet /\ pToR \in Seq(Packet)
      BY <2>1, HeadTailProperties DEF TypeOK, StreamsTypeOK
    <3>3. /\ Len(pToR') = Len(pToR) + 1 /\ Len(pToR) \in Nat
          /\ pToR'[Len(pToR) + 1] = Head(sToP)
          /\ \A i \in 1..Len(pToR) : pToR'[i] = pToR[i]
      BY <3>1, <3>2, AppendProperties, LenProperties
    <3>4. \A i \in 1..Len(pToR') : i \in 1..Len(pToR) \/ i = Len(pToR) + 1
      BY <3>3
    <3>5. \A i \in 1..Len(pToR') : pToR'[i].kind = "exit" => forked'
      BY <2>1, <3>3, <3>4 DEF CutOffInv
    <3>. QED
      BY <1>0, <1>1, <1>2, <3>1, <3>5 DEF CutOffInv, SenderNeverCutOff
  <2>3. CASE ~ReceiverOpen
    <3>1. /\ broken' = broken \cup {"receiver"} /\ UNCHANGED pToR
      BY <1>4, <2>3 DEF ForwardData, WriteIsLost
    <3>2. rpc = "closed"
      BY <2>3 DEF ReceiverOpen
    <3>. QED
      BY <1>0, <1>1, <1>2, <3>1, <3>2 DEF CutOffInv, SenderNeverCutOff
  <2>. QED  BY <2>2, <2>3
<1>5. CASE ForwardAck(SenderOpen, ReceiverOpen)
  <2>1. CASE SenderOpen
    BY <1>3, <1>5, <2>1 DEF ForwardAck
  <2>2. CASE ~SenderOpen
    <3>1. /\ broken' = broken \cup {"sender"} /\ UNCHANGED <<pToR, forked>>
      BY <1>5, <2>2 DEF ForwardAck, WriteIsLost
    <3>. QED
      BY <1>0, <1>2, <2>2, <3>1 DEF CutOffInv, SenderNeverCutOff
  <2>. QED  BY <2>1, <2>2
<1>6. CASE ConnectReceiver \/ ProxyAccept \/ IgnoreBlank \/ DropData \/ DropAck(ReceiverOpen)
             \/ SkipEmptyAck(ReceiverOpen) \/ SenderGone(SenderOpen)
  BY <1>1, <1>3, <1>6 DEF ConnectReceiver, ProxyAccept, IgnoreBlank, DropData, DropAck, SkipEmptyAck, SenderGone,
                          ReadPacket, ReadResponse, streams
<1>. QED
  BY <1>4, <1>5, <1>6 DEF ProxyNext, ProxyStep

(* The receiver leaves for an "exit" it reads, or after the proxy. *)
LEMMA ReceiverCutOffStep ==
  ASSUME TypeOK, CutOffInv, ReceiverNext
  PROVE  CutOffInv'
<1>0. /\ UNCHANGED <<ppc, forked, broken, spc>>
      /\ SenderOpen' = SenderOpen
  BY DEF ReceiverNext, senderVars, proxyVars, SenderOpen
<1>1. rpc # "closed"
  BY DEF ReceiverNext, ReceiverStep, ReceiverAccept, ReceiveData, ReceiveExit, ReceiveEof, ReadData
<1>2. pToR \in Seq(Packet)
  BY DEF TypeOK, StreamsTypeOK
<1>3. \A i \in 1..Len(pToR') : pToR'[i].kind = "exit" => forked
  <2>1. CASE UNCHANGED pToR
    BY <2>1 DEF CutOffInv
  <2>2. CASE pToR # <<>> /\ pToR' = Tail(pToR)
    <3>1. /\ Len(pToR') = Len(pToR) - 1 /\ Len(pToR) \in Nat
          /\ \A i \in 1..Len(pToR') : pToR'[i] = pToR[i + 1]
      BY <1>2, <2>2, HeadTailProperties, LenProperties
    <3>2. \A i \in 1..Len(pToR') : i + 1 \in 1..Len(pToR)
      BY <3>1
    <3>. QED  BY <3>1, <3>2 DEF CutOffInv
  <2>. QED
    BY <2>1, <2>2 DEF ReceiverNext, ReceiverStep, ReceiverAccept, ReceiveData, ReceiveExit,
                      ReceiveEof, ReadData, streams
<1>4. rpc' = "closed" => forked \/ (ppc = "ended" /\ ~SenderOpen)
  <2>1. CASE ReceiveExit
    <3>1. pToR # <<>> /\ Head(pToR).kind = "exit"
      BY <2>1 DEF ReceiveExit, ReadData
    <3>2. Head(pToR) = pToR[1] /\ 1 \in 1..Len(pToR)
      BY <1>2, <3>1, HeadTailProperties, EmptySeq, LenProperties
    <3>. QED  BY <3>1, <3>2 DEF CutOffInv
  <2>2. CASE ReceiveEof(ProxyOpen)
    BY <2>2 DEF ReceiveEof, ProxyOpen, CutOffInv, SenderNeverCutOff
  <2>3. CASE ReceiverAccept \/ ReceiveData
    BY <1>1, <2>3 DEF ReceiverAccept, ReceiveData
  <2>. QED
    BY <2>1, <2>2, <2>3 DEF ReceiverNext, ReceiverStep
<1>. QED
  BY <1>0, <1>1, <1>3, <1>4 DEF CutOffInv, SenderNeverCutOff

LEMMA CutOffStep == TypeOK /\ CutOffInv /\ [Next]_vars => CutOffInv'
<1>1. CutOffInv /\ UNCHANGED vars => CutOffInv'
  BY DEF vars, streams, senderVars, proxyVars, receiverVars, CutOffInv, SenderNeverCutOff, SenderOpen
<1>. QED
  BY <1>1, SenderCutOffStep, ProxyCutOffStep, ReceiverCutOffStep DEF Next

(* The proxy never takes its end of an open sender's connection down with   *)
(* it: when it ends before the sender did, it has forked, and the process   *)
(* that shows the plots keeps the socket open.                              *)
THEOREM NeverCutOff == Spec => []SenderNeverCutOff
<1>1. CutOffInv => SenderNeverCutOff
  BY DEF CutOffInv
<1>. QED
  BY <1>1, InitTypeOK, TypeStep, InitCutOff, CutOffStep, PTL DEF Spec

-----------------------------------------------------------------------------
(* What keeps a pipeline ordered, whatever its contents: taking a packet,   *)
(* clearing the buffer, writing it, and moving a packet one stage on.       *)
LEMMA PipelineTake ==
  ASSUME NEW last \in Nat, NEW q \in Seq(Packet), NEW s \in Seq(Packet),
         NEW b \in Packet, NEW n \in Nat, NEW k \in Kind, Pipeline(last, q, s, b, n)
  PROVE  Pipeline(last, q, s, [seq |-> n + 1, kind |-> k], n + 1)
<1>1. \A m \in Int : m \in 1..n => m \in 1..(n + 1)
  OBVIOUS
<1>2. last <= n + 1 /\ n + 1 > 0
  BY DEF Pipeline
<1>. QED
  BY <1>1, <1>2 DEF Pipeline

LEMMA PipelineClear ==
  ASSUME NEW last, NEW q, NEW s, NEW b, NEW n, NEW c,
         Pipeline(last, q, s, b, n), ~Counts(c)
  PROVE  Pipeline(last, q, s, c, n)
BY DEF Pipeline

LEMMA PipelineWrite ==
  ASSUME NEW last \in Nat, NEW q \in Seq(Packet), NEW s \in Seq(Packet),
         NEW b \in Packet, NEW n \in Nat, Pipeline(last, q, s, b, n)
  PROVE  Pipeline(last, q, Append(s, b), b, n)
<1>. DEFINE t == Append(s, b)
<1>1. /\ Len(t) = Len(s) + 1 /\ Len(s) \in Nat
      /\ t[Len(s) + 1] = b
      /\ \A j \in 1..Len(s) : t[j] = s[j]
  BY AppendProperties, LenProperties
<1>2. \A j \in 1..Len(t) : j \in 1..Len(s) \/ j = Len(s) + 1
  BY <1>1
<1>3. \A i \in 1..Len(q) : q[i].seq \in 1..n
  BY DEF Pipeline
<1>4. Counts(b) => b.seq = n /\ n > 0 /\ n \in 1..n /\ last <= n
  BY DEF Pipeline
<1>5. \A j \in 1..Len(t) : Counts(t[j]) =>
        /\ t[j].seq \in 1..n
        /\ last <= t[j].seq
        /\ \A i \in 1..Len(q) : q[i].seq <= t[j].seq
  <2>. SUFFICES ASSUME NEW j \in 1..Len(t), Counts(t[j])
                PROVE  /\ t[j].seq \in 1..n
                       /\ last <= t[j].seq
                       /\ \A i \in 1..Len(q) : q[i].seq <= t[j].seq
    OBVIOUS
  <2>1. CASE j \in 1..Len(s)
    BY <1>1, <2>1 DEF Pipeline
  <2>2. CASE j = Len(s) + 1
    <3>1. t[j] = b  BY <1>1, <2>2
    <3>2. \A i \in 1..Len(q) : q[i].seq <= n  BY <1>3
    <3>. QED  BY <1>4, <3>1, <3>2
  <2>. QED  BY <1>2, <2>1, <2>2
<1>6. \A i, j \in 1..Len(t) :
        i <= j /\ Counts(t[i]) /\ Counts(t[j]) => t[i].seq <= t[j].seq
  <2>. SUFFICES ASSUME NEW i \in 1..Len(t), NEW j \in 1..Len(t),
                       i <= j, Counts(t[i]), Counts(t[j])
                PROVE  t[i].seq <= t[j].seq
    OBVIOUS
  <2>1. CASE j \in 1..Len(s)
    <3>1. i \in 1..Len(s)  BY <1>1, <2>1
    <3>. QED  BY <1>1, <2>1, <3>1 DEF Pipeline
  <2>2. CASE j = Len(s) + 1
    <3>1. t[j].seq = n  BY <1>1, <1>4, <2>2
    <3>2. t[i].seq \in 1..n  BY <1>5
    <3>. QED  BY <3>1, <3>2
  <2>. QED  BY <1>2, <2>1, <2>2
<1>. HIDE DEF t
<1>. QED
  BY <1>5, <1>6 DEF Pipeline, t

LEMMA PipelineDrop ==
  ASSUME NEW last \in Nat, NEW q \in Seq(Packet), NEW s \in Seq(Packet),
         NEW b \in Packet, NEW n \in Nat, Pipeline(last, q, s, b, n), s # <<>>
  PROVE  Pipeline(last, q, Tail(s), b, n)
<1>1. /\ Len(Tail(s)) = Len(s) - 1 /\ Len(s) \in Nat
      /\ \A j \in 1..Len(Tail(s)) : Tail(s)[j] = s[j + 1]
  BY HeadTailProperties, LenProperties
<1>2. \A j \in 1..Len(Tail(s)) : j + 1 \in 1..Len(s)
  BY <1>1
<1>3. \A j \in 1..Len(Tail(s)) : Counts(Tail(s)[j]) =>
        /\ Tail(s)[j].seq \in 1..n
        /\ last <= Tail(s)[j].seq
        /\ \A i \in 1..Len(q) : q[i].seq <= Tail(s)[j].seq
  BY <1>1, <1>2 DEF Pipeline
<1>4. \A i, j \in 1..Len(Tail(s)) :
        i <= j /\ Counts(Tail(s)[i]) /\ Counts(Tail(s)[j])
          => Tail(s)[i].seq <= Tail(s)[j].seq
  <2>1. \A i, j \in 1..Len(Tail(s)) : i <= j => i + 1 <= j + 1
    BY <1>1
  <2>. QED  BY <1>1, <1>2, <2>1 DEF Pipeline
<1>. QED
  BY <1>3, <1>4 DEF Pipeline

LEMMA PipelineForward ==
  ASSUME NEW last \in Nat, NEW q \in Seq(Packet), NEW s \in Seq(Packet),
         NEW b \in Packet, NEW n \in Nat, Pipeline(last, q, s, b, n),
         s # <<>>, Counts(Head(s))
  PROVE  Pipeline(last, Append(q, Head(s)), Tail(s), b, n)
<1>. DEFINE t == Append(q, Head(s))
<1>1. /\ Head(s) \in Packet /\ Head(s) = s[1] /\ 1 \in 1..Len(s)
      /\ Len(Tail(s)) = Len(s) - 1 /\ Len(s) \in Nat
      /\ \A j \in 1..Len(Tail(s)) : Tail(s)[j] = s[j + 1]
  BY HeadTailProperties, LenProperties, EmptySeq
<1>2. /\ Len(t) = Len(q) + 1 /\ Len(q) \in Nat
      /\ t[Len(q) + 1] = Head(s)
      /\ \A i \in 1..Len(q) : t[i] = q[i]
  BY <1>1, AppendProperties, LenProperties
<1>3. \A i \in 1..Len(t) : i \in 1..Len(q) \/ i = Len(q) + 1
  BY <1>2
<1>4. /\ Head(s).seq \in 1..n /\ last <= Head(s).seq
      /\ \A i \in 1..Len(q) : q[i].seq <= Head(s).seq
  BY <1>1 DEF Pipeline
<1>5. \A i \in 1..Len(t) : Counts(t[i]) /\ t[i].seq \in 1..n /\ last <= t[i].seq
  BY <1>2, <1>3, <1>4 DEF Pipeline
<1>6. \A i \in 1..Len(t) : t[i].seq <= Head(s).seq
  BY <1>2, <1>3, <1>4
<1>7. \A i, j \in 1..Len(t) : i <= j => t[i].seq <= t[j].seq
  <2>. SUFFICES ASSUME NEW i \in 1..Len(t), NEW j \in 1..Len(t), i <= j
                PROVE  t[i].seq <= t[j].seq
    OBVIOUS
  <2>1. CASE j \in 1..Len(q)
    <3>1. i \in 1..Len(q)  BY <1>2, <2>1
    <3>. QED  BY <1>2, <2>1, <3>1 DEF Pipeline
  <2>2. CASE j = Len(q) + 1
    BY <1>2, <1>6, <2>2
  <2>. QED  BY <1>3, <2>1, <2>2
<1>8. Pipeline(last, q, Tail(s), b, n)
  BY PipelineDrop
<1>9. \A j \in 1..Len(Tail(s)) : Counts(Tail(s)[j]) =>
        \A i \in 1..Len(t) : t[i].seq <= Tail(s)[j].seq
  <2>. SUFFICES ASSUME NEW j \in 1..Len(Tail(s)), Counts(Tail(s)[j]),
                       NEW i \in 1..Len(t)
                PROVE  t[i].seq <= Tail(s)[j].seq
    OBVIOUS
  <2>1. /\ j + 1 \in 1..Len(s) /\ 1 <= j + 1 /\ Tail(s)[j] = s[j + 1]
    BY <1>1
  <2>2. Head(s).seq <= Tail(s)[j].seq
    BY <1>1, <2>1 DEF Pipeline
  <2>3. Tail(s)[j].seq \in 1..n
    BY <1>8 DEF Pipeline
  <2>. QED  BY <1>4, <1>5, <1>6, <2>2, <2>3
<1>. HIDE DEF t
<1>. QED
  BY <1>5, <1>7, <1>8, <1>9 DEF Pipeline, t

LEMMA PipelinePrint ==
  ASSUME NEW last \in Nat, NEW q \in Seq(Packet), NEW s \in Seq(Packet),
         NEW b \in Packet, NEW n \in Nat, Pipeline(last, q, s, b, n), q # <<>>
  PROVE  /\ Head(q).seq \in 1..n
         /\ last <= Head(q).seq
         /\ Pipeline(Head(q).seq, Tail(q), s, b, n)
<1>1. /\ Head(q) = q[1] /\ 1 \in 1..Len(q)
      /\ Len(Tail(q)) = Len(q) - 1 /\ Len(q) \in Nat
      /\ \A i \in 1..Len(Tail(q)) : Tail(q)[i] = q[i + 1]
  BY HeadTailProperties, LenProperties, EmptySeq
<1>2. Head(q).seq \in 1..n /\ last <= Head(q).seq
  BY <1>1 DEF Pipeline
<1>3. \A i \in 1..Len(Tail(q)) : i + 1 \in 1..Len(q) /\ 1 <= i + 1
  BY <1>1
<1>4. \A i \in 1..Len(Tail(q)) :
        Counts(Tail(q)[i]) /\ Tail(q)[i].seq \in 1..n /\ Head(q).seq <= Tail(q)[i].seq
  BY <1>1, <1>3 DEF Pipeline
<1>5. \A i, j \in 1..Len(Tail(q)) : i <= j => Tail(q)[i].seq <= Tail(q)[j].seq
  <2>1. \A i, j \in 1..Len(Tail(q)) : i <= j => i + 1 <= j + 1
    BY <1>1
  <2>. QED  BY <1>1, <1>3, <2>1 DEF Pipeline
<1>6. \A j \in 1..Len(s) : Counts(s[j]) =>
        /\ s[j].seq \in 1..n
        /\ Head(q).seq <= s[j].seq
        /\ \A i \in 1..Len(Tail(q)) : Tail(q)[i].seq <= s[j].seq
  BY <1>1, <1>3 DEF Pipeline
<1>7. Head(q).seq <= n
  BY <1>2
<1>. QED
  BY <1>2, <1>4, <1>5, <1>6, <1>7 DEF Pipeline

-----------------------------------------------------------------------------
(* Every step keeps the order and is a step of OrderedDelivery, or none.    *)
OrderStep == /\ OrderInv'
             /\ [Ordered!Next]_<<taken, LastPrinted, Len(output)>>

LEMMA PrintedType ==
  ASSUME TypeOK
  PROVE  LastPrinted \in Nat
<1>1. CASE output = <<>>
  BY <1>1 DEF LastPrinted
<1>2. CASE output # <<>>
  <2>1. Len(output) \in 1..Len(output)
    BY <1>2, EmptySeq DEF TypeOK, ReceiverTypeOK
  <2>2. output[Len(output)] \in Packet
    BY <2>1, LenProperties DEF TypeOK, ReceiverTypeOK
  <2>. QED  BY <1>2, <2>2 DEF LastPrinted, Packet
<1>. QED  BY <1>1, <1>2

LEMMA InitOrder == Init => OrderInv /\ Ordered!Init
<1>. SUFFICES ASSUME Init  PROVE OrderInv /\ Ordered!Init
  OBVIOUS
<1>1. /\ pToR = <<>> /\ sToP = <<>> /\ output = <<>> /\ taken = 0
      /\ ~Counts(buffer)
  BY DEF Init, StreamsInit, SenderInit, ReceiverInit, Counts, Empty
<1>2. LastPrinted = 0 /\ Len(output) = 0
  BY <1>1, EmptySeq DEF LastPrinted
<1>3. Len(pToR) = 0 /\ Len(sToP) = 0
  BY <1>1, EmptySeq
<1>. QED
  BY <1>1, <1>2, <1>3 DEF OrderInv, Pipeline, Ordered!Init

(* The user and the sender: packets are submitted, written or given up. *)
LEMMA SenderOrderStep ==
  ASSUME TypeOK, OrderInv, UserNext \/ SenderNext
  PROVE  OrderStep
<1>0. /\ UNCHANGED <<output, pToR>>
      /\ LastPrinted' = LastPrinted
  BY DEF UserNext, SenderNext, SenderStep, Type, ReadGreeting, InputText, InputStart, InputExit,
         MainTimeout, MainReady, FileTimeout, FileReady, Timeout, SelectReady,
         Resend, Read, FileWrite, FileResend, FileRead, WriteToProxy, ReadAnswer,
         streams, receiverVars, LastPrinted
<1>t. /\ LastPrinted \in Nat /\ pToR \in Seq(Packet) /\ sToP \in Seq(Packet)
      /\ buffer \in Packet /\ taken \in Nat
  BY PrintedType DEF TypeOK, StreamsTypeOK, SenderTypeOK
<1>p. Pipeline(LastPrinted, pToR, sToP, buffer, taken)
  BY DEF OrderInv
<1>e. ~Counts(Empty)
  BY DEF Counts, Empty
<1>f. \A c \in 1..Len(File) : File[c] \in Kind
  BY SenderAssumption
<1>k. "text" \in Kind /\ "exit" \in Kind
  BY DEF Kind
<1>1. CASE \E k \in Kind : /\ taken' = taken + 1
                           /\ buffer' = [seq |-> taken + 1, kind |-> k]
                           /\ UNCHANGED sToP
                           /\ spc' \notin {"connect", "input"}
  <2>1. Pipeline(LastPrinted, pToR, sToP, buffer', taken')
    BY <1>1, <1>t, <1>p, PipelineTake
  <2>. QED
    BY <1>0, <1>1, <2>1 DEF OrderStep, OrderInv, Ordered!Next, Ordered!Submit
<1>2. CASE buffer' = Empty /\ UNCHANGED <<sToP, taken>>
  <2>1. Pipeline(LastPrinted, pToR, sToP, Empty, taken)
    BY <1>p, <1>e, PipelineClear
  <2>. QED
    BY <1>0, <1>2, <1>e, <2>1 DEF OrderStep, OrderInv
<1>3. CASE UNCHANGED <<buffer, sToP, taken>> /\ spc' \notin {"connect", "input"}
  BY <1>0, <1>3 DEF OrderStep, OrderInv
<1>4. CASE /\ sToP' = Append(sToP, buffer) /\ UNCHANGED <<buffer, taken>>
           /\ spc' \in {"connect", "input"} => ~Counts(buffer)
  <2>1. Pipeline(LastPrinted, pToR, Append(sToP, buffer), buffer, taken)
    BY <1>t, <1>p, PipelineWrite
  <2>. QED
    BY <1>0, <1>4, <2>1 DEF OrderStep, OrderInv
<1>5. CASE InputExit
  <2>. DEFINE e == [seq |-> taken + 1, kind |-> "exit"]
  <2>1. /\ sToP' = Append(sToP, e) /\ taken' = taken + 1
        /\ UNCHANGED buffer /\ ~Counts(buffer) /\ spc' \notin {"connect", "input"}
    BY <1>5 DEF InputExit, WriteToProxy, OrderInv
  <2>2. Pipeline(LastPrinted, pToR, sToP, e, taken + 1)
    BY <1>t, <1>p, <1>k, PipelineTake
  <2>3. e \in Packet /\ taken + 1 \in Nat
    BY <1>t, <1>k DEF Packet
  <2>4. Pipeline(LastPrinted, pToR, Append(sToP, e), e, taken + 1)
    BY <1>t, <2>2, <2>3, PipelineWrite
  <2>5. Pipeline(LastPrinted, pToR, Append(sToP, e), buffer, taken + 1)
    BY <2>1, <2>4, PipelineClear
  <2>. QED
    BY <1>0, <2>1, <2>5 DEF OrderStep, OrderInv, Ordered!Next, Ordered!Submit
<1>6. CASE UserNext
  <2>1. UNCHANGED <<buffer, sToP, taken, spc>>
    BY <1>6 DEF UserNext, Type, streams
  <2>. QED
    BY <1>0, <2>1 DEF OrderStep, OrderInv
<1>7. CASE SenderNext
  <2>1. CASE InputText
    BY <1>1, <1>k, <2>1 DEF InputText, streams
  <2>2. CASE InputStart
    <3>1. CASE Len(File) = 0
      BY <1>3, <2>2, <3>1 DEF InputStart, streams
    <3>2. CASE Len(File) # 0
      <4>1. 1 \in 1..Len(File)
        BY <3>2, SenderAssumption, LenProperties
      <4>. QED  BY <1>1, <1>f, <2>2, <3>2, <4>1 DEF InputStart, LoadChunk, streams
    <3>. QED  BY <3>1, <3>2
  <2>3. CASE InputExit
    BY <1>5, <2>3
  <2>4. CASE MainTimeout \/ MainReady \/ FileTimeout \/ FileReady
    BY <1>3, <2>4 DEF MainTimeout, MainReady, FileTimeout, FileReady, Timeout, SelectReady, streams
  <2>5. CASE Resend
    BY <1>4, <2>5 DEF Resend, WriteToProxy, Counts
  <2>6. CASE Read
    BY <1>2, <2>6 DEF Read
  <2>9. CASE ReadGreeting
    <3>1. UNCHANGED <<buffer, sToP, taken>> /\ spc' = "input" /\ spc = "connect"
      BY <2>9 DEF ReadGreeting
    <3>. QED
      BY <1>0, <3>1 DEF OrderStep, OrderInv
  <2>7. CASE FileWrite \/ FileResend
    BY <1>4, <2>7 DEF FileWrite, FileResend, WriteToProxy
  <2>8. CASE FileRead
    <3>1. CASE chunk < Len(File)
      <4>1. chunk + 1 \in 1..Len(File)
        BY <3>1, SenderAssumption, LenProperties DEF TypeOK, SenderTypeOK
      <4>. QED  BY <1>1, <1>f, <2>8, <3>1, <4>1 DEF FileRead, LoadChunk
    <3>2. CASE ~(chunk < Len(File))
      BY <1>2, <2>8, <3>2 DEF FileRead
    <3>. QED  BY <3>1, <3>2
  <2>. QED
    BY <1>7, <2>1, <2>2, <2>3, <2>4, <2>5, <2>6, <2>7, <2>8, <2>9 DEF SenderNext, SenderStep
<1>. QED
  BY <1>6, <1>7

(* The proxy: the oldest packet of the sender is dropped or moves on. *)
LEMMA ProxyOrderStep ==
  ASSUME TypeOK, OrderInv, ProxyNext
  PROVE  OrderStep
<1>0. /\ UNCHANGED <<output, buffer, taken, spc>>
      /\ LastPrinted' = LastPrinted
  BY DEF ProxyNext, senderVars, receiverVars, LastPrinted
<1>t. /\ LastPrinted \in Nat /\ pToR \in Seq(Packet) /\ sToP \in Seq(Packet)
      /\ buffer \in Packet /\ taken \in Nat
  BY PrintedType DEF TypeOK, StreamsTypeOK, SenderTypeOK
<1>1. CASE UNCHANGED <<sToP, pToR>>
  BY <1>0, <1>1 DEF OrderStep, OrderInv
<1>2. CASE sToP # <<>> /\ sToP' = Tail(sToP) /\ UNCHANGED pToR
  <2>1. Pipeline(LastPrinted, pToR, Tail(sToP), buffer, taken)
    BY <1>t, <1>2, PipelineDrop DEF OrderInv
  <2>. QED
    BY <1>0, <1>2, <2>1 DEF OrderStep, OrderInv
<1>3. CASE /\ sToP # <<>> /\ sToP' = Tail(sToP)
           /\ pToR' = Append(pToR, Head(sToP)) /\ Counts(Head(sToP))
  <2>1. Pipeline(LastPrinted, Append(pToR, Head(sToP)), Tail(sToP), buffer, taken)
    BY <1>t, <1>3, PipelineForward DEF OrderInv
  <2>. QED
    BY <1>0, <1>3, <2>1 DEF OrderStep, OrderInv
<1>4. CASE ConnectReceiver \/ ProxyAccept \/ DropAck(ReceiverOpen) \/ SkipEmptyAck(ReceiverOpen)
             \/ ForwardAck(SenderOpen, ReceiverOpen) \/ SenderGone(SenderOpen)
  BY <1>1, <1>4 DEF ConnectReceiver, ProxyAccept, DropAck, SkipEmptyAck, ForwardAck, SenderGone, streams
<1>5. CASE IgnoreBlank \/ DropData
  BY <1>2, <1>5 DEF IgnoreBlank, DropData, ReadPacket
<1>6. CASE ForwardData(ReceiverOpen)
  BY <1>2, <1>3, <1>6 DEF ForwardData, ReadPacket, Counts
<1>. QED
  BY <1>4, <1>5, <1>6 DEF ProxyNext, ProxyStep

(* The receiver: what it prints is the oldest packet forwarded, submitted   *)
(* once and no older than the last.                                         *)
LEMMA ReceiverOrderStep ==
  ASSUME TypeOK, OrderInv, ReceiverNext
  PROVE  OrderStep
<1>0. UNCHANGED <<sToP, buffer, taken, spc>>
  BY DEF ReceiverNext, ReceiverStep, senderVars, ReceiverAccept, ReceiveData, ReceiveExit,
         ReceiveEof, streams
<1>t. /\ LastPrinted \in Nat /\ pToR \in Seq(Packet) /\ sToP \in Seq(Packet)
      /\ buffer \in Packet /\ taken \in Nat /\ output \in Seq(Packet)
  BY PrintedType DEF TypeOK, StreamsTypeOK, SenderTypeOK, ReceiverTypeOK
<1>1. CASE ReadData
  <2>1. /\ pToR # <<>> /\ pToR' = Tail(pToR) /\ output' = Append(output, Head(pToR))
    BY <1>1 DEF ReadData
  <2>2. /\ Head(pToR).seq \in 1..taken
        /\ LastPrinted <= Head(pToR).seq
        /\ Pipeline(Head(pToR).seq, Tail(pToR), sToP, buffer, taken)
    BY <1>t, <2>1, PipelinePrint DEF OrderInv
  <2>3. Head(pToR) \in Packet
    BY <1>t, <2>1, HeadTailProperties
  <2>4. /\ output' # <<>> /\ Len(output') = Len(output) + 1
        /\ output'[Len(output) + 1] = Head(pToR)
    BY <1>t, <2>1, <2>3, AppendProperties
  <2>5. LastPrinted' = Head(pToR).seq
    BY <2>4 DEF LastPrinted
  <2>6. LastPrinted' >= LastPrinted
    BY <1>t, <2>2, <2>5
  <2>7. Ordered!Deliver
    BY <1>0, <2>2, <2>4, <2>5, <2>6 DEF Ordered!Deliver
  <2>8. OrderInv'
    BY <1>0, <2>1, <2>2, <2>5 DEF OrderInv
  <2>. QED
    BY <2>7, <2>8 DEF OrderStep, Ordered!Next
<1>2. CASE UNCHANGED <<pToR, output>>
  <2>1. LastPrinted' = LastPrinted
    BY <1>2 DEF LastPrinted
  <2>. QED  BY <1>0, <1>2, <2>1 DEF OrderStep, OrderInv
<1>. QED
  BY <1>1, <1>2 DEF ReceiverNext, ReceiverStep, ReceiverAccept, ReceiveData, ReceiveExit,
                    ReceiveEof, streams

LEMMA OrderCorrect == TypeOK /\ OrderInv /\ [Next]_vars => OrderStep
<1>. SUFFICES ASSUME TypeOK, OrderInv, [Next]_vars  PROVE OrderStep
  OBVIOUS
<1>1. CASE UNCHANGED vars
  BY <1>1 DEF vars, streams, senderVars, proxyVars, receiverVars, OrderStep, OrderInv, LastPrinted
<1>2. CASE Next
  BY <1>2, SenderOrderStep, ProxyOrderStep, ReceiverOrderStep DEF Next
<1>. QED
  BY <1>1, <1>2

(* The sender, the proxy and the receiver implement OrderedDelivery: what   *)
(* is printed was submitted, and never before something older.              *)
THEOREM ImplementsOrderedDelivery == Spec => OrderedDelivery
<1>1. Spec => [](TypeOK /\ OrderInv)
  BY InitTypeOK, TypeStep, InitOrder, OrderCorrect, PTL DEF Spec, OrderStep
<1>2. Spec => [][Ordered!Next]_<<taken, LastPrinted, Len(output)>>
  BY <1>1, OrderCorrect, PTL DEF Spec, OrderStep
<1>. QED
  BY <1>2, InitOrder, PTL DEF Spec, OrderedDelivery, Ordered!Spec

-----------------------------------------------------------------------------
(* The user only sends files, and no chunk of a file is blank: a line that *)
(* is typed may be given up before it is written, when main takes a late   *)
(* answer to a copy for its answer, and the proxy ignores a blank chunk.   *)
FilesOnly ==
  /\ \A i \in 1..Len(Script) : Script[i] # "text"
  /\ \A i \in 1..Len(File) : File[i] # "blank"

Delivered == SeqsOf(output) \cup SeqsOf(pToR) \cup SeqsOf(sToP)
NoText(s) == \A i \in 1..Len(s) : s[i] # "text"

(* Every packet taken is printed or on its way, but for the one that       *)
(* send_file is about to write; and what main writes is blank.             *)
HandedOn ==
  /\ NoText(script) /\ NoText(typed)
  /\ spc \in {"connect", "input", "select", "resend", "read"} => buffer = Empty
  /\ \A i \in 1..Len(sToP) : Counts(sToP[i]) \/ sToP[i].seq = 0
  /\ Counts(buffer) \/ buffer = Empty
  /\ spc \in {"fwrite", "fselect", "fresend"} => buffer.seq = taken
  /\ ReceiverOpen /\ unlucky = 0 =>
       \A n \in 1..taken : n \in Delivered \/ (spc = "fwrite" /\ n = taken)

LEMMA SeqsAppend ==
  ASSUME NEW s \in Seq(Packet), NEW p \in Packet
  PROVE  SeqsOf(Append(s, p)) = SeqsOf(s) \cup {p.seq}
<1>1. /\ Len(s) \in Nat /\ Len(Append(s, p)) = Len(s) + 1
      /\ \A i \in 1..Len(s) : Append(s, p)[i] = s[i]
      /\ Append(s, p)[Len(s) + 1] = p
  BY AppendProperties, LenProperties
<1>2. 1..(Len(s) + 1) = 1..Len(s) \cup {Len(s) + 1}
  BY <1>1
<1> DEFINE t == Append(s, p)
<1> HIDE DEF t
<1>3. {t[i].seq : i \in 1..(Len(s) + 1)} = {s[i].seq : i \in 1..Len(s)} \cup {p.seq}
  BY <1>1, <1>2 DEF t
<1>. QED
  BY <1>1, <1>3 DEF SeqsOf, t

LEMMA SeqsTail ==
  ASSUME NEW s \in Seq(Packet), s # << >>
  PROVE  SeqsOf(s) = SeqsOf(Tail(s)) \cup {Head(s).seq}
<1>1. /\ Len(s) \in Nat /\ Len(s) # 0 /\ Len(Tail(s)) = Len(s) - 1
      /\ Head(s) = s[1]
      /\ \A i \in 1..(Len(s) - 1) : Tail(s)[i] = s[i + 1]
  BY HeadTailProperties, LenProperties, EmptySeq
<1> DEFINE m == Len(s)
           t == Tail(s)
<1> HIDE DEF m, t
<1>2. \A x : x \in {s[i].seq : i \in 1..m} => x \in {t[i].seq : i \in 1..(m - 1)} \cup {s[1].seq}
  <2> SUFFICES ASSUME NEW i \in 1..m, i # 1
               PROVE  s[i].seq \in {t[j].seq : j \in 1..(m - 1)}
    BY <1>1 DEF m
  <2>1. i - 1 \in 1..(m - 1) /\ t[i - 1] = s[i]
    BY <1>1 DEF m, t
  <2>. QED
    BY <2>1
<1>3. \A x : x \in {t[i].seq : i \in 1..(m - 1)} \cup {s[1].seq} => x \in {s[i].seq : i \in 1..m}
  <2>1. 1 \in 1..m
    BY <1>1 DEF m
  <2>2. ASSUME NEW i \in 1..(m - 1) PROVE t[i].seq \in {s[j].seq : j \in 1..m}
    <3>1. i + 1 \in 1..m /\ t[i] = s[i + 1]
      BY <1>1 DEF m, t
    <3>. QED
      BY <3>1
  <2>. QED
    BY <2>1, <2>2
<1>. QED
  BY <1>1, <1>2, <1>3 DEF SeqsOf, m, t

LEMMA NoTextTail ==
  ASSUME NEW S, NEW s \in Seq(S), s # << >>, NoText(s)
  PROVE  Head(s) # "text" /\ NoText(Tail(s))
<1>1. /\ Len(s) \in Nat /\ Len(s) # 0 /\ Len(Tail(s)) = Len(s) - 1
      /\ Head(s) = s[1]
      /\ \A i \in 1..(Len(s) - 1) : Tail(s)[i] = s[i + 1]
  BY HeadTailProperties, LenProperties, EmptySeq
<1>2. ASSUME NEW i \in 1..Len(Tail(s)) PROVE Tail(s)[i] # "text"
  <2>1. i \in 1..(Len(s) - 1) /\ i + 1 \in 1..Len(s)
    BY <1>1
  <2>. QED
    BY <1>1, <2>1 DEF NoText
<1>3. 1 \in 1..Len(s)
  BY <1>1
<1>. QED
  BY <1>1, <1>2, <1>3 DEF NoText

LEMMA NoTextAppend ==
  ASSUME NEW S, NEW s \in Seq(S), NEW x \in S, NoText(s), x # "text"
  PROVE  NoText(Append(s, x))
<1>1. /\ Len(s) \in Nat /\ Len(Append(s, x)) = Len(s) + 1
      /\ \A i \in 1..Len(s) : Append(s, x)[i] = s[i]
      /\ Append(s, x)[Len(s) + 1] = x
  BY AppendProperties, LenProperties
<1>2. ASSUME NEW i \in 1..(Len(s) + 1) PROVE Append(s, x)[i] # "text"
  <2>1. i \in 1..Len(s) \/ i = Len(s) + 1
    BY <1>1
  <2>. QED
    BY <1>1, <2>1 DEF NoText
<1>. QED
  BY <1>1, <1>2 DEF NoText

(* What is written to the proxy counts or is blank, and is delivered.      *)
LEMMA Writes ==
  ASSUME NEW s \in Seq(Packet), NEW p \in Packet, Counts(p) \/ p.seq = 0,
         \A i \in 1..Len(s) : Counts(s[i]) \/ s[i].seq = 0
  PROVE  \A i \in 1..Len(Append(s, p)) : Counts(Append(s, p)[i]) \/ Append(s, p)[i].seq = 0
<1>1. /\ Len(s) \in Nat /\ Len(Append(s, p)) = Len(s) + 1
      /\ \A i \in 1..Len(s) : Append(s, p)[i] = s[i]
      /\ Append(s, p)[Len(s) + 1] = p
  BY AppendProperties, LenProperties
<1> DEFINE t == Append(s, p)
<1> HIDE DEF t
<1>2. ASSUME NEW i \in 1..(Len(s) + 1) PROVE Counts(t[i]) \/ t[i].seq = 0
  <2>1. i \in 1..Len(s) \/ i = Len(s) + 1
    BY <1>1
  <2>2. CASE i \in 1..Len(s)
    <3>1. t[i] = s[i]
      BY <1>1, <2>2 DEF t
    <3>. QED
      BY <2>2, <3>1
  <2>3. CASE i = Len(s) + 1
    <3>1. t[i] = p
      BY <1>1, <2>3 DEF t
    <3>. QED
      BY <3>1
  <2>. QED
    BY <2>1, <2>2, <2>3
<1>. QED
  BY <1>1, <1>2 DEF t

LEMMA Takes ==
  ASSUME NEW s \in Seq(Packet), s # << >>,
         \A i \in 1..Len(s) : Counts(s[i]) \/ s[i].seq = 0
  PROVE  /\ Counts(Head(s)) \/ Head(s).seq = 0
         /\ \A i \in 1..Len(Tail(s)) : Counts(Tail(s)[i]) \/ Tail(s)[i].seq = 0
<1>1. /\ Len(s) \in Nat /\ Len(s) # 0 /\ Len(Tail(s)) = Len(s) - 1
      /\ Head(s) = s[1]
      /\ \A i \in 1..(Len(s) - 1) : Tail(s)[i] = s[i + 1]
  BY HeadTailProperties, LenProperties, EmptySeq
<1>2. ASSUME NEW i \in 1..Len(Tail(s)) PROVE Counts(Tail(s)[i]) \/ Tail(s)[i].seq = 0
  <2>1. i \in 1..(Len(s) - 1) /\ i + 1 \in 1..Len(s)
    BY <1>1
  <2>2. Tail(s)[i] = s[i + 1]
    BY <1>1, <2>1
  <2>. QED
    BY <2>1, <2>2
<1>3. 1 \in 1..Len(s)
  BY <1>1
<1>. QED
  BY <1>1, <1>2, <1>3

LEMMA InitHandedOn == ASSUME FilesOnly, Init PROVE HandedOn
<1>1. taken = 0 /\ spc = "connect" /\ buffer = Empty /\ script = Script /\ typed = << >> /\ sToP = << >>
  BY DEF Init, SenderInit, StreamsInit
<1>2. NoText(script) /\ NoText(typed)
  BY <1>1, EmptySeq DEF NoText, FilesOnly
<1>3. Len(sToP) = 0
  BY <1>1, EmptySeq
<1>. QED
  BY <1>1, <1>2, <1>3 DEF HandedOn

LEMMA UserHandsOn ==
  ASSUME TypeOK, HandedOn, UserNext
  PROVE  HandedOn'
<1>1. /\ script # << >> /\ script' = Tail(script) /\ typed' = Append(typed, Head(script))
      /\ UNCHANGED <<spc, buffer, sToP, pToR, taken, unlucky, rpc, output>>
  BY DEF UserNext, Type, streams, proxyVars, receiverVars
<1>2. script \in Seq({"text", "start", "exit"}) /\ typed \in Seq({"text", "start", "exit"})
  BY DEF TypeOK, SenderTypeOK
<1>3. NoText(script) /\ NoText(typed)
  BY DEF HandedOn
<1>4. Head(script) \in {"text", "start", "exit"}
  BY <1>1, <1>2, HeadTailProperties
<1>5. Head(script) # "text" /\ NoText(Tail(script))
  BY <1>1, <1>2, <1>3, NoTextTail
<1>6. NoText(Append(typed, Head(script)))
  BY <1>2, <1>3, <1>4, <1>5, NoTextAppend
<1>7. NoText(script') /\ NoText(typed')
  BY <1>1, <1>5, <1>6
<1>8. Delivered' = Delivered /\ ReceiverOpen' = ReceiverOpen
  BY <1>1 DEF Delivered, SeqsOf, ReceiverOpen
<1>. QED
  BY <1>1, <1>7, <1>8 DEF HandedOn

(* Nothing is written: what is delivered stays, and what is taken is loaded. *)
LEMMA QuietSender ==
  ASSUME TypeOK, HandedOn, UNCHANGED <<script, sToP, pToR, output, unlucky, rpc>>,
         typed' = typed \/ (typed # << >> /\ typed' = Tail(typed)),
         spc' \in {"connect", "input", "select", "resend", "read"} => buffer' = Empty,
         Counts(buffer') \/ buffer' = Empty,
         spc' \in {"fwrite", "fselect", "fresend"} => buffer'.seq = taken', spc # "fwrite",
         taken' = taken \/ (taken' = taken + 1 /\ spc' = "fwrite")
  PROVE  HandedOn'
<1>1. taken \in Nat /\ typed \in Seq({"text", "start", "exit"})
  BY DEF TypeOK, SenderTypeOK
<1>2. NoText(typed')
  BY <1>1, NoTextTail DEF HandedOn
<1>3. NoText(script')
  BY DEF HandedOn
<1>4. Delivered' = Delivered /\ ReceiverOpen' = ReceiverOpen
  BY DEF Delivered, SeqsOf, ReceiverOpen
<1>5. ReceiverOpen' /\ unlucky' = 0 =>
        \A n \in 1..taken' : n \in Delivered' \/ (spc' = "fwrite" /\ n = taken')
  <2> SUFFICES ASSUME ReceiverOpen, unlucky = 0, NEW n \in 1..taken'
               PROVE  n \in Delivered \/ (spc' = "fwrite" /\ n = taken')
    BY <1>4
  <2>1. \A m \in 1..taken : m \in Delivered
    BY DEF HandedOn
  <2>. QED
    BY <1>1, <2>1
<1>6. \A i \in 1..Len(sToP') : Counts(sToP'[i]) \/ sToP'[i].seq = 0
  BY DEF HandedOn
<1>. QED
  BY <1>2, <1>3, <1>5, <1>6 DEF HandedOn

(* A packet p is written: what was taken and not yet written is p. *)
LEMMA WritingSender ==
  ASSUME TypeOK, HandedOn, UNCHANGED <<script, pToR, output, unlucky, rpc>>,
         typed' = typed \/ (typed # << >> /\ typed' = Tail(typed)),
         NEW p \in Packet, sToP' = Append(sToP, p), Counts(p) \/ p.seq = 0,
         spc' \in {"connect", "input", "select", "resend", "read"} => buffer' = Empty,
         Counts(buffer') \/ buffer' = Empty,
         spc' \in {"fwrite", "fselect", "fresend"} => buffer'.seq = taken',
         \/ taken' = taken /\ (spc = "fwrite" => p.seq = taken)
         \/ taken' = taken + 1 /\ spc # "fwrite" /\ p.seq = taken'
  PROVE  HandedOn'
<1>1. taken \in Nat /\ typed \in Seq({"text", "start", "exit"}) /\ sToP \in Seq(Packet)
  BY DEF TypeOK, SenderTypeOK, StreamsTypeOK
<1>2. NoText(typed')
  BY <1>1, NoTextTail DEF HandedOn
<1>3. NoText(script')
  BY DEF HandedOn
<1>4. SeqsOf(sToP') = SeqsOf(sToP) \cup {p.seq}
  BY <1>1, SeqsAppend
<1>5. Delivered' = Delivered \cup {p.seq} /\ ReceiverOpen' = ReceiverOpen
  <2>1. SeqsOf(output)' = SeqsOf(output) /\ SeqsOf(pToR)' = SeqsOf(pToR) /\ SeqsOf(sToP)' = SeqsOf(sToP')
    BY DEF SeqsOf
  <2>. QED
    BY <1>4, <2>1 DEF Delivered, ReceiverOpen
<1>6. ReceiverOpen' /\ unlucky' = 0 =>
        \A n \in 1..taken' : n \in Delivered' \/ (spc' = "fwrite" /\ n = taken')
  <2> SUFFICES ASSUME ReceiverOpen, unlucky = 0, NEW n \in 1..taken'
               PROVE  n \in Delivered \/ n = p.seq
    BY <1>5
  <2>1. \A m \in 1..taken : m \in Delivered \/ (spc = "fwrite" /\ m = taken)
    BY DEF HandedOn
  <2>. QED
    BY <1>1, <2>1
<1>7. \A i \in 1..Len(sToP') : Counts(sToP'[i]) \/ sToP'[i].seq = 0
  BY <1>1, Writes DEF HandedOn
<1>. QED
  BY <1>2, <1>3, <1>6, <1>7 DEF HandedOn

LEMMA SenderHandsOn ==
  ASSUME FilesOnly, TypeOK, HandedOn, SenderNext
  PROVE  HandedOn'
<1>1. UNCHANGED <<output, unlucky, rpc>>
  BY DEF SenderNext, proxyVars, receiverVars
<1>2. /\ taken \in Nat /\ buffer \in Packet /\ chunk \in 0..Len(File)
      /\ typed \in Seq({"text", "start", "exit"}) /\ Len(File) \in Nat
      /\ \A i \in 1..Len(File) : File[i] \in Kind
  BY SenderAssumption, LenProperties DEF TypeOK, SenderTypeOK
<1>3. /\ spc \in {"connect", "input", "select", "resend", "read"} => buffer = Empty
      /\ Counts(buffer) \/ buffer = Empty
      /\ spc \in {"fwrite", "fselect", "fresend"} => buffer.seq = taken
      /\ NoText(typed)
  BY DEF HandedOn
<1>4. Empty \in Packet /\ Empty.seq = 0
  BY DEF Empty, Packet, Kind
<1>l. ASSUME NEW c \in 1..Len(File), LoadChunk(c)
      PROVE  taken' = taken + 1 /\ buffer'.seq = taken' /\ Counts(buffer')
  BY <1>l DEF LoadChunk, FilesOnly, Counts
<1>5. CASE InputText
  <2>1. typed # << >> /\ Head(typed) = "text"
    BY <1>5 DEF InputText
  <2>. QED
    BY <1>2, <1>3, <2>1, NoTextTail
<1>6. CASE InputStart
  <2>1. /\ spc = "input" /\ typed # << >> /\ typed' = Tail(typed)
        /\ UNCHANGED <<script, sToP, pToR>>
    BY <1>6 DEF InputStart, streams
  <2>2. CASE Len(File) = 0
    <3>1. spc' = "select" /\ UNCHANGED <<taken, buffer>>
      BY <1>6, <2>2 DEF InputStart
    <3>. QED
      BY <1>1, <1>3, <2>1, <3>1, QuietSender
  <2>3. CASE Len(File) # 0
    <3>1. spc' = "fwrite" /\ LoadChunk(1) /\ 1 \in 1..Len(File)
      BY <1>2, <1>6, <2>3 DEF InputStart
    <3>2. taken' = taken + 1 /\ buffer'.seq = taken' /\ Counts(buffer')
      BY <1>l, <3>1
    <3>. QED
      BY <1>1, <2>1, <3>1, <3>2, QuietSender
  <2>. QED
    BY <2>2, <2>3
<1>7. CASE InputExit
  <2> DEFINE p == [seq |-> taken + 1, kind |-> "exit"]
  <2>1. /\ spc = "input" /\ typed # << >> /\ typed' = Tail(typed) /\ taken' = taken + 1
        /\ sToP' = Append(sToP, p) /\ spc' = "closed" /\ UNCHANGED <<script, buffer, pToR>>
    BY <1>7 DEF InputExit, WriteToProxy
  <2>2. p \in Packet /\ Counts(p) /\ p.seq = taken + 1
    BY <1>2 DEF Packet, Kind, Counts
  <2> HIDE DEF p
  <2>. QED
    BY <1>1, <1>3, <2>1, <2>2, WritingSender
<1>8. CASE MainTimeout \/ MainReady \/ FileTimeout \/ FileReady
  <2>1. /\ UNCHANGED <<script, typed, buffer, taken, sToP, pToR>>
        /\ \/ spc = "select" /\ spc' \in {"resend", "read"}
           \/ spc = "fselect" /\ spc' \in {"fresend", "fread"}
    BY <1>8 DEF MainTimeout, MainReady, FileTimeout, FileReady, Timeout, SelectReady, streams
  <2>. QED
    BY <1>1, <1>3, <2>1, QuietSender
<1>9. CASE Resend
  <2>1. /\ spc = "resend" /\ sToP' = Append(sToP, buffer) /\ spc' \in {"input", "select"}
        /\ UNCHANGED <<script, typed, buffer, taken, pToR>>
    BY <1>9 DEF Resend, WriteToProxy
  <2>. QED
    BY <1>1, <1>2, <1>3, <1>4, <2>1, WritingSender
<1>10. CASE Read
  <2>1. /\ spc = "read" /\ spc' = "input" /\ buffer' = Empty
        /\ UNCHANGED <<script, typed, taken, sToP, pToR>>
    BY <1>10 DEF Read
  <2>. QED
    BY <1>1, <2>1, QuietSender
<1>13. CASE ReadGreeting
  <2>1. /\ spc = "connect" /\ spc' = "input"
        /\ UNCHANGED <<script, typed, buffer, taken, sToP, pToR>>
    BY <1>13 DEF ReadGreeting
  <2>. QED
    BY <1>1, <1>3, <2>1, QuietSender
<1>11. CASE FileWrite \/ FileResend
  <2>1. /\ \/ spc = "fwrite" /\ spc' = "fselect"
           \/ spc = "fresend" /\ spc' = "fwrite"
        /\ sToP' = Append(sToP, buffer)
        /\ UNCHANGED <<script, typed, buffer, taken, pToR>>
    BY <1>11 DEF FileWrite, FileResend, WriteToProxy
  <2>. QED
    BY <1>1, <1>2, <1>3, <1>4, <2>1, WritingSender
<1>12. CASE FileRead
  <2>1. spc = "fread" /\ UNCHANGED <<script, typed, sToP, pToR>>
    BY <1>12 DEF FileRead
  <2>2. CASE chunk < Len(File)
    <3>1. spc' = "fwrite" /\ LoadChunk(chunk + 1) /\ chunk + 1 \in 1..Len(File)
      BY <1>2, <1>12, <2>2 DEF FileRead
    <3>2. taken' = taken + 1 /\ buffer'.seq = taken' /\ Counts(buffer')
      BY <1>l, <3>1
    <3>. QED
      BY <1>1, <2>1, <3>1, <3>2, QuietSender
  <2>3. CASE ~(chunk < Len(File))
    <3>1. spc' = "select" /\ buffer' = Empty /\ taken' = taken
      BY <1>12, <2>3 DEF FileRead
    <3>. QED
      BY <1>1, <2>1, <3>1, QuietSender
  <2>. QED
    BY <2>2, <2>3
<1>. QED
  BY <1>5, <1>6, <1>7, <1>8, <1>9, <1>10, <1>11, <1>12, <1>13 DEF SenderNext, SenderStep

(* The proxy and the receiver: what was delivered still is, but for the    *)
(* blank packets, which carry no number.                                   *)
LEMMA OthersHandOn ==
  ASSUME TypeOK, HandedOn, UNCHANGED senderVars,
         \A i \in 1..Len(sToP') : Counts(sToP'[i]) \/ sToP'[i].seq = 0,
         ReceiverOpen' /\ unlucky' = 0 =>
           ReceiverOpen /\ unlucky = 0 /\ Delivered \subseteq Delivered' \cup {0}
  PROVE  HandedOn'
<1>1. UNCHANGED <<script, typed, spc, buffer, taken>> /\ taken \in Nat
  BY DEF senderVars, TypeOK, SenderTypeOK
<1>2. NoText(script') /\ NoText(typed')
  BY <1>1 DEF HandedOn
<1>3. ReceiverOpen' /\ unlucky' = 0 =>
        \A n \in 1..taken' : n \in Delivered' \/ (spc' = "fwrite" /\ n = taken')
  <2> SUFFICES ASSUME ReceiverOpen', unlucky' = 0, NEW n \in 1..taken
               PROVE  n \in Delivered' \/ (spc = "fwrite" /\ n = taken)
    BY <1>1
  <2>1. n \in Delivered \/ (spc = "fwrite" /\ n = taken)
    BY DEF HandedOn
  <2>2. n # 0
    BY <1>1
  <2>. QED
    BY <2>1, <2>2
<1>. QED
  BY <1>1, <1>2, <1>3 DEF HandedOn

LEMMA ProxyHandsOn ==
  ASSUME TypeOK, HandedOn, ProxyNext
  PROVE  HandedOn'
<1>1. UNCHANGED <<senderVars, rpc, output>>
  BY DEF ProxyNext, receiverVars
<1>2. sToP \in Seq(Packet) /\ pToR \in Seq(Packet) /\ unlucky \in Nat
  BY ProxyAssumption DEF TypeOK, StreamsTypeOK, ProxyTypeOK
<1>3. \A i \in 1..Len(sToP) : Counts(sToP[i]) \/ sToP[i].seq = 0
  BY DEF HandedOn
<1>4. ReceiverOpen' = ReceiverOpen /\ SeqsOf(output') = SeqsOf(output)
  BY <1>1 DEF ReceiverOpen
<1>d. Delivered' = SeqsOf(output') \cup SeqsOf(pToR') \cup SeqsOf(sToP')
  BY DEF Delivered, SeqsOf
<1>5. CASE ConnectReceiver \/ ProxyAccept \/ DropAck(ReceiverOpen) \/ SkipEmptyAck(ReceiverOpen)
             \/ ForwardAck(SenderOpen, ReceiverOpen) \/ SenderGone(SenderOpen)
  <2>1. UNCHANGED <<sToP, pToR>> /\ (unlucky' = unlucky \/ unlucky' = unlucky + 1)
    BY <1>5 DEF ConnectReceiver, ProxyAccept, DropAck, SkipEmptyAck, ForwardAck, SenderGone, Unlucky, streams
  <2>2. Delivered' = Delivered
    BY <1>4, <1>d, <2>1 DEF Delivered
  <2>3. unlucky' = 0 => unlucky = 0
    BY <1>2, <2>1
  <2>. QED
    BY <1>1, <1>3, <1>4, <2>1, <2>2, <2>3, OthersHandOn
<1>6. CASE DropData
  <2>1. sToP # << >> /\ sToP' = Tail(sToP) /\ unlucky' = unlucky + 1
    BY <1>6 DEF DropData, ReadPacket, Unlucky
  <2>2. unlucky' # 0
    BY <1>2, <2>1
  <2>3. \A i \in 1..Len(sToP') : Counts(sToP'[i]) \/ sToP'[i].seq = 0
    BY <1>2, <1>3, <2>1, Takes
  <2>. QED
    BY <1>1, <2>2, <2>3, OthersHandOn
<1>7. CASE IgnoreBlank
  <2>1. sToP # << >> /\ sToP' = Tail(sToP) /\ ~Counts(Head(sToP)) /\ UNCHANGED <<pToR, unlucky>>
    BY <1>7 DEF IgnoreBlank, ReadPacket, Counts
  <2>2. /\ Counts(Head(sToP)) \/ Head(sToP).seq = 0
        /\ \A i \in 1..Len(sToP') : Counts(sToP'[i]) \/ sToP'[i].seq = 0
    BY <1>2, <1>3, <2>1, Takes
  <2>3. SeqsOf(sToP) = SeqsOf(sToP') \cup {0}
    BY <1>2, <2>1, <2>2, SeqsTail
  <2>4. Delivered \subseteq Delivered' \cup {0}
    BY <1>4, <1>d, <2>1, <2>3 DEF Delivered
  <2>. QED
    BY <1>1, <1>4, <2>1, <2>2, <2>4, OthersHandOn
<1>8. CASE ForwardData(ReceiverOpen)
  <2>1. /\ sToP # << >> /\ sToP' = Tail(sToP) /\ UNCHANGED unlucky
        /\ ReceiverOpen => pToR' = Append(pToR, Head(sToP))
    BY <1>8 DEF ForwardData, ReadPacket
  <2>2. \A i \in 1..Len(sToP') : Counts(sToP'[i]) \/ sToP'[i].seq = 0
    BY <1>2, <1>3, <2>1, Takes
  <2>3. Head(sToP) \in Packet /\ SeqsOf(sToP) = SeqsOf(sToP') \cup {Head(sToP).seq}
    BY <1>2, <2>1, SeqsTail, HeadTailProperties
  <2>4. ReceiverOpen => SeqsOf(pToR') = SeqsOf(pToR) \cup {Head(sToP).seq}
    BY <1>2, <2>1, <2>3, SeqsAppend
  <2>5. ReceiverOpen => Delivered \subseteq Delivered' \cup {0}
    BY <1>4, <1>d, <2>3, <2>4 DEF Delivered
  <2>. QED
    BY <1>1, <1>4, <2>1, <2>2, <2>5, OthersHandOn
<1>. QED
  BY <1>5, <1>6, <1>7, <1>8 DEF ProxyNext, ProxyStep

LEMMA ReceiverHandsOn ==
  ASSUME TypeOK, HandedOn, ReceiverNext
  PROVE  HandedOn'
<1>1. UNCHANGED <<senderVars, sToP, unlucky>>
  BY DEF ReceiverNext, ReceiverStep, ReceiverAccept, ReceiveData, ReceiveExit, ReceiveEof,
         proxyVars, streams
<1>2. pToR \in Seq(Packet) /\ output \in Seq(Packet)
  BY DEF TypeOK, StreamsTypeOK, ReceiverTypeOK
<1>3. \A i \in 1..Len(sToP') : Counts(sToP'[i]) \/ sToP'[i].seq = 0
  BY <1>1 DEF HandedOn
<1>4. ReceiverOpen' => ReceiverOpen
  BY DEF ReceiverNext, ReceiverStep, ReceiverAccept, ReceiveData, ReceiveExit, ReceiveEof,
         ReadData, ReceiverOpen
<1>d. Delivered' = SeqsOf(output') \cup SeqsOf(pToR') \cup SeqsOf(sToP')
  BY DEF Delivered, SeqsOf
<1>5. CASE ReadData
  <2>1. pToR # << >> /\ pToR' = Tail(pToR) /\ output' = Append(output, Head(pToR))
    BY <1>5 DEF ReadData
  <2>2. Head(pToR) \in Packet /\ SeqsOf(pToR) = SeqsOf(pToR') \cup {Head(pToR).seq}
    BY <1>2, <2>1, SeqsTail, HeadTailProperties
  <2>3. SeqsOf(output') = SeqsOf(output) \cup {Head(pToR).seq}
    BY <1>2, <2>1, <2>2, SeqsAppend
  <2>4. Delivered \subseteq Delivered' \cup {0}
    BY <1>1, <1>d, <2>2, <2>3 DEF Delivered
  <2>. QED
    BY <1>1, <1>3, <1>4, <2>4, OthersHandOn
<1>6. CASE UNCHANGED <<pToR, output>>
  <2>1. Delivered' = Delivered
    BY <1>1, <1>6, <1>d DEF Delivered
  <2>. QED
    BY <1>1, <1>3, <1>4, <2>1, OthersHandOn
<1>. QED
  BY <1>5, <1>6 DEF ReceiverNext, ReceiverStep, ReceiverAccept, ReceiveData, ReceiveExit,
                    ReceiveEof, streams

LEMMA HandedOnStays == FilesOnly /\ TypeOK /\ HandedOn /\ [Next]_vars => HandedOn'
<1>. SUFFICES ASSUME FilesOnly, TypeOK, HandedOn, [Next]_vars PROVE HandedOn'
  OBVIOUS
<1>1. CASE UNCHANGED vars
  <2>1. /\ UNCHANGED <<senderVars, sToP, rpc, unlucky, output, pToR>>
    BY <1>1 DEF vars, streams, proxyVars, receiverVars
  <2>2. Delivered' = Delivered /\ ReceiverOpen' = ReceiverOpen
    BY <2>1 DEF Delivered, SeqsOf, ReceiverOpen
  <2>. QED
    BY <2>1, <2>2, OthersHandOn DEF HandedOn
<1>2. CASE Next
  BY <1>2, UserHandsOn, SenderHandsOn, ProxyHandsOn, ReceiverHandsOn DEF Next
<1>. QED
  BY <1>1, <1>2

(* When the user only sends files and no draw is unlucky, no chunk is      *)
(* given up, however late answers to copies of earlier chunks shift the    *)
(* answers that send_file takes: it writes a chunk before it looks for one.*)
THEOREM NoChunkGivenUp == ASSUME FilesOnly PROVE Spec => []NothingGivenUp
<1>1. Init => HandedOn
  BY InitHandedOn
<1>2. TypeOK /\ HandedOn /\ [Next]_vars => HandedOn'
  BY HandedOnStays
<1>3. TypeOK /\ HandedOn => NothingGivenUp
  <2> SUFFICES ASSUME TypeOK, HandedOn, unlucky = 0, ReceiverOpen, NEW n \in 1..taken
               PROVE  n \in SeqsOf(output) \cup SeqsOf(pToR) \cup SeqsOf(sToP) \/ buffer.seq = n
    BY DEF NothingGivenUp, NoSilentLoss
  <2>1. n \in Delivered \/ (spc = "fwrite" /\ n = taken)
    BY DEF HandedOn
  <2>. QED
    BY <2>1 DEF Delivered, HandedOn
<1>4. Spec => []TypeOK
  BY TypeCorrect
<1>. QED
  BY <1>1, <1>2, <1>3, <1>4, PTL DEF Spec
=============================================================================
