-------------------------------- MODULE Proxy --------------------------------
(***************************************************************************)
(* proxy.c: reads a packet of the sender, drops it or writes it to the     *)
(* receiver, and in the second case waits for one response, which it drops *)
(* or writes to the sender.  The two random draws are choices; MaxLoss     *)
(* bounds how often "lose it" is drawn.                                    *)
(***************************************************************************)
EXTENDS PacketStreams

CONSTANT MaxLoss     \* bound on the unlucky draws of one run

ASSUME ProxyAssumption == MaxLoss \in Nat

VARIABLES
  ppc,                  \* where the proxy is
  received_data_count,  \* packets written to the receiver, '1' in the data log
  received_ack_count,   \* responses written to the sender, '1' in the ack log
  loss_data_count,      \* packets dropped, '0' in the data log
  loss_ack_count,       \* responses with a text dropped, '0' in the ack log
  forked,               \* some packet held "exit": the parent shows the plots
  broken,               \* the closed peers that a write was lost to
  unlucky               \* bound: draws that said "lose it"

proxyVars == <<ppc, received_data_count, received_ack_count,
               loss_data_count, loss_ack_count, forked, broken, unlucky>>

ProxyTypeOK ==
  /\ ppc \in {"connect", "accept", "receive", "await", "ended"}
  /\ received_data_count \in Nat
  /\ received_ack_count \in Nat
  /\ loss_data_count \in Nat
  /\ loss_ack_count \in Nat
  /\ forked \in BOOLEAN
  /\ broken \subseteq {"sender", "receiver"}
  /\ unlucky \in 0..MaxLoss

ProxyInit ==
  /\ ppc = "connect"
  /\ received_data_count = 0
  /\ received_ack_count = 0
  /\ loss_data_count = 0
  /\ loss_ack_count = 0
  /\ forked = FALSE
  /\ broken = {}
  /\ unlucky = 0

-----------------------------------------------------------------------------

(* options_process: connected, the proxy reads the receiver's greeting. *)
ConnectReceiver ==
  /\ ppc = "connect"
  /\ rToP # <<>>
  /\ rToP' = Tail(rToP)
  /\ ppc' = "accept"
  /\ UNCHANGED <<received_data_count, received_ack_count, loss_data_count,
                 loss_ack_count, forked, broken, unlucky, sToP, pToR, pToS>>

(* The sender's connection is accepted and greeted. *)
ProxyAccept ==
  /\ ppc = "accept"
  /\ ppc' = "receive"
  /\ pToS' = Append(pToS, "greeting")
  /\ UNCHANGED <<received_data_count, received_ack_count, loss_data_count,
                 loss_ack_count, forked, broken, unlucky, sToP, pToR, rToP>>

(* data_receive_rate_process() or ack_receive_rate_process() returns false. *)
Unlucky ==
  /\ unlucky < MaxLoss
  /\ unlucky' = unlucky + 1

(* Fault: no process is left behind with the sockets open. *)
ReadPacketUnforked ==
  /\ ppc = "receive"
  /\ sToP # <<>>
  /\ sToP' = Tail(sToP)
  /\ UNCHANGED forked

(* read() from the sender.  A packet with "exit" forks before it is handled *)
(* like the others: the child goes on as the proxy.                         *)
ReadPacket ==
  /\ ppc = "receive"
  /\ sToP # <<>>
  /\ sToP' = Tail(sToP)
  /\ forked' = (forked \/ Head(sToP).kind = "exit")

(* strlen(buffer) = 0: nothing is forwarded and nothing is answered. *)
IgnoreBlank ==
  /\ ReadPacket
  /\ Head(sToP).kind = "blank"
  /\ UNCHANGED <<ppc, received_data_count, received_ack_count, loss_data_count,
                 loss_ack_count, broken, unlucky, pToR, rToP, pToS>>

(* Fault: a packet that should be lost is put off instead. *)
RequeueData ==
  /\ ppc = "receive"
  /\ sToP # <<>>
  /\ sToP' = Append(Tail(sToP), Head(sToP))
  /\ Head(sToP).kind # "blank"
  /\ Unlucky
  /\ loss_data_count' = loss_data_count + 1
  /\ UNCHANGED <<ppc, received_data_count, received_ack_count, loss_ack_count,
                 forked, broken, pToR, rToP, pToS>>

DropData ==
  /\ ReadPacket
  /\ Head(sToP).kind # "blank"
  /\ Unlucky
  /\ loss_data_count' = loss_data_count + 1
  /\ UNCHANGED <<ppc, received_data_count, received_ack_count, loss_ack_count,
                 broken, pToR, rToP, pToS>>

(* A write to a peer that has closed is lost; the reset it provokes makes a *)
(* later one raise SIGPIPE, which ends the program.                         *)
WriteIsLost(peer, next) ==
  /\ broken' = broken \cup {peer}
  /\ ppc' \in IF peer \in broken THEN {next, "ended"} ELSE {next}

ForwardData(receiverOpen) ==
  /\ ReadPacket
  /\ Head(sToP).kind # "blank"
  /\ IF receiverOpen
     THEN ppc' = "await" /\ pToR' = Append(pToR, Head(sToP)) /\ UNCHANGED broken
     ELSE WriteIsLost("receiver", "await") /\ UNCHANGED pToR
  /\ received_data_count' = received_data_count + 1
  /\ UNCHANGED <<received_ack_count, loss_data_count, loss_ack_count, unlucky,
                 rToP, pToS>>

(* read() of a response blocks until an answer is there; once the receiver  *)
(* has closed, it returns at once and leaves the response empty.            *)
ReadResponse(receiverOpen) ==
  /\ ppc = "await"
  /\ rToP # <<>> \/ ~receiverOpen
  /\ rToP' = IF rToP = <<>> THEN <<>> ELSE Tail(rToP)

ResponseHasText == rToP # <<>>

(* Fault: a dropped response is not counted. *)
DropAckUncounted(receiverOpen) ==
  /\ ReadResponse(receiverOpen)
  /\ ResponseHasText
  /\ Unlucky
  /\ ppc' = "receive"
  /\ UNCHANGED <<received_data_count, received_ack_count, loss_data_count,
                 loss_ack_count, forked, broken, sToP, pToR, pToS>>

DropAck(receiverOpen) ==
  /\ ReadResponse(receiverOpen)
  /\ ResponseHasText
  /\ Unlucky
  /\ loss_ack_count' = loss_ack_count + 1
  /\ ppc' = "receive"
  /\ UNCHANGED <<received_data_count, received_ack_count, loss_data_count, forked,
                 broken, sToP, pToR, pToS>>

(* An empty response that should be dropped is not counted: the loop reads on. *)
SkipEmptyAck(receiverOpen) ==
  /\ ReadResponse(receiverOpen)
  /\ ~ResponseHasText
  /\ Unlucky
  /\ UNCHANGED <<ppc, received_data_count, received_ack_count, loss_data_count,
                 loss_ack_count, forked, broken, sToP, pToR, pToS>>

ForwardAck(senderOpen, receiverOpen) ==
  /\ ReadResponse(receiverOpen)
  /\ IF senderOpen
     THEN ppc' = "receive" /\ pToS' = Append(pToS, "answer") /\ UNCHANGED broken
     ELSE WriteIsLost("sender", "receive") /\ UNCHANGED pToS
  /\ received_ack_count' = received_ack_count + 1
  /\ UNCHANGED <<received_data_count, loss_data_count, loss_ack_count, forked,
                 unlucky, sToP, pToR>>

(* The sender closed and everything it wrote is read: read() returns 0 and  *)
(* the loop spins without a change, or it fails (the sender closed with     *)
(* responses unread), remove_client() is called and the program ends.       *)
SenderGone(senderOpen) ==
  /\ ppc = "receive"
  /\ ~senderOpen
  /\ sToP = <<>>
  /\ ppc' = "ended"
  /\ UNCHANGED <<received_data_count, received_ack_count, loss_data_count,
                 loss_ack_count, forked, broken, unlucky, streams>>

ProxyStep(senderOpen, receiverOpen) ==
  \/ ConnectReceiver \/ ProxyAccept
  \/ IgnoreBlank \/ DropData \/ ForwardData(receiverOpen)
  \/ DropAck(receiverOpen) \/ SkipEmptyAck(receiverOpen)
  \/ ForwardAck(senderOpen, receiverOpen)
  \/ SenderGone(senderOpen)
=============================================================================
