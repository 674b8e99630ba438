------------------------------ MODULE Receiver ------------------------------
(***************************************************************************)
(* receiver.c: prints every packet it reads and answers each with the      *)
(* cumulative count of what it has read.  The packets carry no number the  *)
(* program looks at: a retransmission is printed and counted again.        *)
(***************************************************************************)
EXTENDS PacketStreams

VARIABLES
  rpc,      \* where the receiver is
  ack,      \* the cumulative acknowledgement, counted in packets
  output    \* what it has printed

receiverVars == <<rpc, ack, output>>

ReceiverTypeOK ==
  /\ rpc \in {"accept", "receive", "closed"}
  /\ ack \in Nat
  /\ output \in Seq(Packet)

ReceiverInit ==
  /\ rpc = "accept"
  /\ ack = 0
  /\ output = <<>>

-----------------------------------------------------------------------------

(* The proxy's connection is accepted and greeted. *)
ReceiverAccept ==
  /\ rpc = "accept"
  /\ rpc' = "receive"
  /\ rToP' = Append(rToP, "greeting")
  /\ UNCHANGED <<ack, output, sToP, pToR, pToS>>

ReadData ==
  /\ rpc = "receive"
  /\ pToR # <<>>
  /\ pToR' = Tail(pToR)
  /\ output' = Append(output, Head(pToR))

(* Fault: a retransmission is printed, but neither counted nor answered. *)
ReceiveDataOnce ==
  /\ ReadData
  /\ Head(pToR).kind # "exit"
  /\ IF Head(pToR) \in { output[i] : i \in 1..Len(output) }
     THEN UNCHANGED <<ack, rToP>>
     ELSE ack' = ack + 1 /\ rToP' = Append(rToP, "answer")
  /\ UNCHANGED <<rpc, sToP, pToS>>

(* Printed, counted and answered. *)
ReceiveData ==
  /\ ReadData
  /\ Head(pToR).kind # "exit"
  /\ ack' = ack + 1
  /\ rToP' = Append(rToP, "answer")
  /\ UNCHANGED <<rpc, sToP, pToS>>

(* A packet with "exit" in it is printed and ends the program unanswered. *)
ReceiveExit ==
  /\ ReadData
  /\ Head(pToR).kind = "exit"
  /\ rpc' = "closed"
  /\ UNCHANGED <<ack, sToP, rToP, pToS>>

(* The proxy's end of the connection is closed: read() returns 0. *)
ReceiveEof(proxyOpen) ==
  /\ rpc = "receive"
  /\ ~proxyOpen
  /\ pToR = <<>>
  /\ rpc' = "closed"
  /\ UNCHANGED <<ack, output, streams>>

ReceiverStep(proxyOpen) ==
  \/ ReceiverAccept \/ ReceiveData \/ ReceiveExit \/ ReceiveEof(proxyOpen)
=============================================================================
