---------------------------- MODULE LossyTransfer ----------------------------
(***************************************************************************)
(* The COMP7005 project at work: one sender, one proxy and one receiver,   *)
(* connected, each a process of its own.                                   *)
(***************************************************************************)
EXTENDS Sender, Proxy, Receiver, FiniteSets

vars == <<streams, senderVars, proxyVars, receiverVars>>

SenderOpen   == spc # "closed"
ReceiverOpen == rpc # "closed"

(* The parent that went to show the plots keeps the proxy's sockets open. *)
ProxyOpen == ppc # "ended" \/ forked

TypeOK == StreamsTypeOK /\ SenderTypeOK /\ ProxyTypeOK /\ ReceiverTypeOK

Init == StreamsInit /\ SenderInit /\ ProxyInit /\ ReceiverInit

UserNext     == Type /\ UNCHANGED <<proxyVars, receiverVars>>
SenderNext   == SenderStep /\ UNCHANGED <<proxyVars, receiverVars>>
ProxyNext    == ProxyStep(SenderOpen, ReceiverOpen) /\ UNCHANGED <<senderVars, receiverVars>>
ReceiverNext == ReceiverStep(ProxyOpen) /\ UNCHANGED <<senderVars, proxyVars>>

Next == UserNext \/ SenderNext \/ ProxyNext \/ ReceiverNext

Spec == Init /\ [][Next]_vars

(* Each program runs on its own and is scheduled again and again; the user *)
(* types the whole script.                                                 *)
Fairness == /\ WF_vars(UserNext)
            /\ WF_vars(SenderNext)
            /\ WF_vars(ProxyNext)
            /\ WF_vars(ReceiverNext)

FairSpec == Spec /\ Fairness

-----------------------------------------------------------------------------
(* Safety *)

(* Every packet counted in the data log as arrived is answered, dropped as *)
(* an answer, or the one the proxy waits for: the proxy is stop-and-wait.  *)
StopAndWait ==
  /\ ppc = "receive" => received_data_count = received_ack_count + loss_ack_count
  /\ ppc = "await" => received_data_count = received_ack_count + loss_ack_count + 1

(* The response the proxy takes is the one to the packet it forwarded last: *)
(* while the receiver runs, nothing is under way between the two but that    *)
(* packet or its response.                                                   *)
ResponseMatches ==
  ReceiverOpen =>
    /\ ppc = "receive" => pToR = <<>> /\ rToP = <<>>
    /\ ppc = "await" => Len(pToR) + Len(rToP) = 1

(* While the receiver runs, the proxy is at most one packet ahead of what   *)
(* the receiver counted, and the sender took no more answers than that.     *)
BoundedLead ==
  ReceiverOpen => /\ received_data_count <= ack + 1
                  /\ answered <= ack

(* Nothing forwarded is lost or duplicated between the proxy and the        *)
(* receiver: what was printed and what is on its way is what was forwarded. *)
ForwardedOnce ==
  ReceiverOpen => /\ Len(output) + Len(pToR) = received_data_count
                  /\ Len(output) = ack

(* The three programs stay in step, whatever is dropped and sent again:    *)
(* the counters of the proxy, the answers and the prints belong together.  *)
LockStep == StopAndWait /\ ResponseMatches /\ BoundedLead /\ ForwardedOnce

(* The proxy's end of the sender's connection stays open as long as the    *)
(* sender's: it can only die of a receiver that left, and then the process *)
(* that shows the plots still holds the sockets.                           *)
SenderNeverCutOff == ppc = "ended" /\ SenderOpen => forked

SeqsOf(s) == { s[i].seq : i \in 1..Len(s) }

(* A packet the sender is done with is printed, or on its way: it was not   *)
(* dropped without being sent again.                                        *)
NoSilentLoss ==
  ReceiverOpen =>
    \A n \in 1..taken : \/ n \in SeqsOf(output) \cup SeqsOf(pToR) \cup SeqsOf(sToP)
                      \/ buffer.seq = n

(* As long as no draw was unlucky, nothing is given up. *)
NothingGivenUp == unlucky = 0 => NoSilentLoss

(* What the three programs implement: nothing is invented or printed out of *)
(* the order it was submitted in, whatever is lost, repeated or delayed.    *)
LastPrinted == IF output = <<>> THEN 0 ELSE output[Len(output)].seq

Ordered == INSTANCE OrderedDelivery WITH
             submitted <- taken, last <- LastPrinted, deliveries <- Len(output)

OrderedDelivery == Ordered!Spec

-----------------------------------------------------------------------------
(* Liveness *)

(* The read() that nothing ends: select() returned for a line typed ahead, *)
(* and no answer is there or on its way.                                    *)
StuckInRead ==
  /\ spc \in {"read", "fread"}
  /\ fdset = {"stdin"}
  /\ pToS = <<>> /\ sToP = <<>> /\ ppc = "receive"

(* The sender comes back to its user, however the proxy uses its draws,    *)
(* unless a line typed ahead took the timeout of the wait it is in.        *)
SenderComesBack == (spc # "input") ~> (spc \in {"input", "closed"} \/ StuckInRead)

(* A file transfer ends, unless a draw was unlucky and a line typed ahead  *)
(* keeps send_file from sending the chunk again.                           *)
TransferEnds == (chunk # 0) ~> (chunk = 0 \/ (StuckInRead /\ unlucky > 0))

(* Every chunk is printed in the end, if no draw is ever unlucky. *)
AllPrinted == [](unlucky = 0) => <>(1..Len(File) \subseteq SeqsOf(output))

(* What a user of start can expect: the transfer ends but for that case,   *)
(* and if no draw is unlucky nothing is given up on the way and every      *)
(* chunk is printed.                                                       *)
TransferCompletes ==
  /\ []NothingGivenUp
  /\ TransferEnds
  /\ AllPrinted
=============================================================================
