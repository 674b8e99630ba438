--------------------------- MODULE PacketStreams ---------------------------
(***************************************************************************)
(* The four byte streams of the COMP7005 project: sender -> proxy ->       *)
(* receiver for data, receiver -> proxy -> sender for acknowledgements.    *)
(*                                                                         *)
(* Every data write is write(fd, buffer, sizeof(buffer)): 256 bytes, read  *)
(* back 256 at a time, so a data stream is a sequence of packets.          *)
(*                                                                         *)
(* The acknowledgement streams start with a greeting, which the other end  *)
(* reads alone, with a read of its own, before it sends anything; every    *)
(* answer that follows is 256 bytes long and is read 256 bytes at a time,  *)
(* so such a stream is a sequence of answers behind a greeting.            *)
(***************************************************************************)
EXTENDS Integers, Sequences

CONSTANT Capacity    \* packets the sender's socket buffer holds: write() blocks above

ASSUME CapacityAssumption == Capacity \in Nat \ {0}

VARIABLES
  sToP,   \* packets written by the sender, not yet read by the proxy
  pToR,   \* packets written by the proxy, not yet read by the receiver
  rToP,   \* greeting and answers written by the receiver, not yet read by the proxy
  pToS    \* greeting and answers written by the proxy, not yet read by the sender

streams == <<sToP, pToR, rToP, pToS>>

(* What a 256-byte packet holds, as far as the programs look at it: "blank" *)
(* has strlen() 0, "exit" has the word exit in it, "text" is anything else. *)
Kind   == {"text", "blank", "exit"}
Packet == [seq : Nat, kind : Kind]
Empty  == [seq |-> 0, kind |-> "blank"]

(* What an answer says is printed and never compared with anything. *)
Unit   == {"greeting", "answer"}

StreamsTypeOK ==
  /\ sToP \in Seq(Packet)
  /\ pToR \in Seq(Packet)
  /\ rToP \in Seq(Unit)
  /\ pToS \in Seq(Unit)

StreamsInit ==
  /\ sToP = <<>>
  /\ pToR = <<>>
  /\ rToP = <<>>
  /\ pToS = <<>>
=============================================================================
