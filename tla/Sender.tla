------------------------------- MODULE Sender -------------------------------
(***************************************************************************)
(* sender.c: a user types lines; a line is sent as one packet, "start"     *)
(* sends a file chunk by chunk, "exit" is sent and ends the program.  The  *)
(* answer awaited is whatever can be read from the proxy's socket: its     *)
(* text is printed and never compared with anything.                       *)
(***************************************************************************)
EXTENDS PacketStreams

CONSTANTS
  Script,   \* the lines the user types: a sequence of "text", "start", "exit"
  File      \* the 256-byte chunks of the files to send: a sequence of Kind

ASSUME SenderAssumption == /\ Script \in Seq({"text", "start", "exit"})
                           /\ File \in Seq(Kind)

VARIABLES
  script,   \* lines the user has not typed yet
  typed,    \* lines typed and not read: fd 0 is readable iff there is one
  spc,      \* where the sender is
  buffer,   \* buffer of main, or of send_file while chunk # 0
  chunk,    \* the chunk of File that send_file is sending, 0 outside it
  fdset,    \* read_fds
  taken,      \* history: packets taken from the user or the file so far
  answered  \* history: answers read from the proxy's socket

senderVars == <<script, typed, spc, buffer, chunk, fdset, taken, answered>>

Fd == {"stdin", "proxy"}

SenderTypeOK ==
  /\ script \in Seq({"text", "start", "exit"})
  /\ typed \in Seq({"text", "start", "exit"})
  /\ spc \in {"connect", "input", "select", "resend", "read",
              "fwrite", "fselect", "fresend", "fread", "closed"}
  /\ buffer \in Packet
  /\ chunk \in 0..Len(File)
  /\ fdset \subseteq Fd
  /\ taken \in Nat
  /\ answered \in Nat

SenderInit ==
  /\ script = Script
  /\ typed = <<>>
  /\ spc = "connect"
  /\ buffer = Empty
  /\ chunk = 0
  /\ fdset = {}
  /\ taken = 0
  /\ answered = 0

-----------------------------------------------------------------------------

(* The user types the next line; nobody has to be waiting for it. *)
Type ==
  /\ script # <<>>
  /\ script' = Tail(script)
  /\ typed' = Append(typed, Head(script))
  /\ UNCHANGED <<spc, buffer, chunk, fdset, taken, answered, streams>>

Ready == fdset \cap ( (IF typed # <<>> THEN {"stdin"} ELSE {})
                 \cup (IF pToS # <<>> THEN {"proxy"} ELSE {}) )

(* write() to the proxy: blocks while the socket buffer is full. *)
WriteToProxy(p) ==
  /\ Len(sToP) < Capacity
  /\ sToP' = Append(sToP, p)

(* The next chunk of the file goes to buffer, from fread() in send_file. *)
LoadChunk(c) ==
  /\ chunk' = c
  /\ taken' = taken + 1
  /\ buffer' = [seq |-> taken + 1, kind |-> File[c]]

(* options_process: connected, the sender reads the proxy's greeting. *)
ReadGreeting ==
  /\ spc = "connect"
  /\ pToS # <<>>
  /\ pToS' = Tail(pToS)
  /\ spc' = "input"
  /\ UNCHANGED <<script, typed, buffer, chunk, fdset, taken, answered, sToP, pToR, rToP>>

(* Top of the main loop with an empty buffer: fgets(), then what the line asks. *)
InputText ==
  /\ spc = "input"
  /\ typed # <<>> /\ Head(typed) = "text"
  /\ typed' = Tail(typed)
  /\ taken' = taken + 1
  /\ buffer' = [seq |-> taken + 1, kind |-> "text"]
  /\ fdset' = Fd
  /\ spc' = "select"
  /\ UNCHANGED <<script, chunk, answered, streams>>

InputStart ==
  /\ spc = "input"
  /\ typed # <<>> /\ Head(typed) = "start"
  /\ typed' = Tail(typed)
  /\ fdset' = Fd
  /\ IF Len(File) = 0
     THEN spc' = "select" /\ UNCHANGED <<taken, buffer, chunk>>
     ELSE spc' = "fwrite" /\ LoadChunk(1)
  /\ UNCHANGED <<script, answered, streams>>

InputExit ==
  /\ spc = "input"
  /\ typed # <<>> /\ Head(typed) = "exit"
  /\ typed' = Tail(typed)
  /\ taken' = taken + 1
  /\ WriteToProxy([seq |-> taken + 1, kind |-> "exit"])
  /\ fdset' = Fd
  /\ spc' = "closed"
  /\ UNCHANGED <<script, buffer, chunk, answered, pToR, rToP, pToS>>

(* select() of main and of send_file: one second without anything to read, *)
(* or some descriptor of the set is readable and the set keeps those only. *)
Timeout(at, to) ==
  /\ spc = at
  /\ Ready = {}
  /\ fdset' = {}
  /\ spc' = to
  /\ UNCHANGED <<script, typed, buffer, chunk, taken, answered, streams>>

SelectReady(at, to) ==
  /\ spc = at
  /\ Ready # {}
  /\ fdset' = Ready
  /\ spc' = to
  /\ UNCHANGED <<script, typed, buffer, chunk, taken, answered, streams>>

(* Fault: the timeout of send_file waits again instead of sending again. *)
FileTimeoutOnly == Timeout("fselect", "fselect")

MainTimeout == Timeout("select", "resend")
MainReady   == SelectReady("select", "read")
FileTimeout == Timeout("fselect", "fresend")
FileReady   == SelectReady("fselect", "fread")

(* main, after a timeout: the buffer is written, an empty one too, and the *)
(* loop starts again, asking for input only if the buffer is empty.        *)
Resend ==
  /\ spc = "resend"
  /\ WriteToProxy(buffer)
  /\ spc' = IF buffer.kind = "blank" THEN "input" ELSE "select"
  /\ fdset' = Fd
  /\ UNCHANGED <<script, typed, buffer, chunk, taken, answered, pToR, rToP, pToS>>

(* read(proxy_socket) blocks until an answer is there, whichever *)
(* descriptor made select() return.                              *)
ReadAnswer ==
  /\ pToS # <<>>
  /\ pToS' = Tail(pToS)
  /\ answered' = answered + 1

Read ==
  /\ spc = "read"
  /\ ReadAnswer
  /\ buffer' = Empty
  /\ fdset' = Fd
  /\ spc' = "input"
  /\ UNCHANGED <<script, typed, chunk, taken, sToP, pToR, rToP>>

(* send_file: the chunk is written at the top of the inner loop, and once  *)
(* more by the branch of the timeout before the loop starts again.         *)
FileWrite ==
  /\ spc = "fwrite"
  /\ WriteToProxy(buffer)
  /\ fdset' = fdset \cup {"proxy"}
  /\ spc' = "fselect"
  /\ UNCHANGED <<script, typed, buffer, chunk, taken, answered, pToR, rToP, pToS>>

FileResend ==
  /\ spc = "fresend"
  /\ WriteToProxy(buffer)
  /\ spc' = "fwrite"
  /\ UNCHANGED <<script, typed, buffer, chunk, fdset, taken, answered, pToR, rToP, pToS>>

(* Fault: send_file returns without leaving the file. *)
FileReadStaysInFile ==
  /\ spc = "fread"
  /\ ReadAnswer
  /\ IF chunk < Len(File)
     THEN spc' = "fwrite" /\ LoadChunk(chunk + 1)
     ELSE spc' = "select" /\ chunk' = chunk + 1 /\ buffer' = Empty /\ UNCHANGED taken
  /\ UNCHANGED <<script, typed, fdset, sToP, pToR, rToP>>

(* An answer: on to the next chunk, or back to main, whose select() uses the *)
(* set that send_file left.                                                  *)
FileRead ==
  /\ spc = "fread"
  /\ ReadAnswer
  /\ IF chunk < Len(File)
     THEN spc' = "fwrite" /\ LoadChunk(chunk + 1)
     ELSE spc' = "select" /\ chunk' = 0 /\ buffer' = Empty /\ UNCHANGED taken
  /\ UNCHANGED <<script, typed, fdset, sToP, pToR, rToP>>

SenderStep ==
  \/ ReadGreeting
  \/ InputText \/ InputStart \/ InputExit
  \/ MainTimeout \/ MainReady \/ Resend \/ Read
  \/ FileWrite \/ FileTimeout \/ FileReady \/ FileResend \/ FileRead
=============================================================================
