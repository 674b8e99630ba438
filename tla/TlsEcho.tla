------------------------------ MODULE TlsEcho ------------------------------
(***************************************************************************)
(* The echo client and server of COMP7005 assignment 3.  The server serves *)
(* one connection after the other and answers each message with its upper  *)
(* case; a client that is told "start" first sends its file in messages of *)
(* one buffer each, and reads no answer before everything is written.      *)
(*                                                                         *)
(* Every message is one buffer of 256 bytes on the wire, whatever it       *)
(* holds.  A client's messages are numbered: the chunks of its file, and   *)
(* then its line.                                                          *)
(***************************************************************************)
EXTENDS Integers, Sequences, FiniteSets

CONSTANTS
  Clients,
  Chunks,     \* number of chunks of each client's file; -1 if it cannot be opened
  Lines,      \* what a user may type: "start", "other", "end" for the end of the input
  Sizes,      \* values, in messages, of the uninitialised file_size
  Room        \* messages that the buffers of a connection hold in each direction

NoClient == "none"

ASSUME EchoAssumption ==
  /\ NoClient \notin Clients
  /\ Chunks \in [Clients -> Nat \cup {-1}]
  /\ Lines \subseteq {"start", "other", "end"}
  /\ Sizes \subseteq Int
  /\ Room \in Nat \ {0}

VARIABLES
  at,           \* client: "new", "queued", "connected", "sending", "reading", "done", "crashed"
  toSend,       \* messages still to be written, as a number, by client
  written,      \* messages written by client
  file_size,    \* messages the client waits for
  up, down,     \* what is in flight of the connection of a client
  echoed,       \* answers the client printed
  serving,      \* the client served, or NoClient
  answer,       \* what the server holds between its read and its write
  backlog       \* connections not accepted yet

echoVars == <<at, toSend, written, file_size, up, down, echoed, serving, answer, backlog>>

Upper(message) == <<"upper", message>>

EchoInit ==
  /\ at = [c \in Clients |-> "new"]
  /\ toSend = [c \in Clients |-> 0] /\ written = [c \in Clients |-> 0]
  /\ file_size = [c \in Clients |-> 0]
  /\ up = [c \in Clients |-> << >>] /\ down = [c \in Clients |-> << >>]
  /\ echoed = [c \in Clients |-> << >>]
  /\ serving = NoClient /\ answer = << >> /\ backlog = << >>

Closed(c) == at[c] \in {"done", "crashed"}

(* connect(): the kernel queues the connection; SSL_connect then waits for *)
(* the server.                                                             *)
Connect(c) ==
  /\ at[c] = "new"
  /\ at' = [at EXCEPT ![c] = "queued"] /\ backlog' = Append(backlog, c)
  /\ UNCHANGED <<toSend, written, file_size, up, down, echoed, serving, answer>>

(* The main loop of the server, and the handshake.                         *)
Accept ==
  /\ serving = NoClient /\ backlog # << >>
  /\ serving' = Head(backlog) /\ backlog' = Tail(backlog)
  /\ at' = [at EXCEPT ![Head(backlog)] = "connected"]
  /\ UNCHANGED <<toSend, written, file_size, up, down, echoed, answer>>

(* The user types a line.  "start" sends the file first, whose size is     *)
(* what the client then waits for; without it file_size was never set.     *)
TypeLine(c, line, size) ==
  /\ at[c] = "connected"
  /\ IF line = "start" /\ Chunks[c] = -1 THEN at' = [at EXCEPT ![c] = "crashed"]
     ELSE at' = [at EXCEPT ![c] = IF line = "end" THEN "reading" ELSE "sending"]
  /\ toSend' = [toSend EXCEPT ![c] = CASE line = "start" -> Chunks[c] + 1
                                       [] line = "other" -> 1
                                       [] line = "end" -> 0]
  /\ file_size' = [file_size EXCEPT ![c] = IF line = "start" THEN Chunks[c] ELSE size]
  /\ UNCHANGED <<written, up, down, echoed, serving, answer, backlog>>

(* SSL_write: it blocks while the buffers of the connection are full.      *)
ClientWrite(c) ==
  /\ at[c] = "sending" /\ Len(up[c]) < Room
  /\ written' = [written EXCEPT ![c] = @ + 1]
  /\ up' = [up EXCEPT ![c] = Append(@, written[c] + 1)]
  /\ at' = [at EXCEPT ![c] = IF written[c] + 1 = toSend[c] THEN "reading" ELSE "sending"]
  /\ UNCHANGED <<toSend, file_size, down, echoed, serving, answer, backlog>>

(* The client prints an answer, and stops when it has the size of a file.  *)
ClientRead(c) ==
  /\ at[c] = "reading" /\ down[c] # << >>
  /\ echoed' = [echoed EXCEPT ![c] = Append(@, Head(down[c]))]
  /\ down' = [down EXCEPT ![c] = Tail(@)]
  /\ at' = [at EXCEPT ![c] = IF Len(echoed[c]) + 1 >= file_size[c] THEN "done" ELSE "reading"]
  /\ UNCHANGED <<toSend, written, file_size, up, serving, answer, backlog>>

(* Servlet: read a message, change its letters, write it back.             *)
ServerRead ==
  /\ serving # NoClient /\ answer = << >> /\ up[serving] # << >>
  /\ answer' = Upper(Head(up[serving]))
  /\ up' = [up EXCEPT ![serving] = Tail(@)]
  /\ UNCHANGED <<at, toSend, written, file_size, down, echoed, serving, backlog>>

(* Fault: a write that does not block, and does not look at its result.    *)
ServerWriteUnblocked ==
  /\ serving # NoClient /\ answer # << >>
  /\ down' = IF Closed(serving) \/ Len(down[serving]) = Room THEN down
             ELSE [down EXCEPT ![serving] = Append(@, answer)]
  /\ answer' = << >>
  /\ UNCHANGED <<at, toSend, written, file_size, up, echoed, serving, backlog>>
ServerWrite ==
  /\ serving # NoClient /\ answer # << >>
  /\ Closed(serving) \/ Len(down[serving]) < Room
  /\ down' = IF Closed(serving) THEN down ELSE [down EXCEPT ![serving] = Append(@, answer)]
  /\ answer' = << >>
  /\ UNCHANGED <<at, toSend, written, file_size, up, echoed, serving, backlog>>

(* SSL_read finds the connection closed: the next one is accepted.         *)
ServerEnds ==
  /\ serving # NoClient /\ answer = << >> /\ Closed(serving) /\ up[serving] = << >>
  /\ serving' = NoClient
  /\ UNCHANGED <<at, toSend, written, file_size, up, down, echoed, answer, backlog>>

ClientStep(c) ==
  \/ Connect(c) \/ ClientWrite(c) \/ ClientRead(c)
  \/ \E line \in Lines, size \in Sizes : TypeLine(c, line, size)
ServerStep == Accept \/ ServerRead \/ ServerWrite \/ ServerEnds

EchoNext == (\E c \in Clients : ClientStep(c)) \/ ServerStep
EchoSpec == EchoInit /\ [][EchoNext]_echoVars

(* Users type and the programs run on.                                     *)
EchoFair == (\A c \in Clients : WF_echoVars(ClientStep(c))) /\ WF_echoVars(ServerStep)

-----------------------------------------------------------------------------

EchoTypeOK ==
  /\ \A c \in Clients : Len(up[c]) <= Room /\ Len(down[c]) <= Room /\ written[c] <= toSend[c]
  /\ serving \in Clients \cup {NoClient}
  /\ serving = NoClient => answer = << >>

(* A client prints the upper case of its messages in order, each once, and *)
(* while it is served nothing of a connection is lost or made up.          *)
UpperOf(from, to) == [n \in 1 .. to - from + 1 |-> Upper(from + n - 1)]
EchoInOrder ==
  \A c \in Clients :
    LET here == IF serving = c /\ answer # << >> THEN <<answer>> ELSE << >>
    IN /\ echoed[c] = UpperOf(1, Len(echoed[c]))
       /\ ~Closed(c) =>
            /\ echoed[c] \o down[c] \o here = UpperOf(1, written[c] - Len(up[c]))
            /\ up[c] = [n \in 1 .. Len(up[c]) |-> written[c] - Len(up[c]) + n]
       /\ serving # c /\ at[c] \notin {"done", "crashed"} => up[c] = << >> /\ down[c] = << >>

(* A client and the server wait for each other: both write and neither     *)
(* reads, or the client waits for more answers than it has messages.       *)
Blocked(c) ==
  /\ serving = c /\ ~Closed(c)
  /\ \/ at[c] = "sending" /\ Len(up[c]) = Room /\ Len(down[c]) = Room /\ answer # << >>
     \/ at[c] = "reading" /\ up[c] = << >> /\ down[c] = << >> /\ answer = << >>

(* Every client comes to an end unless the one that is served and the      *)
(* server wait for each other, and that happens only to a client whose     *)
(* file does not fit into the buffers, whose input had ended, or whose     *)
(* file_size was never set.                                                *)
Fits(c) == Chunks[c] + 1 <= 2 * Room + 1
EchoEnds ==
  <>[](\/ \A c \in Clients : Closed(c)
       \/ \E c \in Clients : Blocked(c) /\ ~(at[c] = "sending" /\ Fits(c))
                             /\ ~(at[c] = "reading" /\ toSend[c] > 0 /\ file_size[c] <= toSend[c]))

=============================================================================
