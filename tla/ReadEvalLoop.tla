---------------------------- MODULE ReadEvalLoop ----------------------------
(***************************************************************************)
(* What a shell promises: the lines it is given are carried out one after  *)
(* the other, each once and in order, with a code that is the command's    *)
(* own, until one of them is "exit".                                       *)
(***************************************************************************)
EXTENDS Sequences

CONSTANTS
  Input,          \* the scripts the shell may be given
  Code(_),        \* the codes a line can end with, when it is carried out
  Reliable(_),    \* the line is read as it was written and cannot kill the shell
  AnyCode,        \* the codes there are
  Stray           \* the line read from a buffer nobody wrote, at the end of the input

VARIABLES
  rest,   \* the lines that are not finished
  log,    \* the lines carried out: [word, code, started]
  over    \* "no", "exited", "failed" or "killed"

vars == <<rest, log, over>>

Init == rest \in Input /\ log = <<>> /\ over = "no"

Skip ==
  /\ rest # <<>> /\ Head(rest).word = "blank"
  /\ rest' = Tail(rest)
  /\ UNCHANGED <<log, over>>

(* A command the system could not start shows whatever code. *)
CarryOut(line) ==
  \E code \in AnyCode \cup Code(line), started \in BOOLEAN :
    /\ started /\ Reliable(line) => code \in Code(line)
    /\ log' = Append(log, [word |-> line.word, code |-> code, started |-> started])
    /\ UNCHANGED over

(* The input is nobody's concern any more. *)
End(how) == over' = how /\ rest' = <<>> /\ UNCHANGED log

Next ==
  /\ over = "no"
  /\ \/ Skip
     \/ /\ rest # <<>> /\ Head(rest).word \notin {"blank", "bad", "exit"}
        /\ rest' = Tail(rest)
        /\ CarryOut(Head(rest))
     \/ rest = <<>> /\ UNCHANGED rest /\ CarryOut(Stray)
     \/ rest # <<>> /\ Head(rest).word = "exit" /\ End("exited")
     \/ End("failed")
     \/ (rest # <<>> => ~Reliable(Head(rest))) /\ End("killed")

Spec == Init /\ [][Next]_vars
=============================================================================
