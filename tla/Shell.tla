------------------------------- MODULE Shell --------------------------------
(***************************************************************************)
(* dc_shell: shell.c's table of transitions, the functions of shell_impl.c *)
(* that it runs, what command.c makes of a line, and the child of          *)
(* execute.c that carries it out.  The shell reads its input through       *)
(* stdio: from a terminal line by line, from a pipe or a file as much as   *)
(* there is, ahead of what it carries out.                                 *)
(*                                                                         *)
(* A line is its command part, wordexp() having been applied, and its      *)
(* redirections in the order they are written.  Each of err_func, out_func *)
(* and in_func cuts the rest of the line from the first redirection of its *)
(* own and takes all of that for one file name, so they find each other's  *)
(* only in the order < > 2>.                                               *)
(*                                                                         *)
(* The child starts with a copy of the shell: the command, the pending     *)
(* error, and the characters of stdout the shell has not flushed yet.      *)
(***************************************************************************)
EXTENDS Naturals, Sequences, FiniteSetsExt

-----------------------------------------------------------------------------
(* A line and its command: command.c *)

CONSTANTS
  Programs,   \* names of programs, found or not
  Files,      \* names of files
  Shorn,      \* Shorn[f] is f without its first letter
  Garbage,    \* a name or a word read from memory nobody wrote
  Null

ASSUME CommandsAssumption ==
  /\ Garbage \notin Programs \cup Files /\ Null \notin Programs \cup Files \cup {Garbage}
  /\ {Garbage, Null} \cap {"cd", "exit"} = {}
  /\ (Programs \cup {Garbage, Null}) \cap {"blank", "bad"} = {}
  /\ Shorn \in [Files -> Files]

Words == Programs \cup {Garbage, "cd", "exit"}
Names == Files \cup {Garbage}

(* "> f" and ">f": tight says that no blank follows the arrow. *)
Redirections == [op : {"<", ">", ">>", "2>", "2>>"}, file : Files, tight : BOOLEAN]

(* "bad": wordexp() refuses the words, or they expand to none. *)
Lines == [word : Words \cup {"blank", "bad", Null}, redirs : Seq(Redirections)]

Blank   == [word |-> "blank", redirs |-> <<>>]

(* What a user types: a line without a word has no redirections either.    *)
TypedLines ==
  {line \in Lines : line.word \notin {Garbage, Null} /\ (line.word = "blank" => line = Blank)}

(* Lines nobody wrote: some word, or something wordexp() refuses. *)
Unknown == [word |-> Garbage, redirs |-> <<>>]
Strays  == {Unknown, [word |-> Null, redirs |-> <<>>]}

NoCommand == [word |-> Null, stdin_file |-> Null, stdout_file |-> Null, stdout_overwrite |-> FALSE,
              stderr_file |-> Null, stderr_overwrite |-> FALSE, exit_code |-> 0]

FirstOf(redirs, ops) == Min({i \in 1..Len(redirs) : redirs[i].op \in ops} \cup {Len(redirs) + 1})
Rest(redirs, ops)    == SubSeq(redirs, FirstOf(redirs, ops), Len(redirs))
Before(redirs, ops)  == SubSeq(redirs, 1, FirstOf(redirs, ops) - 1)

(* The name after the arrow.  wordexp() refuses one with an arrow in it and *)
(* its result is used anyway; "[ ]>" is taken to be three characters long.  *)
NameAfter(part) ==
  CASE Len(part) = 0 -> Null
    [] Len(part) > 1 -> Garbage
    [] OTHER -> IF part[1].tight /\ part[1].op \in {">", ">>"}
                THEN Shorn[part[1].file] ELSE part[1].file

Doubled(part) == \E i \in 1..Len(part) : part[i].op \in {">>", "2>>"}

ParseCommand(line) ==
  LET err == Rest(line.redirs, {"2>", "2>>"})
      before_err == Before(line.redirs, {"2>", "2>>"})
      out == Rest(before_err, {">", ">>"})
      in  == Rest(Before(before_err, {">", ">>"}), {"<"})
  IN [NoCommand EXCEPT !.word = IF line.word = "bad" THEN Null ELSE line.word,
                       !.stdin_file = NameAfter(in),
                       !.stdout_file = NameAfter(out), !.stdout_overwrite = Doubled(out),
                       !.stderr_file = NameAfter(err), !.stderr_overwrite = Doubled(err)]

Commands == [word : Words \cup {Null}, stdin_file : Names \cup {Null},
             stdout_file : Names \cup {Null}, stdout_overwrite : BOOLEAN,
             stderr_file : Names \cup {Null}, stderr_overwrite : BOOLEAN, exit_code : Nat]

(* A name was read from memory nobody wrote: the read itself may be fatal. *)
Mangled(command) == Garbage \in {command.stdin_file, command.stdout_file, command.stderr_file}

(* The lines the tests of command.c are about: every redirection once, in  *)
(* the order < > 2>, and a blank after > and >>.                           *)
WellFormed(line) ==
  /\ line.word \in Words \ {Garbage}
  /\ \A i \in 1..Len(line.redirs) : line.redirs[i].op \in {">", ">>"} => ~line.redirs[i].tight
  /\ LET rank(op) == CASE op = "<" -> 1 [] op \in {">", ">>"} -> 2 [] op \in {"2>", "2>>"} -> 3
     IN \A i, j \in 1..Len(line.redirs) :
          i < j => rank(line.redirs[i].op) < rank(line.redirs[j].op)

-----------------------------------------------------------------------------
(* The child: execute.c *)

CONSTANTS
  Tries,       \* Tries[p]: what execv() answers in each directory of PATH
  Codes,       \* the codes programs end with
  Unwritable,  \* files that cannot be opened for writing
  Disks        \* what the files may hold at first

Errors == {"E2BIG", "EACCES", "EINVAL", "ELOOP", "ENAMETOOLONG", "ENOENT",
           "ENOTDIR", "ENOEXEC", "ENOMEM", "ETXTBSY", "other"}

ASSUME ExecuteAssumption ==
  /\ Tries \in [Programs -> Seq(Errors \cup {"ok"})]
  /\ Codes \subseteq Nat
  /\ Unwritable \subseteq Files
  /\ Disks \subseteq [Names -> Seq(Nat) \cup {Null}]

VARIABLES
  child,   \* the process execute() waits for, or Null
  files    \* the numbers of the commands whose output is in the file, or Null

Children == [pc : {"redirect", "run", "program", "exited", "signalled"}, command : Commands,
             number : Nat, error : BOOLEAN, unflushed : BOOLEAN, code : Nat]

ExecuteTypeOK ==
  /\ child \in Children \cup {Null}
  /\ files \in [Names -> Seq(Nat) \cup {Null}]

Born(command, number, error, unflushed) ==
  [pc |-> "redirect", command |-> command, number |-> number, error |-> error,
   unflushed |-> unflushed, code |-> 0]

At(pc) == child # Null /\ child.pc = pc

Exit(code) == child' = [child EXCEPT !.pc = "exited", !.code = code]

(* Fault: overwrite is taken at its word. *)
OpenedSwapped(fs, name, keep) ==
  IF name \in Unwritable \cup {Null} \/ (~keep /\ fs[name] # Null) THEN fs
  ELSE [fs EXCEPT ![name] = <<>>]

(* dc_open() of an output: created or emptied, unless the arrow is doubled. *)
Opened(fs, name, keep) ==
  IF name \in Unwritable \cup {Null} \/ (keep /\ fs[name] # Null) THEN fs
  ELSE [fs EXCEPT ![name] = <<>>]

Written(fs, name) ==
  IF name = Null THEN fs ELSE [fs EXCEPT ![name] = Append(@, child.number)]

(* redirect(): an error does not stop the other files from being opened. *)
Redirect ==
  /\ At("redirect")
  /\ LET c == child.command
         fails == \/ child.error
                  \/ c.stdin_file # Null /\ files[c.stdin_file] = Null
                  \/ {c.stdin_file, c.stdout_file, c.stderr_file} \cap Unwritable # {}
     IN /\ files' = Opened(Opened(files, c.stdout_file, c.stdout_overwrite),
                           c.stderr_file, c.stderr_overwrite)
        /\ IF fails THEN Exit(126) ELSE child' = [child EXCEPT !.pc = "run"]

(* run(): the directories in turn, until one does not say ENOENT. *)
Search(program) ==
  LET tries == IF program = Garbage THEN <<>> ELSE Tries[program]
      told == {i \in 1..Len(tries) : tries[i] # "ENOENT"}
  IN IF told = {} THEN "ENOENT" ELSE tries[Min(told)]

(* Fault: a code as execv() returns it. *)
ErrorCodeOfExec(error) == 0 - 1

(* handle_run_error() *)
ErrorCode(error) ==
  CASE error = "E2BIG" -> 1 [] error = "EACCES" -> 2 [] error = "EINVAL" -> 3
    [] error = "ELOOP" -> 4 [] error = "ENAMETOOLONG" -> 5 [] error = "ENOENT" -> 127
    [] error = "ENOTDIR" -> 6 [] error = "ENOEXEC" -> 7 [] error = "ENOMEM" -> 8
    [] error = "ETXTBSY" -> 9 [] OTHER -> 125

RunProgram ==
  /\ At("run")
  /\ Search(child.command.word) = "ok"
  /\ child' = [child EXCEPT !.pc = "program"]
  /\ UNCHANGED files

RunFails ==
  /\ At("run")
  /\ Search(child.command.word) # "ok"
  /\ files' = IF ErrorCode(Search(child.command.word)) = 125 THEN files   \* says nothing
              ELSE Written(files, child.command.stderr_file)
  /\ Exit(ErrorCode(Search(child.command.word)))

(* The program prints what it has to say and ends with a code of its own. *)
ProgramEnds(code) ==
  /\ At("program")
  /\ files' = Written(files, child.command.stdout_file)
  /\ Exit(code)

(* A signal ends the child at any point. *)
Signalled ==
  /\ child # Null /\ child.pc \notin {"exited", "signalled"}
  /\ child' = [child EXCEPT !.pc = "signalled"]
  /\ UNCHANGED files

(* What may come of a program, zero standing for a signal too: its own codes *)
(* if the first directory that knows it can run it, or what is wrong there.  *)
Outcomes(word) ==
  LET tries == IF word = Garbage THEN <<>> ELSE Tries[word]
      known == {tries[i] : i \in {i \in 1..Len(tries) :
                  tries[i] # "ENOENT" /\ \A j \in 1..i-1 : tries[j] = "ENOENT"}}
      answers == IF known = {} THEN {"ENOENT"} ELSE known
  IN {0} \cup (IF "ok" \in answers THEN Codes ELSE {})
         \cup {ErrorCode(answer) : answer \in answers \ {"ok"}}

-----------------------------------------------------------------------------
(* The shell *)

CONSTANTS
  Scripts,   \* what the user may type, or the file or pipe may hold
  Inputs,    \* kinds of stdin: "terminal", "pipe", "file"
  Outputs,   \* kinds of stdout: "terminal", "other"
  MaxLog     \* bound: commands carried out, for an input that comes again

ASSUME ShellAssumption ==
  /\ Scripts \subseteq Seq(TypedLines) /\ MaxLog \in Nat
  /\ Inputs \subseteq {"terminal", "pipe", "file"} /\ Outputs \subseteq {"terminal", "other"}

VARIABLES
  session,        \* script, kind of stdin and kind of stdout, chosen once
  offset,         \* lines read from stdin: the kernel's, shared with the child
  buffered,       \* lines read from stdin and not handed out yet
  unflushed,      \* some of what the shell printed is still in its buffer
  repeated,       \* history: a child has written the shell's buffer as well
  current_line,   \* struct state: the line, Null before and after
  command,        \* struct state: the command, Null before and after
  fatal_error,    \* struct state
  error,          \* dc_error_has_error()
  crashed,        \* the shell was ended by a signal of its own making
  from_id, to_id, \* the state machine
  log             \* history: the commands carried out

io    == <<offset, buffered, unflushed, repeated>>
state == <<current_line, command, fatal_error, error>>
vars  == <<session, io, state, crashed, from_id, to_id, log, child, files>>

Row(from, to, perform) == [from |-> from, to |-> to, perform |-> perform]

Table == {
  Row("DC_FSM_INIT",       "INIT_STATE",        "init_state"),
  Row("INIT_STATE",        "READ_COMMANDS",     "read_commands"),
  Row("INIT_STATE",        "ERROR",             "handle_error"),
  Row("READ_COMMANDS",     "RESET_STATE",       "reset_state"),
  Row("READ_COMMANDS",     "SEPARATE_COMMANDS", "separate_commands"),
  Row("READ_COMMANDS",     "ERROR",             "handle_error"),
  Row("SEPARATE_COMMANDS", "PARSE_COMMANDS",    "parse_commands"),
  Row("SEPARATE_COMMANDS", "ERROR",             "handle_error"),
  Row("PARSE_COMMANDS",    "EXECUTE_COMMANDS",  "execute_commands"),
  Row("PARSE_COMMANDS",    "ERROR",             "handle_error"),
  Row("EXECUTE_COMMANDS",  "RESET_STATE",       "reset_state"),
  Row("EXECUTE_COMMANDS",  "EXIT",              "do_exit"),
  Row("EXECUTE_COMMANDS",  "ERROR",             "handle_error"),
  Row("RESET_STATE",       "READ_COMMANDS",     "read_commands"),
  Row("EXIT",              "DESTROY_STATE",     "destroy_state"),
  Row("ERROR",             "RESET_STATE",       "reset_state"),
  Row("ERROR",             "DESTROY_STATE",     "destroy_state")}

Machine == INSTANCE StateMachine WITH Transitions <- Table, UserStart <- "INIT_STATE"

In(function) == ~crashed /\ Machine!In(function)
Return(next) == Machine!Return(next) /\ UNCHANGED <<session, crashed>>

States == {"DC_FSM_INIT", "INIT_STATE", "READ_COMMANDS", "SEPARATE_COMMANDS", "PARSE_COMMANDS",
           "EXECUTE_COMMANDS", "EXIT", "RESET_STATE", "ERROR", "DESTROY_STATE", "DC_FSM_EXIT"}

Entries == [word : Words, code : Nat, started : BOOLEAN]

(* Every variable has its type. *)
TypeOK ==
  /\ session \in [script : Scripts, in : Inputs, out : Outputs]
  /\ offset \in 0..Len(session.script) /\ buffered \in Seq(Lines)
  /\ {unflushed, repeated, fatal_error, error, crashed} \subseteq BOOLEAN
  /\ current_line \in Lines \cup {Null} /\ command \in Commands \cup {Null}
  /\ from_id \in States /\ to_id \in States
  /\ log \in Seq(Entries)
  /\ ExecuteTypeOK

(* struct state and the error are zero where run_shell() starts; the first *)
(* function, init_state(), sets them before anything reads them.           *)
Init ==
  /\ session \in [script : Scripts, in : Inputs, out : Outputs]
  /\ offset = 0 /\ buffered = <<>> /\ unflushed = FALSE /\ repeated = FALSE
  /\ current_line = Null /\ command = Null /\ fatal_error = FALSE /\ error = FALSE
  /\ crashed = FALSE /\ log = <<>>
  /\ Machine!MachineInit
  /\ child = Null
  /\ files \in Disks

Crash ==
  /\ crashed' = TRUE
  /\ UNCHANGED <<session, io, state, from_id, to_id, log, child, files>>

-----------------------------------------------------------------------------

init_state ==
  /\ In("init_state")
  /\ current_line' = Null /\ command' = Null
  /\ Return("READ_COMMANDS")
  /\ UNCHANGED <<io, fatal_error, error, log, child, files>>

(* dc_getline(): what is left of the last read(), or the next one. *)
Fetched ==
  IF buffered # <<>> THEN buffered
  ELSE SubSeq(session.script, offset + 1,
              IF session.in = "terminal" /\ offset < Len(session.script)
              THEN offset + 1 ELSE Len(session.script))

(* stdio flushes a terminal's stdout before it waits for a terminal's stdin. *)
Interactive == session.in = "terminal" /\ session.out = "terminal"

TakeLine(line) ==
  /\ In("read_commands") /\ ~error
  /\ Len(log) < MaxLog
  /\ unflushed' = ~Interactive
  /\ fatal_error' = FALSE
  /\ current_line' = line
  /\ Return(IF line = Blank THEN "RESET_STATE" ELSE "SEPARATE_COMMANDS")
  /\ UNCHANGED <<repeated, command, error, log, child, files>>

(* Fault: the rest of what was read is thrown away with the line. *)
ReadLineUnbuffered ==
  /\ Fetched # <<>>
  /\ TakeLine(Head(Fetched))
  /\ buffered' = <<>>
  /\ offset' = IF buffered = <<>> THEN offset + Len(Fetched) ELSE offset

ReadLine ==
  /\ Fetched # <<>>
  /\ TakeLine(Head(Fetched))
  /\ buffered' = Tail(Fetched)
  /\ offset' = IF buffered = <<>> THEN offset + Len(Fetched) ELSE offset

(* At the end of the input no error is raised; the buffer, a byte of fresh *)
(* memory, was not written and holds some line or none.                    *)
ReadNothing ==
  /\ Fetched = <<>>
  /\ \E line \in {Blank} \cup Strays : TakeLine(line)
  /\ UNCHANGED <<offset, buffered>>

(* The working directory is gone, there is no memory, or stdin fails. *)
ReadFails ==
  /\ In("read_commands") /\ ~error
  /\ error' = TRUE /\ fatal_error' = TRUE
  /\ unflushed' \in {unflushed, ~Interactive}
  /\ Return("ERROR")
  /\ UNCHANGED <<offset, buffered, repeated, current_line, command, log, child, files>>

separate_commands ==
  /\ In("separate_commands")
  /\ command' = NoCommand
  /\ Return("PARSE_COMMANDS")
  /\ UNCHANGED <<io, current_line, fatal_error, error, log, child, files>>

(* There is no memory for the command, or for its line. *)
SeparateFails ==
  /\ In("separate_commands")
  /\ command' \in {Null, NoCommand}
  /\ error' = TRUE /\ fatal_error' = TRUE
  /\ Return("ERROR")
  /\ UNCHANGED <<io, current_line, log, child, files>>

parse_commands ==
  /\ In("parse_commands")
  /\ command' = ParseCommand(current_line)
  /\ Return("EXECUTE_COMMANDS")
  /\ UNCHANGED <<io, current_line, fatal_error, error, log, child, files>>

(* wrd_process() reads the word list of a wordexp() that failed. *)
ParseCrashes ==
  /\ In("parse_commands")
  /\ Mangled(ParseCommand(current_line))
  /\ Crash

-----------------------------------------------------------------------------

(* The end of execute_commands(): the code is printed. *)
Finish(code, started) ==
  /\ log' = Append(log, [word |-> command.word, code |-> code, started |-> started])
  /\ command' = [command EXCEPT !.exit_code = code]
  /\ unflushed' = (session.out # "terminal")
  /\ Return(IF fatal_error THEN "ERROR" ELSE "RESET_STATE")
  /\ UNCHANGED <<offset, buffered, repeated, current_line, fatal_error>>

(* strcmp() with the null pointer of a line wordexp() had no word for. *)
ExecuteCrashes ==
  /\ In("execute_commands")
  /\ command.word = Null
  /\ Crash

(* builtin_cd(): the error stays raised when chdir() fails. *)
ChangeDirectory ==
  /\ In("execute_commands")
  /\ command.word = "cd"
  /\ \E fails \in BOOLEAN :
       /\ error' = fails
       /\ Finish(IF fails THEN 1 ELSE 0, TRUE)
  /\ UNCHANGED <<child, files>>

ExitCommand ==
  /\ In("execute_commands")
  /\ command.word = "exit"
  /\ Return("EXIT")
  /\ UNCHANGED <<io, state, log, child, files>>

Fork ==
  /\ In("execute_commands")
  /\ command.word \notin {Null, "cd", "exit"}
  /\ child = Null
  /\ child' = Born(command, Len(log) + 1, error, unflushed)
  /\ UNCHANGED <<session, io, state, crashed, from_id, to_id, log, files>>

(* fork() fails: waitpid() has nobody to wait for and status was never set: *)
(* whatever it holds is printed.                                            *)
ForkFails ==
  /\ In("execute_commands")
  /\ command.word \notin {Null, "cd", "exit"}
  /\ child = Null
  /\ \E code \in Codes \cup {0} : Finish(code, FALSE)
  /\ UNCHANGED <<error, child, files>>

(* Fault: only a child that ended by itself is waited for. *)
WaitExited ==
  /\ In("execute_commands")
  /\ At("exited")
  /\ Finish(child.code, TRUE)
  /\ child' = Null
  /\ UNCHANGED <<error, files>>

(* waitpid(): the code of a child that was ended by a signal stays zero. *)
Wait ==
  /\ In("execute_commands")
  /\ At("exited") \/ At("signalled")
  /\ Finish(IF At("exited") THEN child.code ELSE command.exit_code, TRUE)
  /\ child' = Null
  /\ UNCHANGED <<error, files>>

-----------------------------------------------------------------------------

(* Fault: dc_error_reset() is left out. *)
ResetKeepsError ==
  /\ current_line' = Null /\ command' = Null
  /\ fatal_error' = FALSE /\ UNCHANGED error

(* do_reset_state() *)
Reset ==
  /\ current_line' = Null /\ command' = Null
  /\ fatal_error' = FALSE /\ error' = FALSE

reset_state ==
  /\ In("reset_state")
  /\ Reset
  /\ Return("READ_COMMANDS")
  /\ UNCHANGED <<io, log, child, files>>

do_exit ==
  /\ In("do_exit")
  /\ Reset
  /\ Return("DESTROY_STATE")
  /\ UNCHANGED <<io, log, child, files>>

handle_error ==
  /\ In("handle_error")
  /\ Return(IF fatal_error THEN "DESTROY_STATE" ELSE "RESET_STATE")
  /\ UNCHANGED <<io, state, log, child, files>>

destroy_state ==
  /\ In("destroy_state")
  /\ fatal_error' = FALSE /\ current_line' = Null
  /\ command' = IF command = Null THEN Null ELSE NoCommand
  /\ Return("DC_FSM_EXIT")
  /\ UNCHANGED <<io, error, log, child, files>>

-----------------------------------------------------------------------------

(* A child that ends by exit() writes the buffer it inherited, and may put *)
(* the offset of a file back to where the shell's reader is (the C library *)
(* does so for the part of stdin that was read and not used).              *)
LeaveByExit ==
  /\ repeated' = (repeated \/ child.unflushed)
  /\ offset' \in {offset}
                 \cup (IF session.in = "file" THEN {offset - Len(buffered)} \cap Nat ELSE {})
  /\ UNCHANGED <<buffered, unflushed>>

ChildStep ==
  /\ \/ Redirect /\ IF child'.pc = "exited" THEN LeaveByExit ELSE UNCHANGED io
     \/ RunProgram /\ UNCHANGED io
     \/ RunFails /\ LeaveByExit
     \/ (\E code \in Codes : ProgramEnds(code)) /\ UNCHANGED io
     \/ Signalled /\ UNCHANGED io
  /\ UNCHANGED <<session, state, crashed, from_id, to_id, log>>

ShellStep ==
  \/ init_state \/ ReadLine \/ ReadNothing \/ ReadFails
  \/ separate_commands \/ SeparateFails \/ parse_commands \/ ParseCrashes
  \/ ExecuteCrashes \/ ChangeDirectory \/ ExitCommand \/ Fork \/ ForkFails \/ Wait
  \/ reset_state \/ do_exit \/ handle_error \/ destroy_state

Next == ShellStep \/ ChildStep

Spec == Init /\ [][Next]_vars

(* The shell runs on, and so does what it started: a program that never    *)
(* ends keeps its shell waiting by right.                                  *)
FairSpec == Spec /\ WF_vars(ShellStep) /\ WF_vars(ChildStep)

-----------------------------------------------------------------------------
(* What the shell promises, seen from its state: the line in hand is done  *)
(* with when its code is printed, and the rest is what stdio and the       *)
(* kernel still hold.                                                      *)
InHand == to_id \in {"SEPARATE_COMMANDS", "PARSE_COMMANDS", "EXECUTE_COMMANDS"}

Over == CASE crashed -> "killed"
          [] ~crashed /\ error /\ to_id \in {"ERROR", "DESTROY_STATE", "DC_FSM_EXIT"} -> "failed"
          [] ~crashed /\ ~error /\ to_id \in {"EXIT", "DESTROY_STATE", "DC_FSM_EXIT"} -> "exited"
          [] OTHER -> "no"

Unfinished ==
  IF Over # "no" THEN <<>>
  ELSE (IF InHand /\ current_line \notin Strays THEN <<current_line>> ELSE <<>>)
       \o buffered \o SubSeq(session.script, offset + 1, Len(session.script))

Ends(line) ==
  IF line.word = "cd" THEN {0, 1}
  ELSE Outcomes(line.word) \cup (IF line.redirs # <<>> THEN {126} ELSE {})

Reliable(line) == line = Blank \/ WellFormed(line)

Promise == INSTANCE ReadEvalLoop WITH
  Input <- Scripts, Code <- Ends, Reliable <- Reliable, Stray <- Unknown,
  AnyCode <- Codes \cup {0, 1, 126, 127}, rest <- Unfinished, log <- log, over <- Over

(* The lines are carried out once each, in order, with a code of their own *)
(* command; the shell ends by "exit", by a fatal error, or on a line that  *)
(* command.c cannot take apart (READ_COMMANDS ... DESTROY_STATE).          *)
ReadEvalLoop == Promise!Spec

(* Whatever the functions of shell_impl.c return is a row of shell.c's     *)
(* table: fsm_transition() never looks past its end.                       *)
KnownTransition == Machine!Known

(* read_commands() starts without anything of the line before: a pending   *)
(* error would make it skip reading and hand on the line it does not have. *)
CleanPrompt ==
  In("read_commands") =>
    /\ ~error /\ ~fatal_error
    /\ current_line = Null /\ command = Null /\ child = Null

(* Every state a function returns is known, and each prompt starts afresh. *)
StartsAfresh == KnownTransition /\ CleanPrompt

(* At a terminal nothing the shell prints appears twice: what it leaves in *)
(* its buffer is not there when it forks (read_commands, execute_commands).*)
PrintedOnce == Interactive => ~repeated

Named(line, f) == {i \in 1..Len(line.redirs) : line.redirs[i].file = f /\ line.redirs[i].op # "<"}

(* redirect() touches no file but the ones the line names for output, and  *)
(* after >> or 2>> what was in the file is still there.                    *)
FileStep(f) ==
  files'[f] # files[f] =>
    /\ Named(current_line, f) # {}
    /\ \/ files[f] = Null
       \/ \E i \in Named(current_line, f) : current_line.redirs[i].op \notin {">>", "2>>"}
       \/ Len(files[f]) < Len(files'[f]) /\ files[f] = SubSeq(files'[f], 1, Len(files[f]))

OutputsWhereNamed ==
  [][current_line # Null /\ WellFormed(current_line) => \A f \in Files : FileStep(f)]_vars

(* What is printed and what is written: once, and where the line says.     *)
OutputIsRight == []PrintedOnce /\ OutputsWhereNamed

HasExit == \E i \in 1..Len(session.script) : session.script[i].word = "exit"

(* A script with "exit" in it brings the shell to its end, whatever fails  *)
(* on the way and as long as the programs end.                             *)
ExitEnds == HasExit ~> (Over # "no" /\ (crashed \/ Machine!Exited))

=============================================================================
