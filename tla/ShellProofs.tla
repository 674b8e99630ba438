---------------------------- MODULE ShellProofs -----------------------------
(***************************************************************************)
(* For every script, program and file: the table of shell.c has a row for  *)
(* every step its functions ask for, and read_commands() always starts     *)
(* with a clean state.                                                     *)
(***************************************************************************)
EXTENDS Shell, SequenceTheorems, NaturalsInduction, WellFoundedInduction, TLAPS

(* Each function has one state of its own. *)
StateOf(function) ==
  CASE function = "init_state" -> "INIT_STATE"
    [] function = "read_commands" -> "READ_COMMANDS"
    [] function = "handle_error" -> "ERROR"
    [] function = "reset_state" -> "RESET_STATE"
    [] function = "separate_commands" -> "SEPARATE_COMMANDS"
    [] function = "parse_commands" -> "PARSE_COMMANDS"
    [] function = "execute_commands" -> "EXECUTE_COMMANDS"
    [] function = "do_exit" -> "EXIT"
    [] function = "destroy_state" -> "DESTROY_STATE"

Pairs(state1, state2) == \E row \in Table : row.from = state1 /\ row.to = state2

LEMMA RowsOfTable ==
  ASSUME NEW row \in Table
  PROVE  row.to = StateOf(row.perform)
BY DEF Table, Row, StateOf

LEMMA FunctionsState ==
  ASSUME NEW function, In(function)
  PROVE  ~crashed /\ to_id = StateOf(function)
BY RowsOfTable DEF In, Machine!In, Machine!Due

LEMMA ReturnsAreKnown ==
  /\ Pairs("INIT_STATE", "READ_COMMANDS")
  /\ Pairs("READ_COMMANDS", "RESET_STATE")
  /\ Pairs("READ_COMMANDS", "SEPARATE_COMMANDS")
  /\ Pairs("READ_COMMANDS", "ERROR")
  /\ Pairs("SEPARATE_COMMANDS", "PARSE_COMMANDS")
  /\ Pairs("SEPARATE_COMMANDS", "ERROR")
  /\ Pairs("PARSE_COMMANDS", "EXECUTE_COMMANDS")
  /\ Pairs("EXECUTE_COMMANDS", "RESET_STATE")
  /\ Pairs("EXECUTE_COMMANDS", "EXIT")
  /\ Pairs("EXECUTE_COMMANDS", "ERROR")
  /\ Pairs("RESET_STATE", "READ_COMMANDS")
  /\ Pairs("EXIT", "DESTROY_STATE")
  /\ Pairs("ERROR", "RESET_STATE")
  /\ Pairs("ERROR", "DESTROY_STATE")
BY DEF Pairs, Table, Row

LEMMA KnownAfter ==
  ASSUME from_id' = to_id, Pairs(to_id, to_id')
  PROVE  KnownTransition'
BY DEF Pairs, KnownTransition, Machine!Known, Machine!Due, Table, Row

-----------------------------------------------------------------------------

LEMMA KnownStays ==
  ASSUME UNCHANGED <<from_id, to_id>>, KnownTransition
  PROVE  KnownTransition'
BY DEF KnownTransition, Machine!Known, Machine!Exited, Machine!Due

LEMMA KnownStep ==
  ASSUME KnownTransition, [Next]_vars
  PROVE  KnownTransition'
<1>1. CASE init_state
  BY <1>1, FunctionsState, ReturnsAreKnown, KnownAfter DEF init_state, Return, Machine!Return, StateOf
<1>2. ASSUME NEW line, TakeLine(line)
      PROVE  KnownTransition'
  BY <1>2, FunctionsState, ReturnsAreKnown, KnownAfter DEF TakeLine, Return, Machine!Return, StateOf
<1>3. CASE ReadLine \/ ReadNothing
  BY <1>2, <1>3 DEF ReadLine, ReadNothing
<1>4. CASE ReadFails
  BY <1>4, FunctionsState, ReturnsAreKnown, KnownAfter DEF ReadFails, Return, Machine!Return, StateOf
<1>5. CASE separate_commands
  BY <1>5, FunctionsState, ReturnsAreKnown, KnownAfter
     DEF separate_commands, Return, Machine!Return, StateOf
<1>6. CASE SeparateFails
  BY <1>6, FunctionsState, ReturnsAreKnown, KnownAfter DEF SeparateFails, Return, Machine!Return, StateOf
<1>7. CASE parse_commands
  BY <1>7, FunctionsState, ReturnsAreKnown, KnownAfter DEF parse_commands, Return, Machine!Return, StateOf
<1>8. CASE ParseCrashes \/ ExecuteCrashes \/ Fork
  BY <1>8, KnownStays DEF ParseCrashes, ExecuteCrashes, Crash, Fork
<1>9. ASSUME NEW code, NEW started, In("execute_commands"), Finish(code, started)
      PROVE  KnownTransition'
  <2>1. to_id = "EXECUTE_COMMANDS"
    BY <1>9, FunctionsState DEF StateOf
  <2>2. to_id' = "ERROR" \/ to_id' = "RESET_STATE"
    BY <1>9 DEF Finish, Return, Machine!Return
  <2> QED
    BY <1>9, <2>1, <2>2, ReturnsAreKnown, KnownAfter DEF Finish, Return, Machine!Return
<1>10. CASE ChangeDirectory \/ ForkFails \/ Wait
  BY <1>9, <1>10 DEF ChangeDirectory, ForkFails, Wait
<1>11. CASE ExitCommand
  BY <1>11, FunctionsState, ReturnsAreKnown, KnownAfter DEF ExitCommand, Return, Machine!Return, StateOf
<1>12. CASE reset_state
  BY <1>12, FunctionsState, ReturnsAreKnown, KnownAfter DEF reset_state, Return, Machine!Return, StateOf
<1>13. CASE do_exit
  BY <1>13, FunctionsState, ReturnsAreKnown, KnownAfter DEF do_exit, Return, Machine!Return, StateOf
<1>14. CASE handle_error
  BY <1>14, FunctionsState, ReturnsAreKnown, KnownAfter DEF handle_error, Return, Machine!Return, StateOf
<1>15. CASE destroy_state
  BY <1>15 DEF destroy_state, Return, Machine!Return, KnownTransition, Machine!Known, Machine!Exited
<1>16. CASE ChildStep
  BY <1>16, KnownStays DEF ChildStep
<1>17. CASE UNCHANGED vars
  BY <1>17, KnownStays DEF vars
<1> QED
  BY <1>1, <1>3, <1>4, <1>5, <1>6, <1>7, <1>8, <1>10, <1>11, <1>12, <1>13, <1>14, <1>15, <1>16, <1>17
     DEF Next, ShellStep

(* fsm_transition() always finds a row: no function of shell_impl.c returns *)
(* a state that shell.c's table does not expect after the one it was in.    *)
THEOREM FunctionsAreKnown == Spec => []KnownTransition
<1>1. Init => KnownTransition
  <2>1. Row("DC_FSM_INIT", "INIT_STATE", "init_state") \in Table
    BY DEF Table
  <2> QED
    BY <2>1 DEF Init, Machine!MachineInit, KnownTransition, Machine!Known, Machine!Due, Row
<1> QED
  BY <1>1, KnownStep, PTL DEF Spec

-----------------------------------------------------------------------------
(* The state is clean before read_commands() and already where it is set   *)
(* up; a child is there only while execute_commands() waits for it.        *)
Clean == ~error /\ ~fatal_error /\ current_line = Null /\ command = Null

PromptInv ==
  /\ to_id = "INIT_STATE" => ~error /\ ~fatal_error
  /\ to_id = "READ_COMMANDS" => Clean
  /\ child # Null =>
       to_id = "EXECUTE_COMMANDS" /\ command.word \notin {Null, "cd", "exit"}

LEMMA PromptInvStep ==
  ASSUME PromptInv, [Next]_vars
  PROVE  PromptInv'
<1>1. CASE init_state
  BY <1>1, FunctionsState DEF init_state, Return, Machine!Return, StateOf, PromptInv, Clean, state
<1>2. ASSUME NEW line, TakeLine(line)
      PROVE  PromptInv'
  BY <1>2, FunctionsState DEF TakeLine, Return, Machine!Return, StateOf, PromptInv
<1>3. CASE ReadLine \/ ReadNothing
  BY <1>2, <1>3 DEF ReadLine, ReadNothing
<1>4. CASE ReadFails
  BY <1>4, FunctionsState DEF ReadFails, Return, Machine!Return, StateOf, PromptInv
<1>5. CASE separate_commands
  BY <1>5, FunctionsState DEF separate_commands, Return, Machine!Return, StateOf, PromptInv
<1>6. CASE SeparateFails
  BY <1>6, FunctionsState DEF SeparateFails, Return, Machine!Return, StateOf, PromptInv
<1>7. CASE parse_commands
  BY <1>7, FunctionsState DEF parse_commands, Return, Machine!Return, StateOf, PromptInv
<1>8. CASE ParseCrashes \/ ExecuteCrashes
  BY <1>8 DEF ParseCrashes, ExecuteCrashes, Crash, PromptInv, Clean, state
<1>9. CASE ChangeDirectory
  BY <1>9, FunctionsState DEF ChangeDirectory, Finish, Return, Machine!Return, StateOf, PromptInv
<1>10. CASE ExitCommand
  BY <1>10, FunctionsState DEF ExitCommand, Return, Machine!Return, StateOf, PromptInv
<1>11. CASE Fork
  BY <1>11, FunctionsState DEF Fork, StateOf, PromptInv, Clean, state
<1>12. CASE ForkFails
  BY <1>12, FunctionsState DEF ForkFails, Finish, Return, Machine!Return, StateOf, PromptInv
<1>13. CASE Wait
  BY <1>13, FunctionsState DEF Wait, Finish, Return, Machine!Return, StateOf, PromptInv
<1>14. CASE reset_state
  BY <1>14, FunctionsState DEF reset_state, Reset, Return, Machine!Return, StateOf, PromptInv, Clean
<1>15. CASE do_exit
  BY <1>15, FunctionsState DEF do_exit, Return, Machine!Return, StateOf, PromptInv
<1>16. CASE handle_error
  BY <1>16, FunctionsState DEF handle_error, Return, Machine!Return, StateOf, PromptInv
<1>17. CASE destroy_state
  BY <1>17, FunctionsState DEF destroy_state, Return, Machine!Return, StateOf, PromptInv
<1>18. CASE ChildStep
  <2>1. child # Null
    BY <1>18 DEF ChildStep, Redirect, RunProgram, RunFails, ProgramEnds, Signalled, At
  <2> QED
    BY <1>18, <2>1 DEF ChildStep, PromptInv, Clean, state
<1>19. CASE UNCHANGED vars
  BY <1>19 DEF vars, state, PromptInv, Clean
<1> QED
  BY <1>1, <1>3, <1>4, <1>5, <1>6, <1>7, <1>8, <1>9, <1>10, <1>11, <1>12, <1>13, <1>14, <1>15,
     <1>16, <1>17, <1>18, <1>19 DEF Next, ShellStep

(* read_commands() starts without an error, a line, a command or a child   *)
(* of the line before.                                                     *)
THEOREM PromptIsClean == Spec => []CleanPrompt
<1>1. Init => PromptInv
  BY DEF Init, Machine!MachineInit, PromptInv
<1>2. PromptInv => CleanPrompt
  BY FunctionsState DEF CleanPrompt, PromptInv, Clean, StateOf
<1> QED
  BY <1>1, <1>2, PromptInvStep, PTL DEF Spec

(* For every script, program and file, the engine knows each state that is  *)
(* returned and each prompt starts afresh.                                  *)
THEOREM EachLineStartsAfresh == Spec => []StartsAfresh
BY FunctionsAreKnown, PromptIsClean, PTL DEF StartsAfresh

-----------------------------------------------------------------------------
(* Types.  What a line has in it is what command.c can have made of it, and *)
(* a program that can say something has a file to say it to.               *)

WithWord == (TypedLines \ {Blank}) \cup Strays

TypeInv ==
  /\ TypeOK
  /\ buffered \in Seq(TypedLines)
  /\ InHand => current_line \in WithWord
  /\ to_id \in {"PARSE_COMMANDS", "EXECUTE_COMMANDS"} => command \in Commands
  /\ child # Null /\ child.pc \in {"run", "program"} =>
       \A name \in {child.command.stdout_file, child.command.stderr_file} \ {Null} :
         files[name] \in Seq(Nat)

(* What is still to be read. *)
Ahead == buffered \o SubSeq(session.script, offset + 1, Len(session.script))

ChildInv ==
  child # Null =>
    /\ child.command = command /\ ~child.error
    /\ child.pc = "program" => Search(command.word) = "ok"
    /\ child.pc = "exited" => child.code \in Ends(current_line)

(* No error outlives its command, nobody's line comes only at the end of the *)
(* input, and the command is the one of the line.                            *)
LoopInv ==
  /\ to_id \in {"INIT_STATE", "READ_COMMANDS", "SEPARATE_COMMANDS", "PARSE_COMMANDS",
                "EXECUTE_COMMANDS", "EXIT"} => ~error
  /\ to_id = "ERROR" => error /\ fatal_error
  /\ InHand =>
       ~fatal_error /\ (current_line \in Strays => buffered = <<>> /\ offset = Len(session.script))
  /\ to_id = "EXECUTE_COMMANDS" => command = ParseCommand(current_line)
  /\ ChildInv

-----------------------------------------------------------------------------
(* What command.c makes of a line. *)

(* A set of numbers has a least one. *)
LEMMA LeastNumber ==
  ASSUME NEW S \in SUBSET Nat, S # {}
  PROVE  Min(S) \in S /\ \A n \in S : Min(S) <= n
<1>1. PICK m \in S : \A n \in S : <<n, m>> \notin OpToRel(<, Nat)
  BY WFMin, NatLessThanWellFounded, Zenon
<1>2. \A n \in S : ~(n < m)
  BY <1>1, Zenon DEF OpToRel
<1>3. \A n \in S : m <= n
  BY <1>2
<1> QED
  BY <1>3 DEF Min

(* The first redirection of some kinds, or the place behind the last. *)
LEMMA FirstIs ==
  ASSUME NEW redirs \in Seq(Redirections), NEW ops
  PROVE  /\ FirstOf(redirs, ops) \in 1 .. Len(redirs) + 1
         /\ FirstOf(redirs, ops) <= Len(redirs) => redirs[FirstOf(redirs, ops)].op \in ops
         /\ \A j \in 1 .. Len(redirs) : j < FirstOf(redirs, ops) => redirs[j].op \notin ops
<1> DEFINE S == {i \in 1 .. Len(redirs) : redirs[i].op \in ops} \cup {Len(redirs) + 1}
           m == FirstOf(redirs, ops)
<1>1. Len(redirs) \in Nat
  BY LenProperties
<1>2. S \in SUBSET Nat /\ S # {}
  BY <1>1
<1>3. m = Min(S)
  BY DEF FirstOf
<1> HIDE DEF m
<1>4. m \in S /\ \A n \in S : m <= n
  BY <1>2, <1>3, LeastNumber
<1>5. m \in 1 .. Len(redirs) + 1 /\ (m <= Len(redirs) => redirs[m].op \in ops)
  BY <1>1, <1>4
<1>6. ASSUME NEW j \in 1 .. Len(redirs), j < m PROVE redirs[j].op \notin ops
  BY <1>1, <1>4, <1>5, <1>6
<1> QED
  BY <1>5, <1>6 DEF m

(* The redirections from that one on, and those before it. *)
LEMMA PartsOf ==
  ASSUME NEW redirs \in Seq(Redirections), NEW ops
  PROVE  LET m == FirstOf(redirs, ops) IN
         /\ Rest(redirs, ops) \in Seq(Redirections) /\ Before(redirs, ops) \in Seq(Redirections)
         /\ Len(Rest(redirs, ops)) = Len(redirs) + 1 - m /\ Len(Before(redirs, ops)) = m - 1
         /\ \A j \in 1 .. m - 1 : Before(redirs, ops)[j] = redirs[j]
<1> DEFINE m == FirstOf(redirs, ops)
<1>1. Len(redirs) \in Nat /\ m \in 1 .. Len(redirs) + 1
  BY FirstIs, LenProperties
<1> HIDE DEF m
<1>2. \A j \in m .. Len(redirs) : redirs[j] \in Redirections
  BY <1>1, ElementOfSeq
<1>3. \A j \in 1 .. m - 1 : redirs[j] \in Redirections
  BY <1>1, ElementOfSeq
<1>4. m \in Int /\ m - 1 \in Int /\ Len(redirs) \in Int
  BY <1>1
<1>5. /\ SubSeq(redirs, m, Len(redirs)) \in Seq(Redirections)
      /\ Len(SubSeq(redirs, m, Len(redirs))) =
           IF m <= Len(redirs) THEN Len(redirs) - m + 1 ELSE 0
  BY <1>2, <1>4, SubSeqProperties
<1>6. /\ SubSeq(redirs, 1, m - 1) \in Seq(Redirections)
      /\ Len(SubSeq(redirs, 1, m - 1)) = IF 1 <= m - 1 THEN m - 1 - 1 + 1 ELSE 0
      /\ \A j \in 1 .. m - 1 - 1 + 1 : SubSeq(redirs, 1, m - 1)[j] = redirs[1 + j - 1]
  BY <1>3, <1>4, SubSeqProperties
<1>7. Len(SubSeq(redirs, m, Len(redirs))) = Len(redirs) + 1 - m
  BY <1>1, <1>5
<1>8. Len(SubSeq(redirs, 1, m - 1)) = m - 1
  BY <1>1, <1>6
<1>9. \A j \in 1 .. m - 1 : SubSeq(redirs, 1, m - 1)[j] = redirs[j]
  BY <1>1, <1>6
<1> QED
  BY <1>5, <1>6, <1>7, <1>8, <1>9 DEF Rest, Before, m

(* A redirection names a file, unless there is none or too much is left. *)
LEMMA NameIs ==
  ASSUME NEW part \in Seq(Redirections)
  PROVE  /\ NameAfter(part) \in Names \cup {Null}
         /\ part = <<>> => NameAfter(part) = Null
         /\ Len(part) <= 1 => NameAfter(part) \in Files \cup {Null}
<1>1. Len(part) \in Nat
  BY LenProperties
<1>2. CASE Len(part) = 0
  BY <1>1, <1>2 DEF NameAfter
<1>3. CASE Len(part) > 1
  <2>1. NameAfter(part) = Garbage /\ part # <<>> /\ ~(Len(part) <= 1)
    BY <1>1, <1>3, EmptySeq DEF NameAfter
  <2> QED
    BY <2>1 DEF Names
<1>4. CASE Len(part) = 1
  <2>1. part[1] \in Redirections /\ part # <<>>
    BY <1>4, ElementOfSeq, EmptySeq
  <2>2. part[1].file \in Files /\ Shorn[part[1].file] \in Files
    BY <2>1, CommandsAssumption DEF Redirections
  <2>3. NameAfter(part) \in Files
    BY <1>4, <2>2 DEF NameAfter
  <2> QED
    BY <2>1, <2>3 DEF Names
<1>5. Len(part) = 0 \/ Len(part) > 1 \/ Len(part) = 1
  BY <1>1
<1> QED
  BY <1>2, <1>3, <1>4, <1>5, Zenon

(* What parse_command() makes of a line: a command of its word, or of none. *)
LEMMA ParseIsCommand ==
  ASSUME NEW line \in WithWord
  PROVE  LET command_of == ParseCommand(line) IN
         /\ line \in Lines /\ command_of \in Commands /\ command_of.exit_code = 0
         /\ command_of.word = IF line.word = "bad" THEN Null ELSE line.word
         /\ line.word \in Words \cup {"bad", Null}
<1>1. line \in Lines /\ line.word # "blank"
  <2>1. <<>> \in Seq(Redirections)
    BY EmptySeq
  <2>2. CASE line \in Strays
    <3>1. PICK word \in {Garbage, Null} : line = [word |-> word, redirs |-> <<>>]
      BY <2>2 DEF Strays, Unknown
    <3>2. word \in Words \cup {Null} /\ word # "blank"
      BY CommandsAssumption DEF Words
    <3> QED
      BY <2>1, <3>1, <3>2 DEF Lines
  <2>3. CASE line \in TypedLines \ {Blank}
    BY <2>3 DEF TypedLines
  <2> QED
    BY <2>2, <2>3 DEF WithWord
<1>2. line.word \in Words \cup {"bad", Null} /\ line.redirs \in Seq(Redirections)
  BY <1>1 DEF Lines
<1> DEFINE err == Rest(line.redirs, {"2>", "2>>"})
           before_err == Before(line.redirs, {"2>", "2>>"})
           out == Rest(before_err, {">", ">>"})
           in == Rest(Before(before_err, {">", ">>"}), {"<"})
<1>3. /\ err \in Seq(Redirections) /\ before_err \in Seq(Redirections)
      /\ out \in Seq(Redirections) /\ in \in Seq(Redirections)
  BY <1>2, PartsOf
<1> DEFINE ne == NameAfter(err)
           no == NameAfter(out)
           ni == NameAfter(in)
           de == Doubled(err)
           do == Doubled(out)
           w == IF line.word = "bad" THEN Null ELSE line.word
<1>4. ne \in Names \cup {Null} /\ no \in Names \cup {Null} /\ ni \in Names \cup {Null}
  BY <1>3, NameIs
<1>5. de \in BOOLEAN /\ do \in BOOLEAN
  BY DEF Doubled
<1>6. w \in Words \cup {Null}
  BY <1>2
<1>7. ParseCommand(line) =
        [NoCommand EXCEPT !.word = w, !.stdin_file = ni, !.stdout_file = no, !.stdout_overwrite = do,
                          !.stderr_file = ne, !.stderr_overwrite = de]
  BY DEF ParseCommand
<1> HIDE DEF err, before_err, out, in, ne, no, ni, de, do, w
<1>8. ParseCommand(line) =
        [word |-> w, stdin_file |-> ni, stdout_file |-> no, stdout_overwrite |-> do,
         stderr_file |-> ne, stderr_overwrite |-> de, exit_code |-> 0]
  BY <1>7 DEF NoCommand
<1>9. ParseCommand(line) \in Commands /\ ParseCommand(line).exit_code = 0 /\ ParseCommand(line).word = w
  BY <1>4, <1>5, <1>6, <1>8 DEF Commands
<1> QED
  BY <1>1, <1>2, <1>9 DEF w

-----------------------------------------------------------------------------
(* Types, step by step. *)

LEMMA ScriptIs ==
  ASSUME TypeOK
  PROVE  /\ session.script \in Seq(TypedLines) /\ Len(session.script) \in Nat
         /\ offset \in 0 .. Len(session.script)
<1>1. session.script \in Seq(TypedLines)
  BY ShellAssumption DEF TypeOK
<1> QED
  BY <1>1, LenProperties DEF TypeOK

LEMMA BlankIsLine == Blank \in Lines /\ Strays \subseteq Lines /\ TypedLines \subseteq Lines
<1>1. <<>> \in Seq(Redirections)
  BY EmptySeq
<1> QED
  BY <1>1 DEF Blank, Strays, Unknown, Lines, Words, TypedLines

LEMMA TypeInvInit == Init => TypeInv
<1> SUFFICES ASSUME Init PROVE TypeInv
  OBVIOUS
<1>1. /\ session \in [script : Scripts, in : Inputs, out : Outputs] /\ offset = 0 /\ buffered = <<>>
      /\ current_line = Null /\ command = Null /\ log = <<>> /\ child = Null /\ files \in Disks
      /\ from_id = "DC_FSM_INIT" /\ to_id = "INIT_STATE"
  BY DEF Init, Machine!MachineInit
<1>2. {unflushed, repeated, fatal_error, error, crashed} \subseteq BOOLEAN
  BY DEF Init
<1>3. session.script \in Seq(TypedLines)
  BY <1>1, ShellAssumption
<1>4. offset \in 0 .. Len(session.script)
  BY <1>1, <1>3, LenProperties
<1>5. buffered \in Seq(Lines) /\ buffered \in Seq(TypedLines) /\ log \in Seq(Entries)
  BY <1>1, EmptySeq
<1>6. ExecuteTypeOK
  BY <1>1, ExecuteAssumption DEF ExecuteTypeOK
<1>7. TypeOK
  BY <1>1, <1>2, <1>4, <1>5, <1>6 DEF TypeOK, States
<1> QED
  BY <1>1, <1>5, <1>7 DEF TypeInv, InHand

(* What stays while the input, the log, the child and the files do. *)
Machinery ==
  /\ current_line \in Lines \cup {Null} /\ command \in Commands \cup {Null}
  /\ from_id \in States /\ to_id \in States
  /\ InHand => current_line \in WithWord
  /\ to_id \in {"PARSE_COMMANDS", "EXECUTE_COMMANDS"} => command \in Commands

Stores ==
  /\ session \in [script : Scripts, in : Inputs, out : Outputs]
  /\ offset \in 0 .. Len(session.script) /\ buffered \in Seq(Lines)
  /\ log \in Seq(Entries) /\ ExecuteTypeOK
  /\ buffered \in Seq(TypedLines)
  /\ child # Null /\ child.pc \in {"run", "program"} =>
       \A name \in {child.command.stdout_file, child.command.stderr_file} \ {Null} :
         files[name] \in Seq(Nat)

Bits == {unflushed, repeated, fatal_error, error, crashed} \subseteq BOOLEAN

LEMMA TypeInvIs == TypeInv <=> Machinery /\ Stores /\ Bits
BY Zenon DEF TypeInv, TypeOK, Machinery, Stores, Bits

LEMMA StoresStay ==
  ASSUME Stores, UNCHANGED <<session, offset, buffered, log, child, files>>
  PROVE  Stores'
BY DEF Stores, ExecuteTypeOK

LEMMA NoCommandIs == NoCommand \in Commands
BY DEF NoCommand, Commands

(* The functions that leave input, log, child and files alone. *)
LEMMA QuietTypes ==
  ASSUME TypeInv,
         \/ init_state \/ separate_commands \/ SeparateFails \/ parse_commands \/ ReadFails
         \/ ParseCrashes \/ ExecuteCrashes \/ ExitCommand
         \/ reset_state \/ do_exit \/ handle_error \/ destroy_state
  PROVE  TypeInv'
<1>1. Machinery /\ Stores /\ Bits
  BY TypeInvIs
<1>2. UNCHANGED <<session, offset, buffered, log, child, files>>
  BY DEF init_state, separate_commands, SeparateFails, parse_commands, ReadFails,
         ParseCrashes, ExecuteCrashes, Crash, ExitCommand, reset_state, do_exit, handle_error,
         destroy_state, Return, io
<1>3. Stores'
  BY <1>1, <1>2, StoresStay
<1>4. Bits'
  <2>1. {unflushed', repeated', fatal_error', error', crashed'} \subseteq BOOLEAN
    BY <1>1, Zenon DEF Bits, init_state, separate_commands, SeparateFails, parse_commands, ReadFails,
         ParseCrashes, ExecuteCrashes, Crash, ExitCommand, reset_state, do_exit, handle_error,
         destroy_state, Return, io, state, Reset, Interactive
  <2> QED
    BY <2>1 DEF Bits
<1>5. Machinery'
  <2>1. CASE init_state
    BY <1>1, <2>1, FunctionsState
       DEF Machinery, init_state, Return, Machine!Return, StateOf, States, InHand
  <2>2. CASE separate_commands
    BY <1>1, <2>2, FunctionsState, NoCommandIs
       DEF Machinery, separate_commands, Return, Machine!Return, StateOf, States, InHand
  <2>3. CASE SeparateFails
    BY <1>1, <2>3, FunctionsState, NoCommandIs
       DEF Machinery, SeparateFails, Return, Machine!Return, StateOf, States, InHand
  <2>4. CASE parse_commands
    <3>1. to_id = "PARSE_COMMANDS" /\ current_line \in WithWord
      BY <1>1, <2>4, FunctionsState DEF Machinery, parse_commands, StateOf, InHand
    <3>2. command' \in Commands
      BY <2>4, <3>1, ParseIsCommand DEF parse_commands
    <3> QED
      BY <1>1, <2>4, <3>1, <3>2
         DEF Machinery, parse_commands, Return, Machine!Return, States, InHand
  <2>5. CASE ReadFails
    BY <1>1, <2>5, FunctionsState
       DEF Machinery, ReadFails, Return, Machine!Return, StateOf, States, InHand
  <2>6. CASE ParseCrashes \/ ExecuteCrashes
    BY <1>1, <2>6 DEF Machinery, ParseCrashes, ExecuteCrashes, Crash, InHand, state
  <2>7. CASE ExitCommand
    BY <1>1, <2>7, FunctionsState
       DEF Machinery, ExitCommand, Return, Machine!Return, StateOf, States, InHand, state
  <2>8. CASE reset_state \/ do_exit
    BY <1>1, <2>8, FunctionsState
       DEF Machinery, reset_state, do_exit, Reset, Return, Machine!Return, StateOf, States, InHand
  <2>9. CASE handle_error
    BY <1>1, <2>9, FunctionsState
       DEF Machinery, handle_error, Return, Machine!Return, StateOf, States, InHand, state
  <2>10. CASE destroy_state
    BY <1>1, <2>10, FunctionsState, NoCommandIs
       DEF Machinery, destroy_state, Return, Machine!Return, StateOf, States, InHand
  <2> QED
    BY <2>1, <2>2, <2>3, <2>4, <2>5, <2>6, <2>7, <2>8, <2>9, <2>10
<1> QED
  BY <1>3, <1>4, <1>5, TypeInvIs, PTL

(* The next read(): some lines from the offset on. *)
LEMMA ReadIs ==
  ASSUME NEW s \in Seq(TypedLines), NEW o \in 0 .. Len(s), NEW k \in {o + 1, Len(s)}, k <= Len(s)
  PROVE  LET r == SubSeq(s, o + 1, k) IN
         /\ r \in Seq(TypedLines) /\ Len(r) = k - o
         /\ o + Len(r) = k /\ k \in 0 .. Len(s)
         /\ SubSeq(s, o + 1, Len(s)) = r \o SubSeq(s, k + 1, Len(s))
<1>1. Len(s) \in Nat /\ o \in Nat /\ k \in Nat /\ o <= k
  BY LenProperties
<1>2. \A i \in o + 1 .. k : s[i] \in TypedLines
  BY <1>1, ElementOfSeq
<1> DEFINE r == SubSeq(s, o + 1, k)
<1>3. r \in Seq(TypedLines) /\ Len(r) = IF o + 1 <= k THEN k - (o + 1) + 1 ELSE 0
  BY <1>1, <1>2, SubSeqProperties
<1>4. Len(r) = k - o
  BY <1>1, <1>3
<1>5. SubSeq(s, o + 1, k) \o SubSeq(s, k + 1, Len(s)) = SubSeq(s, o + 1, Len(s))
  <2>1. /\ o + 1 \in 1 .. Len(s) + 1 /\ k \in (o + 1) - 1 .. Len(s) /\ Len(s) \in k .. Len(s)
    BY <1>1
  <2> QED
    BY <2>1, ConcatAdjacentSubSeq, Zenon
<1> HIDE DEF r
<1>6. o + Len(r) = k /\ k \in 0 .. Len(s)
  BY <1>1, <1>4
<1> QED
  BY <1>3, <1>4, <1>5, <1>6 DEF r

(* dc_getline() hands out what comes next, and the rest comes after it. *)
LEMMA FetchIs ==
  ASSUME TypeInv, Fetched # <<>>
  PROVE  LET o == IF buffered = <<>> THEN offset + Len(Fetched) ELSE offset IN
         /\ Head(Fetched) \in TypedLines /\ Tail(Fetched) \in Seq(TypedLines)
         /\ o \in 0 .. Len(session.script)
         /\ Ahead = <<Head(Fetched)>> \o (Tail(Fetched) \o SubSeq(session.script, o + 1, Len(session.script)))
<1> DEFINE s == session.script
           o == IF buffered = <<>> THEN offset + Len(Fetched) ELSE offset
           k == IF session.in = "terminal" /\ offset < Len(s) THEN offset + 1 ELSE Len(s)
           f == Fetched
           later == SubSeq(s, o + 1, Len(s))
<1>1. s \in Seq(TypedLines) /\ Len(s) \in Nat /\ offset \in 0 .. Len(s) /\ buffered \in Seq(TypedLines)
  BY ScriptIs DEF TypeInv
<1>2. k \in {offset + 1, Len(s)} /\ k <= Len(s)
  BY <1>1
<1>3. f = IF buffered # <<>> THEN buffered ELSE SubSeq(s, offset + 1, k)
  BY DEF Fetched
<1>4. Ahead = buffered \o SubSeq(s, offset + 1, Len(s))
  BY DEF Ahead
<1>5. f # <<>>
  OBVIOUS
<1> HIDE DEF s, k, f
<1>6. f \in Seq(TypedLines) /\ o \in 0 .. Len(s) /\ Ahead = f \o later
  <2>1. CASE buffered # <<>>
    BY <1>1, <1>3, <1>4, <2>1
  <2>2. CASE buffered = <<>>
    <3>1. f = SubSeq(s, offset + 1, k)
      BY <1>3, <2>2
    <3> HIDE DEF o
    <3>2. /\ f \in Seq(TypedLines) /\ offset + Len(f) = k /\ k \in 0 .. Len(s)
          /\ SubSeq(s, offset + 1, Len(s)) = f \o SubSeq(s, k + 1, Len(s))
      BY <1>1, <1>2, <3>1, ReadIs
    <3>3. o = k
      BY <2>2, <3>2 DEF o, f
    <3>4. SubSeq(s, offset + 1, Len(s)) \in Seq(TypedLines)
      <4>1. \A i \in offset + 1 .. Len(s) : s[i] \in TypedLines
        BY <1>1, ElementOfSeq
      <4> QED
        BY <1>1, <4>1, SubSeqProperties
    <3>5. Ahead = SubSeq(s, offset + 1, Len(s))
      BY <1>4, <2>2, <3>4, ConcatEmptySeq
    <3> QED
      BY <3>2, <3>3, <3>5
  <2> QED
    BY <2>1, <2>2
<1> HIDE DEF o
<1>7. later \in Seq(TypedLines)
  <2>1. \A i \in o + 1 .. Len(s) : s[i] \in TypedLines
    BY <1>1, <1>6, ElementOfSeq
  <2>2. o + 1 \in Int /\ Len(s) \in Int
    BY <1>1, <1>6
  <2> QED
    BY <2>1, <2>2, SubSeqProperties
<1> HIDE DEF later
<1>8. Head(f) \in TypedLines /\ Tail(f) \in Seq(TypedLines) /\ f = <<Head(f)>> \o Tail(f)
  BY <1>5, <1>6, HeadTailProperties
<1>9. <<Head(f)>> \in Seq(TypedLines)
  BY <1>8
<1>10. Ahead = <<Head(f)>> \o (Tail(f) \o later)
  <2> DEFINE h == <<Head(f)>>
             t == Tail(f)
  <2>1. h \in Seq(TypedLines) /\ t \in Seq(TypedLines) /\ f = h \o t
    BY <1>8, <1>9
  <2> HIDE DEF h, t
  <2>2. (h \o t) \o later = h \o (t \o later)
    BY <1>7, <2>1, ConcatAssociative
  <2>3. Ahead = h \o (t \o later)
    BY <1>6, <2>1, <2>2, Zenon
  <2> QED
    BY <2>3 DEF h, t
<1> QED
  BY <1>6, <1>8, <1>10, Zenon DEF o, later, f, s

(* When there is nothing to hand out, everything has been read. *)
LEMMA NothingFetched ==
  ASSUME TypeInv, Fetched = <<>>
  PROVE  buffered = <<>> /\ offset = Len(session.script)
<1> DEFINE s == session.script
           k == IF session.in = "terminal" /\ offset < Len(s) THEN offset + 1 ELSE Len(s)
<1>1. s \in Seq(TypedLines) /\ Len(s) \in Nat /\ offset \in 0 .. Len(s)
  BY ScriptIs DEF TypeInv
<1>2. k \in {offset + 1, Len(s)} /\ k <= Len(s)
  BY <1>1
<1>3. buffered = <<>> /\ SubSeq(s, offset + 1, k) = <<>>
  BY DEF Fetched
<1>4. offset + 1 = k => FALSE
  <2>1. Len(SubSeq(s, offset + 1, k)) = k - offset
    BY <1>1, <1>2, ReadIs
  <2> HIDE DEF k
  <2>2. Len(SubSeq(s, offset + 1, k)) = 0
    BY <1>3, EmptySeq
  <2> QED
    BY <1>1, <2>1, <2>2
<1>5. k = Len(s) /\ Len(SubSeq(s, offset + 1, k)) = k - offset
  BY <1>1, <1>2, <1>4, ReadIs
<1> HIDE DEF k
<1>6. Len(SubSeq(s, offset + 1, k)) = 0
  BY <1>3, EmptySeq
<1> QED
  BY <1>1, <1>3, <1>5, <1>6

LEMMA TakeTypes ==
  ASSUME TypeInv, ReadLine \/ ReadNothing
  PROVE  TypeInv'
<1>1. Machinery /\ Stores /\ Bits
  BY TypeInvIs
<1>2. PICK line \in TypedLines \cup Strays \cup {Blank} :
        /\ TakeLine(line)
        /\ buffered' \in Seq(TypedLines) /\ offset' \in 0 .. Len(session.script)
  <2>1. CASE ReadLine
    BY <2>1, FetchIs DEF ReadLine
  <2>2. CASE ReadNothing
    <3>1. buffered \in Seq(TypedLines) /\ offset \in 0 .. Len(session.script)
      BY <1>1 DEF Stores
    <3> QED
      BY <2>2, <3>1 DEF ReadNothing
  <2> QED
    BY <2>1, <2>2
<1>3. /\ current_line' = line /\ to_id' = IF line = Blank THEN "RESET_STATE" ELSE "SEPARATE_COMMANDS"
      /\ from_id' = to_id
      /\ UNCHANGED <<session, crashed, repeated, command, error, log, child, files>>
      /\ fatal_error' = FALSE /\ unflushed' = ~Interactive
  BY <1>2 DEF TakeLine, Return, Machine!Return
<1>4. Stores'
  <2>1. buffered' \in Seq(Lines)
    BY <1>2, BlankIsLine, SeqMonotonic
  <2> QED
    BY <1>1, <1>2, <1>3, <2>1 DEF Stores, ExecuteTypeOK
<1>5. Machinery'
  <2>1. line \in Lines /\ (line # Blank => line \in WithWord)
    BY <1>2, BlankIsLine DEF WithWord
  <2>2. from_id' \in States /\ to_id' \in States /\ to_id' \notin {"PARSE_COMMANDS", "EXECUTE_COMMANDS"}
    BY <1>1, <1>3 DEF Machinery, States
  <2>3. InHand' => line # Blank
    BY <1>3 DEF InHand
  <2> QED
    BY <1>1, <1>3, <2>1, <2>2, <2>3 DEF Machinery
<1>6. Bits'
  <2>1. {unflushed', repeated', fatal_error', error', crashed'} \subseteq BOOLEAN
    BY <1>1, <1>3, Zenon DEF Bits, Interactive
  <2> QED
    BY <2>1 DEF Bits
<1> QED
  BY <1>4, <1>5, <1>6, TypeInvIs, PTL

LEMMA FinishTypes ==
  ASSUME TypeInv, to_id = "EXECUTE_COMMANDS", command.word \in Words,
         NEW code \in Nat, NEW started \in BOOLEAN, Finish(code, started),
         child' \in {child, Null}, UNCHANGED files, error' \in BOOLEAN
  PROVE  TypeInv'
<1>1. Machinery /\ Stores /\ Bits
  BY TypeInvIs
<1>2. /\ log' = Append(log, [word |-> command.word, code |-> code, started |-> started])
      /\ command' = [command EXCEPT !.exit_code = code]
      /\ unflushed' = (session.out # "terminal")
      /\ from_id' = to_id /\ to_id' \in {"ERROR", "RESET_STATE"}
      /\ UNCHANGED <<offset, buffered, repeated, current_line, fatal_error, session, crashed>>
  BY DEF Finish, Return, Machine!Return
<1>3. Stores'
  <2>1. log' \in Seq(Entries)
    BY <1>1, <1>2, AppendProperties DEF Stores, Entries
  <2> QED
    BY <1>1, <1>2, <2>1 DEF Stores, ExecuteTypeOK
<1>4. Machinery'
  <2>1. command \in Commands
    BY <1>1 DEF Machinery
  <2>2. command' \in Commands
    BY <1>2, <2>1 DEF Commands
  <2> QED
    BY <1>1, <1>2, <2>2 DEF Machinery, InHand, States
<1>5. Bits'
  <2>1. {unflushed', repeated', fatal_error', error', crashed'} \subseteq BOOLEAN
    BY <1>1, <1>2, Zenon DEF Bits
  <2> QED
    BY <2>1 DEF Bits
<1> QED
  BY <1>3, <1>4, <1>5, TypeInvIs, PTL

LEMMA ForkTypes ==
  ASSUME TypeInv, Fork
  PROVE  TypeInv'
<1>1. Machinery /\ Stores /\ Bits
  BY TypeInvIs
<1>2. /\ to_id = "EXECUTE_COMMANDS" /\ child' = Born(command, Len(log) + 1, error, unflushed)
      /\ UNCHANGED <<session, offset, buffered, unflushed, repeated, current_line, command, fatal_error,
                     error, crashed, from_id, to_id, log, files>>
  BY FunctionsState DEF Fork, StateOf, io, state
<1>3. child' \in Children /\ child'.pc = "redirect"
  <2>1. command \in Commands /\ Len(log) + 1 \in Nat
    BY <1>1, <1>2, LenProperties DEF Machinery, Stores
  <2>2. error \in BOOLEAN /\ unflushed \in BOOLEAN
    BY <1>1, Zenon DEF Bits
  <2> QED
    BY <1>2, <2>1, <2>2 DEF Born, Children
<1>4. Stores'
  BY <1>1, <1>2, <1>3 DEF Stores, ExecuteTypeOK
<1>5. Machinery' /\ Bits'
  BY <1>1, <1>2 DEF Machinery, Bits, InHand
<1> QED
  BY <1>4, <1>5, TypeInvIs, PTL

(* Files that are opened hold something afterwards, and nothing is lost    *)
(* that is said to one that is open.                                       *)
Disk == [Names -> Seq(Nat) \cup {Null}]

LEMMA OpenedIs ==
  ASSUME NEW fs \in Disk, NEW name \in Names \cup {Null}, NEW keep \in BOOLEAN
  PROVE  /\ Opened(fs, name, keep) \in Disk
         /\ name \notin Unwritable \cup {Null} => Opened(fs, name, keep)[name] \in Seq(Nat)
         /\ \A other \in Names : fs[other] \in Seq(Nat) => Opened(fs, name, keep)[other] \in Seq(Nat)
<1>1. <<>> \in Seq(Nat)
  BY EmptySeq
<1>2. CASE name \in Unwritable \cup {Null} \/ (keep /\ fs[name] # Null)
  <2>1. Opened(fs, name, keep) = fs
    BY <1>2 DEF Opened
  <2> QED
    BY <1>2, <2>1 DEF Disk
<1>3. CASE ~(name \in Unwritable \cup {Null} \/ (keep /\ fs[name] # Null))
  <2>1. Opened(fs, name, keep) = [fs EXCEPT ![name] = <<>>] /\ name \in Names
    BY <1>3 DEF Opened
  <2> QED
    BY <1>1, <2>1 DEF Disk
<1> QED
  BY <1>2, <1>3

LEMMA WrittenIs ==
  ASSUME NEW fs \in Disk, NEW name \in Names \cup {Null}, name # Null => fs[name] \in Seq(Nat),
         child.number \in Nat
  PROVE  Written(fs, name) \in Disk
<1>1. CASE name = Null
  BY <1>1 DEF Written
<1>2. CASE name # Null
  <2>1. Append(fs[name], child.number) \in Seq(Nat)
    BY <1>2, AppendProperties
  <2>2. Written(fs, name) = [fs EXCEPT ![name] = Append(fs[name], child.number)]
    BY <1>2 DEF Written
  <2> QED
    BY <2>1, <2>2 DEF Disk
<1> QED
  BY <1>1, <1>2

LEMMA CodeIs == \A error_code : ErrorCode(error_code) \in Nat
BY DEF ErrorCode

(* The child alone: its files and itself. *)
ChildTyped ==
  /\ ExecuteTypeOK
  /\ child # Null /\ child.pc \in {"run", "program"} =>
       \A name \in {child.command.stdout_file, child.command.stderr_file} \ {Null} :
         files[name] \in Seq(Nat)

LEMMA RedirectTypes ==
  ASSUME ChildTyped, Redirect
  PROVE  ChildTyped'
<1> DEFINE c == child.command
           first == Opened(files, c.stdout_file, c.stdout_overwrite)
           second == Opened(first, c.stderr_file, c.stderr_overwrite)
<1>1. child \in Children /\ child.pc = "redirect" /\ files \in Disk
  BY DEF ChildTyped, Redirect, At, ExecuteTypeOK, Disk
<1>2. /\ c.stdin_file \in Names \cup {Null}
      /\ c.stdout_file \in Names \cup {Null} /\ c.stdout_overwrite \in BOOLEAN
      /\ c.stderr_file \in Names \cup {Null} /\ c.stderr_overwrite \in BOOLEAN
  BY <1>1 DEF Children, Commands
<1>3. /\ first \in Disk
      /\ c.stdout_file \notin Unwritable \cup {Null} => first[c.stdout_file] \in Seq(Nat)
  BY <1>1, <1>2, OpenedIs
<1> HIDE DEF first
<1>4. /\ second \in Disk
      /\ c.stderr_file \notin Unwritable \cup {Null} => second[c.stderr_file] \in Seq(Nat)
      /\ \A other \in Names : first[other] \in Seq(Nat) => second[other] \in Seq(Nat)
  BY <1>2, <1>3, OpenedIs
<1>5. files' = second
  BY DEF Redirect, first
<1>6. \/ child' = [child EXCEPT !.pc = "exited", !.code = 126]
      \/ /\ child' = [child EXCEPT !.pc = "run"]
         /\ {c.stdin_file, c.stdout_file, c.stderr_file} \cap Unwritable = {}
  BY DEF Redirect, Exit
<1> HIDE DEF c, second
<1>7. child' \in Children
  <2>1. CASE child' = [child EXCEPT !.pc = "exited", !.code = 126]
    BY <1>1, <2>1 DEF Children
  <2>2. CASE child' = [child EXCEPT !.pc = "run"]
    BY <1>1, <2>2 DEF Children
  <2> QED
    BY <1>6, <2>1, <2>2
<1>8. ExecuteTypeOK'
  BY <1>4, <1>5, <1>7 DEF ExecuteTypeOK, Disk
<1>9. ASSUME child'.pc \in {"run", "program"}
      PROVE  \A name \in {child'.command.stdout_file, child'.command.stderr_file} \ {Null} :
               files'[name] \in Seq(Nat)
  <2>1. child' = [child EXCEPT !.pc = "run"] /\ {c.stdin_file, c.stdout_file, c.stderr_file} \cap Unwritable = {}
    BY <1>1, <1>6, <1>9 DEF Children
  <2>2. child'.command = c
    BY <1>1, <2>1 DEF Children, c
  <2> QED
    BY <1>2, <1>3, <1>4, <1>5, <2>1, <2>2
<1> QED
  BY <1>8, <1>9 DEF ChildTyped

LEMMA ChildTypes ==
  ASSUME ChildTyped,
         \/ Redirect \/ RunProgram \/ RunFails \/ Signalled
         \/ \E code \in Codes : ProgramEnds(code)
  PROVE  ChildTyped'
<1>1. CASE Redirect
  BY <1>1, RedirectTypes
<1>2. CASE RunProgram \/ Signalled
  <2>1. child \in Children /\ UNCHANGED files
    BY <1>2 DEF ChildTyped, RunProgram, Signalled, At, ExecuteTypeOK
  <2>2. child' \in Children /\ child'.command = child.command
    BY <1>2, <2>1 DEF RunProgram, Signalled, Children
  <2>3. child'.pc \in {"run", "program"} => child.pc \in {"run", "program"} /\ child # Null
    BY <1>2, <2>1 DEF RunProgram, Signalled, Children, At
  <2> QED
    BY <2>1, <2>2, <2>3 DEF ChildTyped, ExecuteTypeOK
<1>3. ASSUME NEW code \in Nat, NEW name \in {child.command.stdout_file, child.command.stderr_file},
             child # Null, child.pc \in {"run", "program"}, Exit(code),
             files' = Written(files, name) \/ UNCHANGED files
      PROVE  ChildTyped'
  <2>1. child \in Children /\ files \in Disk /\ child.number \in Nat /\ name \in Names \cup {Null}
        /\ (name # Null => files[name] \in Seq(Nat))
    BY <1>3 DEF ChildTyped, ExecuteTypeOK, Disk, Children, Commands
  <2>2. child' \in Children /\ child'.pc = "exited"
    BY <1>3, <2>1 DEF Exit, Children
  <2>3. files' \in Disk
    BY <1>3, <2>1, WrittenIs
  <2> QED
    BY <2>2, <2>3 DEF ChildTyped, ExecuteTypeOK, Disk
<1>4. CASE RunFails
  BY <1>3, <1>4, CodeIs DEF RunFails, At
<1>5. ASSUME NEW code \in Codes, ProgramEnds(code) PROVE ChildTyped'
  BY <1>3, <1>5, ExecuteAssumption DEF ProgramEnds, At
<1> QED
  BY <1>1, <1>2, <1>4, <1>5

LEMMA ChildStepTypes ==
  ASSUME TypeInv, ChildStep
  PROVE  TypeInv'
<1>1. Machinery /\ Stores /\ Bits
  BY TypeInvIs
<1>2. /\ UNCHANGED <<session, current_line, command, fatal_error, error, crashed, from_id, to_id, log>>
      /\ LeaveByExit \/ UNCHANGED io
      /\ child # Null
      /\ \/ Redirect \/ RunProgram \/ RunFails \/ Signalled
         \/ \E code \in Codes : ProgramEnds(code)
  BY DEF ChildStep, state, Redirect, RunProgram, RunFails, Signalled, ProgramEnds, At
<1>3. ChildTyped'
  BY <1>1, <1>2, ChildTypes DEF Stores, ChildTyped
<1>4. UNCHANGED <<buffered, unflushed>> /\ offset' \in 0 .. Len(session.script)
  <2>1. session.script \in Seq(TypedLines) /\ Len(session.script) \in Nat
        /\ offset \in 0 .. Len(session.script) /\ buffered \in Seq(TypedLines)
    BY ScriptIs DEF TypeInv
  <2>2. Len(buffered) \in Nat
    BY <2>1, LenProperties
  <2>3. CASE UNCHANGED io
    BY <2>1, <2>3 DEF io
  <2>4. CASE LeaveByExit
    <3>1. offset' = offset \/ offset' \in {offset - Len(buffered)} \cap Nat
      BY <2>4 DEF LeaveByExit
    <3>2. offset' \in 0 .. Len(session.script)
      BY <2>1, <2>2, <3>1
    <3> QED
      BY <2>4, <3>2 DEF LeaveByExit
  <2> QED
    BY <1>2, <2>3, <2>4
<1>5. Stores'
  BY <1>1, <1>2, <1>3, <1>4 DEF Stores, ChildTyped
<1>6. Machinery'
  BY <1>1, <1>2 DEF Machinery, InHand
<1>7. Bits'
  <2>1. child.unflushed \in BOOLEAN
    BY <1>1, <1>2 DEF Stores, ExecuteTypeOK, Children
  <2>2. {unflushed', repeated', fatal_error', error', crashed'} \subseteq BOOLEAN
    BY <1>1, <1>2, <1>4, <2>1, Zenon DEF Bits, LeaveByExit, io
  <2> QED
    BY <2>2 DEF Bits
<1> QED
  BY <1>5, <1>6, <1>7, TypeInvIs, PTL

LEMMA TypeInvStep ==
  ASSUME TypeInv, PromptInv, [Next]_vars
  PROVE  TypeInv'
<1>1. CASE init_state \/ separate_commands \/ SeparateFails \/ parse_commands \/ ReadFails
           \/ ParseCrashes \/ ExecuteCrashes \/ ExitCommand
           \/ reset_state \/ do_exit \/ handle_error \/ destroy_state
  BY <1>1, QuietTypes
<1>2. CASE ReadLine \/ ReadNothing
  BY <1>2, TakeTypes
<1>3. to_id = "EXECUTE_COMMANDS" => command \in Commands
  BY Zenon DEF TypeInv
<1>4. CASE ChangeDirectory
  <2>1. PICK fails \in BOOLEAN : error' = fails /\ Finish(IF fails THEN 1 ELSE 0, TRUE)
    BY <1>4 DEF ChangeDirectory
  <2>2. to_id = "EXECUTE_COMMANDS" /\ command.word \in Words /\ UNCHANGED <<child, files>>
    BY <1>4, FunctionsState DEF ChangeDirectory, StateOf, Words
  <2>3. (IF fails THEN 1 ELSE 0) \in Nat
    OBVIOUS
  <2> QED
    BY <2>1, <2>2, <2>3, FinishTypes
<1>5. CASE ForkFails
  <2>1. PICK code \in Codes \cup {0} : Finish(code, FALSE)
    BY <1>5 DEF ForkFails
  <2>2. code \in Nat
    BY ExecuteAssumption
  <2>3. to_id = "EXECUTE_COMMANDS" /\ command.word \in Words /\ UNCHANGED <<error, child, files>>
    BY <1>3, <1>5, FunctionsState DEF ForkFails, StateOf, Commands
  <2>4. error \in BOOLEAN
    BY TypeInvIs, Zenon DEF Bits
  <2> QED
    BY <2>1, <2>2, <2>3, <2>4, FinishTypes
<1>6. CASE Wait
  <2>1. child # Null /\ child' = Null /\ UNCHANGED <<error, files>>
    BY <1>6 DEF Wait, At
  <2>2. to_id = "EXECUTE_COMMANDS" /\ command.word \in Words /\ command \in Commands
    BY <1>3, <2>1 DEF PromptInv, Commands
  <2>3. child \in Children /\ error \in BOOLEAN
    BY <2>1, TypeInvIs, Zenon DEF Bits, Stores, ExecuteTypeOK
  <2>4. child.code \in Nat /\ command.exit_code \in Nat
    BY <2>2, <2>3 DEF Children, Commands
  <2> DEFINE code == IF At("exited") THEN child.code ELSE command.exit_code
  <2>5. code \in Nat /\ Finish(code, TRUE)
    BY <1>6, <2>4 DEF Wait
  <2> QED
    BY <2>1, <2>2, <2>3, <2>5, FinishTypes
<1>7. CASE Fork
  BY <1>7, ForkTypes
<1>8. CASE ChildStep
  BY <1>8, ChildStepTypes
<1>9. CASE UNCHANGED vars
  BY <1>9 DEF vars, io, state, TypeInv, TypeOK, InHand, ExecuteTypeOK
<1> QED
  BY <1>1, <1>2, <1>4, <1>5, <1>6, <1>7, <1>8, <1>9 DEF Next, ShellStep

(* Whatever is typed, read, run or broken off: every variable has its      *)
(* type; a log entry is of a word, and only what is open is written to.    *)
THEOREM ShellTypes == Spec => []TypeOK
<1>1. Init => PromptInv
  BY DEF Init, Machine!MachineInit, PromptInv
<1>2. TypeInv => TypeOK
  BY DEF TypeInv
<1> QED
  BY <1>1, <1>2, TypeInvInit, PromptInvStep, TypeInvStep, PTL DEF Spec

-----------------------------------------------------------------------------
(* The promise, seen from the shell's state.                                *)

OverCases ==
  /\ crashed => Over = "killed"
  /\ ~crashed /\ to_id \in {"INIT_STATE", "READ_COMMANDS", "RESET_STATE"} => Over = "no"
  /\ ~crashed /\ InHand => Over = "no"
  /\ ~crashed /\ error /\ to_id \in {"ERROR", "DESTROY_STATE", "DC_FSM_EXIT"} => Over = "failed"
  /\ ~crashed /\ ~error /\ to_id \in {"EXIT", "DESTROY_STATE", "DC_FSM_EXIT"} => Over = "exited"

LEMMA OverIs == OverCases
<1>1. crashed => Over = "killed"
  BY DEF Over
<1>2. ~crashed /\ to_id \in {"INIT_STATE", "READ_COMMANDS", "RESET_STATE"} => Over = "no"
  BY DEF Over
<1>3. ~crashed /\ InHand => Over = "no"
  BY DEF Over, InHand
<1>4. ~crashed /\ error /\ to_id \in {"ERROR", "DESTROY_STATE", "DC_FSM_EXIT"} => Over = "failed"
  BY DEF Over
<1>5. ~crashed /\ ~error /\ to_id \in {"EXIT", "DESTROY_STATE", "DC_FSM_EXIT"} => Over = "exited"
  BY DEF Over
<1> QED
  BY <1>1, <1>2, <1>3, <1>4, <1>5 DEF OverCases

(* The line in hand comes before all that is ahead; nobody's line is none.  *)
Remains ==
  /\ Ahead \in Seq(TypedLines)
  /\ Over = "no" => Unfinished = IF InHand /\ current_line \notin Strays
                                 THEN <<current_line>> \o Ahead ELSE Ahead
  /\ Over # "no" => Unfinished = <<>>

LEMMA UnfinishedIs == TypeInv => Remains
<1> SUFFICES ASSUME TypeInv PROVE Remains
  OBVIOUS
<1> DEFINE later == SubSeq(session.script, offset + 1, Len(session.script))
<1>1. buffered \in Seq(TypedLines) /\ later \in Seq(TypedLines)
  <2>1. session.script \in Seq(TypedLines) /\ offset \in 0 .. Len(session.script)
    BY ScriptIs DEF TypeInv
  <2> QED
    BY <2>1, ReadIs DEF TypeInv, Machinery, Stores
<1>2. Ahead = buffered \o later
  BY DEF Ahead
<1>3. Over # "no" => Unfinished = <<>>
  BY DEF Unfinished
<1>4. Over = "no" => Unfinished = (IF InHand /\ current_line \notin Strays THEN <<current_line>> ELSE <<>>)
                                    \o buffered \o later
  BY DEF Unfinished
<1> HIDE DEF later
<1>5. <<>> \o buffered = buffered
  BY <1>1, ConcatEmptySeq
<1>6. ASSUME InHand, current_line \notin Strays
      PROVE  (<<current_line>> \o buffered) \o later = <<current_line>> \o Ahead
  <2>1. current_line \in TypedLines
    BY <1>6 DEF TypeInv, WithWord
  <2>2. <<current_line>> \in Seq(TypedLines)
    BY <2>1
  <2> QED
    BY <1>1, <1>2, <2>2, ConcatAssociative
<1>7. Ahead \in Seq(TypedLines)
  BY <1>1, <1>2
<1> QED
  BY <1>2, <1>3, <1>4, <1>5, <1>6, <1>7 DEF Remains

(* run() ends as the directories of PATH say.                               *)
LEMMA OutcomeIs ==
  ASSUME NEW word \in Programs \cup {Garbage}
  PROVE  /\ 0 \in Outcomes(word)
         /\ Search(word) = "ok" => Codes \subseteq Outcomes(word)
         /\ Search(word) # "ok" => ErrorCode(Search(word)) \in Outcomes(word)
<1> DEFINE tries == IF word = Garbage THEN <<>> ELSE Tries[word]
           told == {i \in 1 .. Len(tries) : tries[i] # "ENOENT"}
           known == {tries[i] : i \in {i \in 1 .. Len(tries) :
                       tries[i] # "ENOENT" /\ \A j \in 1 .. i - 1 : tries[j] = "ENOENT"}}
           answers == IF known = {} THEN {"ENOENT"} ELSE known
<1>1. Search(word) = IF told = {} THEN "ENOENT" ELSE tries[Min(told)]
  BY DEF Search
<1>2. Outcomes(word) = {0} \cup (IF "ok" \in answers THEN Codes ELSE {})
                           \cup {ErrorCode(answer) : answer \in answers \ {"ok"}}
  BY DEF Outcomes
<1>3. tries \in Seq(Errors \cup {"ok"})
  BY ExecuteAssumption
<1>4. Len(tries) \in Nat
  BY <1>3
<1> HIDE DEF tries
<1>5. ASSUME told = {} PROVE Search(word) \in answers
  <2>1. known = {}
    BY <1>5
  <2> QED
    BY <1>1, <1>5, <2>1
<1>6. ASSUME told # {} PROVE Search(word) \in answers
  <2> DEFINE m == Min(told)
  <2>1. told \in SUBSET Nat
    OBVIOUS
  <2>2. Search(word) = tries[m]
    BY <1>1, <1>6
  <2> HIDE DEF told
  <2>3. m \in told /\ \A n \in told : m <= n
    BY <1>6, <2>1, LeastNumber
  <2> USE DEF told
  <2> HIDE DEF m
  <2>4. \A j \in 1 .. m - 1 : tries[j] = "ENOENT"
    <3> SUFFICES ASSUME NEW j \in 1 .. m - 1, tries[j] # "ENOENT" PROVE FALSE
      OBVIOUS
    <3>1. j \in told
      BY <1>4, <2>3
    <3> QED
      BY <1>4, <2>3, <3>1
  <2>5. tries[m] \in known
    BY <2>3, <2>4
  <2> QED
    BY <2>2, <2>5
<1>7. Search(word) \in answers
  BY <1>5, <1>6
<1> HIDE DEF answers
<1> QED
  BY <1>2, <1>7

-----------------------------------------------------------------------------
(* Which lines command.c can take apart.                                    *)

(* Without a redirection no file is named. *)
LEMMA NoFiles ==
  ASSUME NEW line \in Lines, line.redirs = <<>>
  PROVE  LET c == ParseCommand(line) IN
         c.stdin_file = Null /\ c.stdout_file = Null /\ c.stderr_file = Null
<1>1. \A ops : Rest(<<>>, ops) = <<>> /\ Before(<<>>, ops) = <<>>
  <2> TAKE ops
  <2>1. <<>> \in Seq(Redirections) /\ Len(<<>>) = 0
    OBVIOUS
  <2> DEFINE m == FirstOf(<<>>, ops)
             r == Rest(<<>>, ops)
             b == Before(<<>>, ops)
  <2>2. m \in 1 .. Len(<<>>) + 1
    BY <2>1, FirstIs
  <2>3. /\ r \in Seq(Redirections) /\ b \in Seq(Redirections)
        /\ Len(r) = Len(<<>>) + 1 - m /\ Len(b) = m - 1
    BY <2>1, PartsOf
  <2> HIDE DEF m, r, b
  <2>4. m = 1
    BY <2>1, <2>2
  <2>5. Len(r) = 0 /\ Len(b) = 0
    BY <2>1, <2>3, <2>4
  <2> QED
    BY <2>3, <2>5 DEF r, b
<1>2. <<>> \in Seq(Redirections)
  OBVIOUS
<1>3. NameAfter(<<>>) = Null
  BY <1>2, NameIs
<1> QED
  BY <1>1, <1>3 DEF ParseCommand, NoCommand

Rank(op) == CASE op = "<" -> 1 [] op \in {">", ">>"} -> 2 [] op \in {"2>", "2>>"} -> 3

Rising(redirs) ==
  \A i, j \in 1 .. Len(redirs) : i < j => Rank(redirs[i].op) < Rank(redirs[j].op)

Below(redirs, k) == \A i \in 1 .. Len(redirs) : Rank(redirs[i].op) <= k

Finds(ops, k) == \A op \in {"<", ">", ">>", "2>", "2>>"} : op \in ops <=> Rank(op) = k

(* Each of err_func(), out_func() and in_func() finds at most its own.      *)
LEMMA CutIs ==
  ASSUME NEW redirs \in Seq(Redirections), NEW k \in 1 .. 3, NEW ops,
         Rising(redirs), Below(redirs, k), Finds(ops, k)
  PROVE  /\ Len(Rest(redirs, ops)) <= 1
         /\ Rising(Before(redirs, ops)) /\ Below(Before(redirs, ops), k - 1)
<1> DEFINE m == FirstOf(redirs, ops)
           n == Len(redirs)
<1>1. /\ n \in Nat /\ m \in 1 .. n + 1 /\ (m <= n => redirs[m].op \in ops)
      /\ \A j \in 1 .. n : j < m => redirs[j].op \notin ops
  BY FirstIs
<1>2. /\ Len(Rest(redirs, ops)) = n + 1 - m /\ Len(Before(redirs, ops)) = m - 1
      /\ \A j \in 1 .. m - 1 : Before(redirs, ops)[j] = redirs[j]
  BY PartsOf
<1>3. \A i \in 1 .. n : /\ redirs[i].op \in {"<", ">", ">>", "2>", "2>>"}
                        /\ Rank(redirs[i].op) \in 1 .. 3 /\ Rank(redirs[i].op) <= k
  <2>1. \A i \in 1 .. n : redirs[i] \in Redirections
    BY <1>1
  <2>2. \A op \in {"<", ">", ">>", "2>", "2>>"} : Rank(op) \in 1 .. 3
    BY DEF Rank
  <2>3. \A i \in 1 .. n : redirs[i].op \in {"<", ">", ">>", "2>", "2>>"}
    BY <2>1 DEF Redirections
  <2> QED
    BY <2>2, <2>3 DEF Below
<1>4. \A i, j \in 1 .. n : i < j => Rank(redirs[i].op) < Rank(redirs[j].op)
  BY DEF Rising
<1> HIDE DEF m, n
<1>5. n + 1 - m <= 1
  <2> SUFFICES ASSUME m < n PROVE FALSE
    BY <1>1
  <2>1. m \in 1 .. n /\ n \in 1 .. n /\ redirs[m].op \in ops
    BY <1>1
  <2>2. Rank(redirs[m].op) = k
    BY <1>3, <2>1 DEF Finds
  <2> QED
    BY <1>3, <1>4, <2>1, <2>2
<1>6. \A j \in 1 .. m - 1 : j \in 1 .. n /\ Rank(redirs[j].op) <= k - 1
  <2> TAKE j \in 1 .. m - 1
  <2>1. j \in 1 .. n /\ j < m
    BY <1>1
  <2>2. Rank(redirs[j].op) # k
    BY <1>1, <1>3, <2>1 DEF Finds
  <2> QED
    BY <1>3, <2>1, <2>2
<1>7. Below(Before(redirs, ops), k - 1)
  BY <1>2, <1>6 DEF Below
<1>8. Rising(Before(redirs, ops))
  BY <1>2, <1>4, <1>6 DEF Rising
<1> QED
  BY <1>2, <1>5, <1>7, <1>8

Err == {"2>", "2>>"}
Out == {">", ">>"}
Inp == {"<"}

LEMMA PartsAreShort ==
  ASSUME NEW line \in Lines, WellFormed(line)
  PROVE  /\ Len(Rest(line.redirs, Err)) <= 1
         /\ Len(Rest(Before(line.redirs, Err), Out)) <= 1
         /\ Len(Rest(Before(Before(line.redirs, Err), Out), Inp)) <= 1
<1> DEFINE r == line.redirs
           b == Before(r, Err)
           a == Before(b, Out)
<1>1. r \in Seq(Redirections)
  BY DEF Lines
<1>2. Rising(r)
  BY DEF WellFormed, Rising, Rank
<1>3. Below(r, 3)
  <2>1. \A i \in 1 .. Len(r) : r[i] \in Redirections
    BY <1>1
  <2>2. \A op \in {"<", ">", ">>", "2>", "2>>"} : Rank(op) <= 3
    BY DEF Rank
  <2> QED
    BY <2>1, <2>2 DEF Below, Redirections
<1>4. Finds(Err, 3) /\ Finds(Out, 2) /\ Finds(Inp, 1)
  BY DEF Finds, Rank, Err, Out, Inp
<1>5. /\ Rest(r, Err) \in Seq(Redirections) /\ b \in Seq(Redirections)
      /\ Rest(b, Out) \in Seq(Redirections) /\ a \in Seq(Redirections)
      /\ Rest(a, Inp) \in Seq(Redirections)
  BY <1>1, PartsOf
<1> HIDE DEF r
<1>6. Len(Rest(r, Err)) <= 1 /\ Rising(b) /\ Below(b, 2)
  <2>1. Len(Rest(r, Err)) <= 1 /\ Rising(b) /\ Below(b, 3 - 1)
    BY <1>1, <1>2, <1>3, <1>4, CutIs
  <2> QED
    BY <2>1
<1> HIDE DEF b
<1>7. Len(Rest(b, Out)) <= 1 /\ Rising(a) /\ Below(a, 1)
  <2>1. Len(Rest(b, Out)) <= 1 /\ Rising(a) /\ Below(a, 2 - 1)
    BY <1>4, <1>5, <1>6, CutIs
  <2> QED
    BY <2>1
<1> HIDE DEF a
<1>8. Len(Rest(a, Inp)) <= 1
  BY <1>4, <1>5, <1>7, CutIs
<1> QED
  BY <1>6, <1>7, <1>8 DEF r, a, b

LEMMA WellFormedIs ==
  ASSUME NEW line \in Lines, WellFormed(line)
  PROVE  ~Mangled(ParseCommand(line))
<1> DEFINE r == line.redirs
           b == Before(r, Err)
           a == Before(b, Out)
<1>1. /\ Rest(r, Err) \in Seq(Redirections) /\ Len(Rest(r, Err)) <= 1
      /\ Rest(b, Out) \in Seq(Redirections) /\ Len(Rest(b, Out)) <= 1
      /\ Rest(a, Inp) \in Seq(Redirections) /\ Len(Rest(a, Inp)) <= 1
  BY PartsOf, PartsAreShort DEF Lines
<1> HIDE DEF r, a, b
<1>2. {NameAfter(Rest(r, Err)), NameAfter(Rest(b, Out)), NameAfter(Rest(a, Inp))} \subseteq Files \cup {Null}
  BY <1>1, NameIs
<1>3. /\ ParseCommand(line).stderr_file = NameAfter(Rest(r, Err))
      /\ ParseCommand(line).stdout_file = NameAfter(Rest(b, Out))
      /\ ParseCommand(line).stdin_file = NameAfter(Rest(a, Inp))
  BY DEF ParseCommand, NoCommand, Err, Out, Inp, r, a, b
<1> QED
  BY <1>2, <1>3, CommandsAssumption DEF Mangled

-----------------------------------------------------------------------------
(* The shell and its child keep step with the line.                         *)

LEMMA LoopInvInit == Init => LoopInv
BY DEF Init, LoopInv, ChildInv, InHand, Machine!MachineInit

(* What is known where a command is carried out. *)
LEMMA CommandIs ==
  ASSUME TypeInv, LoopInv, to_id = "EXECUTE_COMMANDS"
  PROVE  /\ current_line \in WithWord /\ current_line \in Lines
         /\ command = ParseCommand(current_line) /\ command \in Commands /\ command.exit_code = 0
         /\ command.word = IF current_line.word = "bad" THEN Null ELSE current_line.word
         /\ current_line.word \in Words \cup {"bad", Null}
         /\ ~error /\ ~fatal_error
         /\ current_line \in Strays => buffered = <<>> /\ offset = Len(session.script)
<1>1. current_line \in WithWord
  BY DEF TypeInv, InHand
<1>2. /\ command = ParseCommand(current_line) /\ ~error /\ ~fatal_error
      /\ current_line \in Strays => buffered = <<>> /\ offset = Len(session.script)
  BY DEF LoopInv, InHand
<1>3. /\ current_line \in Lines /\ ParseCommand(current_line) \in Commands
      /\ ParseCommand(current_line).exit_code = 0
      /\ ParseCommand(current_line).word = IF current_line.word = "bad" THEN Null ELSE current_line.word
      /\ current_line.word \in Words \cup {"bad", Null}
  BY <1>1, ParseIsCommand
<1> QED
  BY <1>1, <1>2, <1>3

LEMMA ProgramIs ==
  ASSUME TypeInv, LoopInv, to_id = "EXECUTE_COMMANDS", command.word \notin {Null, "cd", "exit"}
  PROVE  /\ current_line.word = command.word /\ command.word \in Programs \cup {Garbage}
         /\ Outcomes(command.word) \subseteq Ends(current_line)
         /\ current_line.redirs # <<>> => 126 \in Ends(current_line)
<1>1. /\ command.word = IF current_line.word = "bad" THEN Null ELSE current_line.word
      /\ current_line.word \in Words \cup {"bad", Null}
  BY CommandIs
<1>2. current_line.word = command.word /\ command.word \in Programs \cup {Garbage}
  BY <1>1 DEF Words
<1>3. Ends(current_line) = Outcomes(command.word)
                             \cup (IF current_line.redirs # <<>> THEN {126} ELSE {})
  BY <1>2 DEF Ends
<1> QED
  BY <1>2, <1>3

LEMMA ChildInvStep ==
  ASSUME TypeInv, PromptInv, LoopInv,
         \/ Redirect \/ RunProgram \/ RunFails \/ Signalled
         \/ \E code \in Codes : ProgramEnds(code),
         UNCHANGED <<current_line, command>>
  PROVE  ChildInv'
<1>1. child # Null /\ child \in Children
  BY DEF Redirect, RunProgram, RunFails, Signalled, ProgramEnds, At, TypeInv, TypeOK, ExecuteTypeOK
<1>2. to_id = "EXECUTE_COMMANDS" /\ command.word \notin {Null, "cd", "exit"}
  BY <1>1 DEF PromptInv
<1>3. child.command = command /\ ~child.error /\ (child.pc = "program" => Search(command.word) = "ok")
  BY <1>1 DEF LoopInv, ChildInv
<1>4. /\ command.word \in Programs \cup {Garbage}
      /\ Outcomes(command.word) \subseteq Ends(current_line)
      /\ current_line.redirs # <<>> => 126 \in Ends(current_line)
  BY <1>2, ProgramIs
<1>5. CASE Redirect
  <2>1. \/ child' = [child EXCEPT !.pc = "exited", !.code = 126] /\ current_line.redirs # <<>>
        \/ child' = [child EXCEPT !.pc = "run"]
    <3>1. CASE current_line.redirs # <<>>
      BY <1>5, <3>1 DEF Redirect, Exit
    <3>2. CASE current_line.redirs = <<>>
      <4>1. command.stdin_file = Null /\ command.stdout_file = Null /\ command.stderr_file = Null
        BY <1>2, <3>2, CommandIs, NoFiles
      <4>2. Null \notin Unwritable
        BY CommandsAssumption, ExecuteAssumption
      <4> QED
        BY <1>3, <1>5, <4>1, <4>2 DEF Redirect, Exit
    <3> QED
      BY <3>1, <3>2
  <2>2. CASE child' = [child EXCEPT !.pc = "exited", !.code = 126] /\ current_line.redirs # <<>>
    BY <1>1, <1>3, <1>4, <2>2 DEF ChildInv, Children
  <2>3. CASE child' = [child EXCEPT !.pc = "run"]
    BY <1>1, <1>3, <2>3 DEF ChildInv, Children
  <2> QED
    BY <2>1, <2>2, <2>3
<1>6. CASE RunProgram
  BY <1>1, <1>3, <1>6 DEF ChildInv, Children, RunProgram
<1>7. CASE RunFails
  <2>1. ErrorCode(Search(command.word)) \in Ends(current_line)
    BY <1>3, <1>4, <1>7, OutcomeIs DEF RunFails
  <2>2. child' = [child EXCEPT !.pc = "exited", !.code = ErrorCode(Search(command.word))]
    BY <1>3, <1>7 DEF RunFails, Exit
  <2> QED
    BY <1>1, <1>3, <2>1, <2>2 DEF ChildInv, Children
<1>8. ASSUME NEW code \in Codes, ProgramEnds(code)
      PROVE  ChildInv'
  <2>1. code \in Ends(current_line)
    BY <1>3, <1>4, <1>8, OutcomeIs DEF ProgramEnds, At
  <2>2. child' = [child EXCEPT !.pc = "exited", !.code = code]
    BY <1>8 DEF ProgramEnds, Exit
  <2> QED
    BY <1>1, <1>3, <2>1, <2>2 DEF ChildInv, Children
<1>9. CASE Signalled
  BY <1>1, <1>3, <1>9 DEF ChildInv, Children, Signalled
<1> QED
  BY <1>5, <1>6, <1>7, <1>8, <1>9

LEMMA LoopInvStep ==
  ASSUME "file" \notin Inputs, TypeInv, PromptInv, LoopInv, [Next]_vars
  PROVE  LoopInv'
<1>1. child' = Null => ChildInv'
  BY DEF ChildInv
<1>2. to_id # "EXECUTE_COMMANDS" => child = Null
  BY DEF PromptInv
<1>3. /\ to_id \in {"INIT_STATE", "READ_COMMANDS", "SEPARATE_COMMANDS", "PARSE_COMMANDS",
                    "EXECUTE_COMMANDS", "EXIT"} => ~error
      /\ InHand => ~fatal_error /\ (current_line \in Strays => buffered = <<>> /\ offset = Len(session.script))
  BY DEF LoopInv
<1>4. CASE init_state
  BY <1>1, <1>2, <1>3, <1>4, FunctionsState DEF init_state, Return, Machine!Return, StateOf, LoopInv, InHand
<1>5. ASSUME NEW line, TakeLine(line), line \in Strays => buffered' = <<>> /\ offset' = Len(session.script)
      PROVE  LoopInv'
  BY <1>1, <1>2, <1>3, <1>5, FunctionsState
     DEF TakeLine, Return, Machine!Return, StateOf, LoopInv, InHand
<1>6. CASE ReadLine
  <2>1. Head(Fetched) \in TypedLines /\ TypedLines \cap Strays = {}
    <3>1. Head(Fetched) \in TypedLines
      BY <1>6, FetchIs DEF ReadLine
    <3>2. TypedLines \cap Strays = {}
      BY DEF TypedLines, Strays, Unknown
    <3> QED
      BY <3>1, <3>2
  <2> QED
    BY <1>5, <1>6, <2>1 DEF ReadLine
<1>7. CASE ReadNothing
  <2>1. buffered' = <<>> /\ offset' = Len(session.script)
    BY <1>7, NothingFetched DEF ReadNothing
  <2> QED
    BY <1>5, <1>7, <2>1 DEF ReadNothing
<1>8. CASE ReadFails
  BY <1>1, <1>2, <1>8, FunctionsState DEF ReadFails, Return, Machine!Return, StateOf, LoopInv, InHand
<1>9. CASE separate_commands
  BY <1>1, <1>2, <1>3, <1>9, FunctionsState
     DEF separate_commands, Return, Machine!Return, StateOf, LoopInv, InHand, io
<1>10. CASE SeparateFails
  BY <1>1, <1>2, <1>10, FunctionsState DEF SeparateFails, Return, Machine!Return, StateOf, LoopInv, InHand
<1>11. CASE parse_commands
  BY <1>1, <1>2, <1>3, <1>11, FunctionsState
     DEF parse_commands, Return, Machine!Return, StateOf, LoopInv, InHand, io
<1>12. CASE ParseCrashes \/ ExecuteCrashes \/ UNCHANGED vars
  BY <1>12 DEF ParseCrashes, ExecuteCrashes, Crash, LoopInv, InHand, ChildInv, vars, io, state
<1>13. ASSUME NEW code, NEW started, Finish(code, started), to_id = "EXECUTE_COMMANDS", child' = Null
       PROVE  LoopInv'
  BY <1>1, <1>3, <1>13 DEF Finish, Return, Machine!Return, LoopInv, InHand
<1>14. CASE ChangeDirectory
  <2>1. to_id = "EXECUTE_COMMANDS" /\ child' = Null
    BY <1>14, FunctionsState DEF ChangeDirectory, StateOf, PromptInv
  <2> QED
    BY <1>13, <1>14, <2>1 DEF ChangeDirectory
<1>15. CASE ExitCommand
  <2>1. to_id = "EXECUTE_COMMANDS" /\ child' = Null
    BY <1>15, FunctionsState DEF ExitCommand, StateOf, PromptInv
  <2> QED
    BY <1>1, <1>3, <1>15, <2>1 DEF ExitCommand, Return, Machine!Return, LoopInv, InHand, state
<1>16. CASE Fork
  <2>1. to_id = "EXECUTE_COMMANDS" /\ UNCHANGED <<session, offset, buffered, current_line, command,
                                                   fatal_error, error, to_id>>
    BY <1>16, FunctionsState DEF Fork, StateOf, io, state
  <2>2. ChildInv'
    BY <1>3, <1>16, <2>1 DEF Fork, Born, ChildInv
  <2> QED
    BY <1>3, <2>1, <2>2 DEF LoopInv, InHand
<1>17. CASE ForkFails
  BY <1>13, <1>17, FunctionsState DEF ForkFails, StateOf
<1>18. CASE Wait
  BY <1>13, <1>18, FunctionsState DEF Wait, StateOf
<1>19. CASE reset_state
  BY <1>1, <1>2, <1>19, FunctionsState DEF reset_state, Reset, Return, Machine!Return, StateOf, LoopInv, InHand
<1>20. CASE do_exit
  BY <1>1, <1>2, <1>20, FunctionsState DEF do_exit, Reset, Return, Machine!Return, StateOf, LoopInv, InHand
<1>21. CASE handle_error
  <2>1. fatal_error /\ to_id = "ERROR"
    BY <1>21, FunctionsState DEF handle_error, StateOf, LoopInv
  <2> QED
    BY <1>1, <1>2, <1>21, <2>1 DEF handle_error, Return, Machine!Return, LoopInv, InHand
<1>22. CASE destroy_state
  BY <1>1, <1>2, <1>22, FunctionsState DEF destroy_state, Return, Machine!Return, StateOf, LoopInv, InHand
<1>23. CASE ChildStep
  <2>1. /\ \/ Redirect \/ RunProgram \/ RunFails \/ Signalled
           \/ \E code \in Codes : ProgramEnds(code)
        /\ UNCHANGED <<session, current_line, command, fatal_error, error, to_id>>
    BY <1>23 DEF ChildStep, state
  <2>2. UNCHANGED <<offset, buffered>>
    <3>1. session.in # "file"
      BY DEF TypeInv, TypeOK
    <3> QED
      BY <1>23, <3>1 DEF ChildStep, LeaveByExit, io
  <2>3. ChildInv'
    BY <2>1, ChildInvStep
  <2> QED
    BY <2>1, <2>2, <2>3 DEF LoopInv, InHand
<1> QED
  BY <1>4, <1>6, <1>7, <1>8, <1>9, <1>10, <1>11, <1>12, <1>14, <1>15, <1>16, <1>17, <1>18,
     <1>19, <1>20, <1>21, <1>22, <1>23 DEF Next, ShellStep

-----------------------------------------------------------------------------
(* The shell implements its promise.                                        *)

LEMMA HandedOut ==
  ASSUME NEW line \in TypedLines, NEW later \in Seq(TypedLines)
  PROVE  <<line>> \o later # <<>> /\ Head(<<line>> \o later) = line /\ Tail(<<line>> \o later) = later
<1> DEFINE whole == <<line>> \o later
<1>1. <<line>> \in Seq(TypedLines) /\ Len(<<line>>) = 1 /\ <<line>>[1] = line
  OBVIOUS
<1>2. /\ whole \in Seq(TypedLines) /\ Len(whole) = 1 + Len(later)
      /\ \A i \in 1 .. 1 + Len(later) : whole[i] = IF i <= 1 THEN <<line>>[i] ELSE later[i - 1]
  BY <1>1, ConcatProperties
<1>3. Len(later) \in Nat
  OBVIOUS
<1> HIDE DEF whole
<1>4. whole # <<>> /\ Head(whole) = line
  BY <1>1, <1>2, <1>3
<1>5. /\ Tail(whole) \in Seq(TypedLines) /\ Len(Tail(whole)) = Len(later)
      /\ \A i \in 1 .. Len(later) : Tail(whole)[i] = later[i]
  BY <1>2, <1>3, <1>4, HeadTailProperties
<1>6. Tail(whole) = later
  BY <1>5
<1> QED
  BY <1>4, <1>6 DEF whole

(* Nothing is ahead where the whole script was handed out. *)
LEMMA NothingAhead ==
  ASSUME TypeInv, buffered = <<>>, offset = Len(session.script)
  PROVE  Ahead = <<>>
<1>1. session.script \in Seq(TypedLines) /\ Len(session.script) \in Nat
  BY ScriptIs DEF TypeInv
<1>2. SubSeq(session.script, offset + 1, Len(session.script)) = <<>>
  BY <1>1, SubSeqEmpty
<1>3. <<>> \in Seq(TypedLines) /\ <<>> \o <<>> = <<>>
  OBVIOUS
<1> QED
  BY <1>2, <1>3 DEF Ahead

LEMMA AheadStays ==
  ASSUME UNCHANGED <<session, buffered, offset>>
  PROVE  Ahead' = Ahead
BY DEF Ahead

LEMMA FinishCarriesOut ==
  ASSUME TypeInv, LoopInv, Remains', OverCases', ~crashed, to_id = "EXECUTE_COMMANDS",
         command.word \notin {Null, "exit"},
         NEW code \in Codes \cup {0, 1, 126, 127} \cup Ends(current_line), NEW started \in BOOLEAN,
         started => code \in Ends(current_line), Finish(code, started)
  PROVE  Promise!Next
<1>1. /\ current_line \in WithWord /\ ~fatal_error
      /\ command.word = IF current_line.word = "bad" THEN Null ELSE current_line.word
      /\ current_line \in Strays => buffered = <<>> /\ offset = Len(session.script)
  BY CommandIs
<1>2. Remains /\ OverCases
  BY UnfinishedIs, OverIs
<1>3. /\ to_id' = "RESET_STATE" /\ ~crashed'
      /\ log' = Append(log, [word |-> command.word, code |-> code, started |-> started])
      /\ UNCHANGED <<session, buffered, offset>>
  BY <1>1 DEF Finish, Return, Machine!Return
<1>4. Over = "no" /\ Over' = "no"
  BY <1>2, <1>3 DEF OverCases, InHand
<1>5. current_line.word = command.word
  BY <1>1
<1>6. Promise!CarryOut(current_line)
  BY <1>3, <1>4, <1>5 DEF Promise!CarryOut
<1>7. Unfinished' = Ahead /\ Ahead \in Seq(TypedLines)
  BY <1>2, <1>3, <1>4, AheadStays DEF Remains, InHand
<1>8. CASE current_line \in Strays
  <2>1. current_line = Unknown
    BY <1>5, <1>8, CommandsAssumption DEF Strays
  <2>2. Unfinished = <<>> /\ Unfinished' = <<>>
    BY <1>1, <1>2, <1>4, <1>7, <1>8, NothingAhead DEF Remains
  <2> QED
    BY <1>4, <1>6, <2>1, <2>2 DEF Promise!Next
<1>9. CASE current_line \notin Strays
  <2>1. current_line \in TypedLines /\ current_line.word \notin {"blank", "bad", "exit"}
    BY <1>1, <1>5, <1>9 DEF WithWord, TypedLines
  <2>2. Unfinished = <<current_line>> \o Ahead
    BY <1>2, <1>4, <1>9 DEF Remains, InHand
  <2>3. Unfinished # <<>> /\ Head(Unfinished) = current_line /\ Unfinished' = Tail(Unfinished)
    BY <1>7, <2>1, <2>2, HandedOut
  <2> QED
    BY <1>4, <1>6, <2>1, <2>3 DEF Promise!Next
<1> QED
  BY <1>8, <1>9

(* A crash is a line's that command.c cannot take apart, or nobody's.       *)
LEMMA CrashKills ==
  ASSUME TypeInv, LoopInv, Remains', OverCases', ParseCrashes \/ ExecuteCrashes
  PROVE  Promise!Next
<1>1. ~crashed /\ crashed' /\ log' = log /\ to_id \in {"PARSE_COMMANDS", "EXECUTE_COMMANDS"}
  BY FunctionsState DEF ParseCrashes, ExecuteCrashes, Crash, StateOf
<1>2. Remains /\ OverCases
  BY UnfinishedIs, OverIs
<1>3. Over = "no" /\ Over' = "killed" /\ Unfinished' = <<>>
  BY <1>1, <1>2 DEF OverCases, Remains, InHand
<1>4. current_line \in WithWord
  BY <1>1 DEF TypeInv, InHand
<1>5. ~Reliable(current_line)
  <2>1. current_line \in Lines /\ current_line # Blank
    <3>1. current_line \in Lines /\ current_line.word \in Words \cup {"bad", Null}
      BY <1>4, ParseIsCommand
    <3>2. "blank" \notin Words \cup {"bad", Null}
      BY CommandsAssumption DEF Words
    <3> QED
      BY <3>1, <3>2 DEF Blank
  <2>2. CASE ParseCrashes
    BY <2>1, <2>2, WellFormedIs DEF ParseCrashes, Reliable
  <2>3. CASE ExecuteCrashes
    <3>1. current_line.word \in {"bad", Null}
      BY <2>3, CommandIs, FunctionsState DEF ExecuteCrashes, StateOf
    <3> QED
      BY <2>1, <3>1, CommandsAssumption DEF Reliable, WellFormed, Words
  <2> QED
    BY <2>2, <2>3
<1>6. Unfinished # <<>> => Head(Unfinished) = current_line
  <2>1. CASE current_line \in Strays
    <3>1. Ahead = <<>>
      BY <1>1, <2>1, NothingAhead DEF LoopInv, InHand
    <3> QED
      BY <1>2, <1>3, <2>1, <3>1 DEF Remains
  <2>2. CASE current_line \notin Strays
    BY <1>1, <1>2, <1>3, <1>4, <2>2, HandedOut DEF Remains, InHand, WithWord
  <2> QED
    BY <2>1, <2>2
<1> QED
  BY <1>1, <1>3, <1>5, <1>6 DEF Promise!Next, Promise!End

LEMMA PromiseInit == Init => Promise!Init
<1> SUFFICES ASSUME Init PROVE Promise!Init
  OBVIOUS
<1>1. /\ session.script \in Scripts /\ offset = 0 /\ buffered = <<>> /\ log = <<>>
      /\ ~crashed /\ to_id = "INIT_STATE"
  BY DEF Init, Machine!MachineInit
<1>2. Over = "no" /\ Remains
  BY <1>1, OverIs, TypeInvInit, UnfinishedIs DEF OverCases
<1>3. Ahead = session.script
  <2>1. session.script \in Seq(TypedLines) /\ offset + 1 = 1
    BY <1>1, ShellAssumption
  <2>2. SubSeq(session.script, offset + 1, Len(session.script)) = session.script
    BY <2>1, SubSeqFull
  <2> QED
    BY <1>1, <2>1, <2>2, ConcatEmptySeq DEF Ahead
<1> QED
  BY <1>1, <1>2, <1>3 DEF Promise!Init, Remains, InHand

(* A function after which the same lines are unfinished. *)
LEMMA LineStays ==
  ASSUME Remains, Remains', Over' = Over, Ahead' = Ahead,
         InHand' <=> InHand, InHand => current_line' = current_line
  PROVE  Unfinished' = Unfinished
<1>1. CASE InHand
  BY <1>1 DEF Remains, Strays
<1>2. CASE ~InHand
  BY <1>2 DEF Remains
<1> QED
  BY <1>1, <1>2

LEMMA PromiseStep ==
  ASSUME "file" \notin Inputs, TypeInv, PromptInv, LoopInv, TypeInv', [Next]_vars
  PROVE  [Promise!Next]_(Promise!vars)
<1> DEFINE Stays == Unfinished' = Unfinished /\ log' = log /\ Over' = Over
<1>1. Stays => UNCHANGED Promise!vars
  BY DEF Promise!vars
<1>2. Remains /\ OverCases /\ Remains' /\ OverCases'
  <2>1. TypeInv => Remains
    BY UnfinishedIs
  <2>2. (TypeInv => Remains)'
    BY UnfinishedIs, PTL
  <2>3. OverCases /\ OverCases'
    BY OverIs, PTL
  <2> QED
    BY <2>1, <2>2, <2>3
<1>3. CASE init_state \/ separate_commands \/ parse_commands \/ reset_state
  <2>1. /\ \/ to_id = "INIT_STATE" /\ to_id' = "READ_COMMANDS"
           \/ to_id = "SEPARATE_COMMANDS" /\ to_id' = "PARSE_COMMANDS" /\ current_line' = current_line
           \/ to_id = "PARSE_COMMANDS" /\ to_id' = "EXECUTE_COMMANDS" /\ current_line' = current_line
           \/ to_id = "RESET_STATE" /\ to_id' = "READ_COMMANDS"
        /\ ~crashed /\ ~crashed' /\ UNCHANGED <<session, buffered, offset, log>>
    BY <1>3, FunctionsState
       DEF init_state, separate_commands, parse_commands, reset_state, Return, Machine!Return, StateOf, io
  <2>2. Over = "no" /\ Over' = "no"
    BY <1>2, <2>1 DEF OverCases, InHand
  <2>3. /\ InHand' <=> InHand
        /\ InHand => current_line' = current_line
    BY <2>1 DEF InHand
  <2>4. Unfinished' = Unfinished
    BY <1>2, <2>1, <2>2, <2>3, AheadStays, LineStays
  <2> QED
    BY <1>1, <2>1, <2>2, <2>4
<1>4. CASE ReadLine
  <2> DEFINE line == Head(Fetched)
  <2>1. /\ to_id = "READ_COMMANDS" /\ ~crashed /\ ~crashed' /\ log' = log /\ current_line' = line
        /\ to_id' = IF line = Blank THEN "RESET_STATE" ELSE "SEPARATE_COMMANDS"
    BY <1>4, FunctionsState DEF ReadLine, TakeLine, Return, Machine!Return, StateOf
  <2>2. line \in TypedLines /\ Ahead = <<line>> \o Ahead'
    <3>1. UNCHANGED session
      BY <1>4 DEF ReadLine, TakeLine, Return
    <3> QED
      BY <1>4, <3>1, FetchIs DEF ReadLine, Ahead
  <2> HIDE DEF line
  <2>3. Over = "no" /\ Over' = "no"
    BY <1>2, <2>1 DEF OverCases, InHand
  <2>4. Unfinished = <<line>> \o Ahead'
    BY <1>2, <2>1, <2>2, <2>3 DEF Remains, InHand
  <2>5. CASE line = Blank
    <3>1. Unfinished' = Ahead' /\ Ahead' \in Seq(TypedLines)
      BY <1>2, <2>1, <2>3, <2>5 DEF Remains, InHand
    <3>2. Unfinished # <<>> /\ Head(Unfinished) = line /\ Unfinished' = Tail(Unfinished)
      BY <2>2, <2>4, <3>1, HandedOut
    <3>3. Promise!Skip
      BY <2>1, <2>3, <2>5, <3>2 DEF Promise!Skip, Blank
    <3> QED
      BY <2>3, <3>3 DEF Promise!Next
  <2>6. CASE line # Blank
    <3>1. line \notin Strays
      BY <2>2 DEF TypedLines, Strays, Unknown
    <3>2. Unfinished' = <<line>> \o Ahead'
      BY <1>2, <2>1, <2>3, <2>6, <3>1 DEF Remains, InHand
    <3> QED
      BY <1>1, <2>1, <2>3, <2>4, <3>2
  <2> QED
    BY <2>5, <2>6
<1>5. CASE ReadNothing
  <2>1. PICK line \in {Blank} \cup Strays : TakeLine(line)
    BY <1>5 DEF ReadNothing
  <2>2. /\ to_id = "READ_COMMANDS" /\ ~crashed /\ ~crashed' /\ log' = log /\ current_line' = line
        /\ to_id' = IF line = Blank THEN "RESET_STATE" ELSE "SEPARATE_COMMANDS"
        /\ UNCHANGED session
    BY <2>1, FunctionsState DEF TakeLine, Return, Machine!Return, StateOf
  <2>3. Ahead = <<>> /\ Ahead' = <<>>
    BY <1>5, <2>2, NothingFetched, NothingAhead, AheadStays DEF ReadNothing
  <2>4. Over = "no" /\ Over' = "no"
    BY <1>2, <2>2 DEF OverCases, InHand
  <2>5. Unfinished = <<>> /\ Unfinished' = <<>>
    BY <1>2, <2>1, <2>2, <2>3, <2>4 DEF Remains, InHand
  <2> QED
    BY <1>1, <2>2, <2>4, <2>5
<1>6. CASE ReadFails \/ SeparateFails
  <2>1. /\ to_id \in {"READ_COMMANDS", "SEPARATE_COMMANDS"} /\ to_id' = "ERROR"
        /\ ~crashed /\ ~crashed' /\ error' /\ log' = log
    BY <1>6, FunctionsState DEF ReadFails, SeparateFails, Return, Machine!Return, StateOf
  <2>2. Over = "no" /\ Over' = "failed"
    BY <1>2, <2>1 DEF OverCases, InHand
  <2>3. Unfinished' = <<>>
    BY <1>2, <2>2 DEF Remains
  <2> QED
    BY <2>1, <2>2, <2>3 DEF Promise!Next, Promise!End
<1>7. CASE ParseCrashes \/ ExecuteCrashes
  BY <1>2, <1>7, CrashKills
<1>8. CASE ChangeDirectory
  <2>1. PICK fails \in BOOLEAN : Finish(IF fails THEN 1 ELSE 0, TRUE)
    BY <1>8 DEF ChangeDirectory
  <2>2. ~crashed /\ to_id = "EXECUTE_COMMANDS" /\ command.word = "cd"
    BY <1>8, FunctionsState DEF ChangeDirectory, StateOf
  <2>3. {0, 1} \subseteq Ends(current_line) /\ Null # "cd"
    BY <2>2, CommandIs, CommandsAssumption DEF Ends
  <2>4. ASSUME NEW code \in {0, 1}, Finish(code, TRUE) PROVE Promise!Next
    BY <1>2, <2>2, <2>3, <2>4, FinishCarriesOut
  <2> QED
    BY <2>1, <2>4
<1>9. CASE ExitCommand
  <2>1. /\ to_id = "EXECUTE_COMMANDS" /\ to_id' = "EXIT" /\ command.word = "exit"
        /\ ~crashed /\ ~crashed' /\ ~error' /\ log' = log
    BY <1>9, FunctionsState, CommandIs DEF ExitCommand, Return, Machine!Return, StateOf, state
  <2>2. Over = "no" /\ Over' = "exited"
    BY <1>2, <2>1 DEF OverCases, InHand
  <2>3. current_line.word = "exit" /\ current_line \in TypedLines /\ current_line \notin Strays
    <3>1. Null # "exit" /\ Garbage # "exit"
      BY CommandsAssumption
    <3>2. current_line.word = "exit" /\ current_line \in WithWord
      BY <2>1, <3>1, CommandIs
    <3> QED
      BY <3>1, <3>2 DEF WithWord, Strays, Unknown
  <2>4. Unfinished' = <<>> /\ Unfinished = <<current_line>> \o Ahead /\ Ahead \in Seq(TypedLines)
    BY <1>2, <2>1, <2>2, <2>3 DEF Remains, InHand
  <2>5. Unfinished # <<>> /\ Head(Unfinished) = current_line
    BY <2>3, <2>4, HandedOut
  <2> QED
    BY <2>1, <2>2, <2>3, <2>4, <2>5 DEF Promise!Next, Promise!End
<1>10. CASE Fork
  <2>1. UNCHANGED <<session, offset, buffered, current_line, error, crashed, to_id, log>>
    BY <1>10 DEF Fork, io, state
  <2> QED
    BY <1>1, <2>1 DEF Unfinished, Over, InHand
<1>11. CASE ForkFails
  <2>1. PICK code \in Codes \cup {0} : Finish(code, FALSE)
    BY <1>11 DEF ForkFails
  <2>2. ~crashed /\ to_id = "EXECUTE_COMMANDS" /\ command.word \notin {Null, "exit"}
    BY <1>11, FunctionsState DEF ForkFails, StateOf
  <2> QED
    BY <1>2, <2>1, <2>2, FinishCarriesOut
<1>12. CASE Wait
  <2> DEFINE code == IF At("exited") THEN child.code ELSE command.exit_code
  <2>1. ~crashed /\ to_id = "EXECUTE_COMMANDS" /\ child # Null /\ Finish(code, TRUE)
    BY <1>12, FunctionsState DEF Wait, At, StateOf
  <2>2. command.word \notin {Null, "cd", "exit"} /\ ChildInv
    BY <2>1 DEF PromptInv, LoopInv
  <2>3. code \in Ends(current_line)
    <3>1. 0 \in Ends(current_line) /\ command.exit_code = 0
      BY <2>1, <2>2, CommandIs, ProgramIs, OutcomeIs
    <3> QED
      BY <2>1, <2>2, <3>1 DEF At, ChildInv
  <2> HIDE DEF code
  <2> QED
    BY <1>2, <2>1, <2>2, <2>3, FinishCarriesOut
<1>13. CASE do_exit \/ handle_error \/ destroy_state
  <2>1. /\ \/ to_id = "EXIT" /\ to_id' = "DESTROY_STATE" /\ ~error /\ ~error'
           \/ to_id = "ERROR" /\ to_id' = "DESTROY_STATE" /\ error /\ error'
           \/ to_id = "DESTROY_STATE" /\ to_id' = "DC_FSM_EXIT" /\ error' = error
        /\ ~crashed /\ ~crashed' /\ log' = log
    <3>1. CASE do_exit
      BY <3>1, FunctionsState DEF do_exit, Reset, Return, Machine!Return, StateOf, LoopInv
    <3>2. CASE handle_error
      BY <3>2, FunctionsState DEF handle_error, Return, Machine!Return, StateOf, LoopInv, state
    <3>3. CASE destroy_state
      BY <3>3, FunctionsState DEF destroy_state, Return, Machine!Return, StateOf
    <3> QED
      BY <1>13, <3>1, <3>2, <3>3
  <2>2. Over' = Over /\ Over # "no"
    <3>1. CASE error
      BY <1>2, <2>1, <3>1 DEF OverCases
    <3>2. CASE ~error
      BY <1>2, <2>1, <3>2 DEF OverCases
    <3> QED
      BY <3>1, <3>2
  <2>3. Unfinished = <<>> /\ Unfinished' = <<>>
    BY <1>2, <2>2 DEF Remains
  <2> QED
    BY <1>1, <2>1, <2>2, <2>3
<1>14. CASE ChildStep
  <2>1. UNCHANGED <<session, current_line, error, crashed, to_id, log>>
    BY <1>14 DEF ChildStep, state
  <2>2. session.in # "file"
    BY DEF TypeInv, TypeOK
  <2>3. UNCHANGED <<offset, buffered>>
    BY <1>14, <2>2 DEF ChildStep, LeaveByExit, io
  <2> QED
    BY <1>1, <2>1, <2>3 DEF Unfinished, Over, InHand
<1>15. CASE UNCHANGED vars
  <2>1. UNCHANGED <<session, offset, buffered, current_line, error, crashed, to_id, log>>
    BY <1>15 DEF vars, io, state
  <2> QED
    BY <1>1, <2>1 DEF Unfinished, Over, InHand
<1> QED
  BY <1>3, <1>4, <1>5, <1>6, <1>7, <1>8, <1>9, <1>10, <1>11, <1>12, <1>13, <1>14, <1>15 DEF Next, ShellStep

(* Unless its standard input is a file, the lines a shell is given are      *)
(* carried out one after the other, each once and in order, with a code of  *)
(* its own (run_shell(), execute_commands()).  A file is left out because a *)
(* child that leaves by exit() puts its offset back.                        *)
THEOREM ImplementsReadEvalLoop ==
  ASSUME "file" \notin Inputs
  PROVE  Spec => ReadEvalLoop
<1> DEFINE Inv == TypeInv /\ PromptInv /\ LoopInv
<1>1. Init => Inv
  BY TypeInvInit, LoopInvInit DEF Init, PromptInv, Machine!MachineInit
<1>2. Inv /\ [Next]_vars => Inv'
  BY TypeInvStep, PromptInvStep, LoopInvStep
<1>3. Init => Promise!Init
  BY PromiseInit
<1>4. Inv /\ Inv' /\ [Next]_vars => [Promise!Next]_(Promise!vars)
  BY PromiseStep
<1> QED
  BY <1>1, <1>2, <1>3, <1>4, PTL DEF Spec, ReadEvalLoop, Promise!Spec

-----------------------------------------------------------------------------
(* What is printed and what is written.                                     *)

(* Nothing waits in the buffer of a shell at a terminal, nor in its child's. *)
OutputInv ==
  /\ to_id = "EXECUTE_COMMANDS" => command = ParseCommand(current_line)
  /\ child # Null => child.command = command /\ (Interactive => ~child.unflushed)
  /\ Interactive => ~unflushed /\ ~repeated

LEMMA OutputInvInit == Init => OutputInv
BY DEF Init, OutputInv, Machine!MachineInit

LEMMA InteractiveStays ==
  ASSUME UNCHANGED session
  PROVE  Interactive' <=> Interactive
BY DEF Interactive

LEMMA OutputInvStep ==
  ASSUME TypeInv, PromptInv, OutputInv, [Next]_vars
  PROVE  OutputInv'
<1>1. to_id # "EXECUTE_COMMANDS" => child = Null
  BY DEF PromptInv
<1>2. Interactive => ~unflushed /\ ~repeated
  BY DEF OutputInv
<1>3. UNCHANGED session /\ (Interactive' <=> Interactive)
  <2>1. UNCHANGED session
    BY DEF Next, ShellStep, init_state, ReadLine, ReadNothing, TakeLine, ReadFails, separate_commands,
           SeparateFails, parse_commands, ParseCrashes, ExecuteCrashes, Crash, ChangeDirectory, Finish,
           ExitCommand, Fork, ForkFails, Wait, reset_state, do_exit, handle_error, destroy_state,
           ChildStep, Return, vars
  <2> QED
    BY <2>1, InteractiveStays
<1>4. CASE init_state \/ separate_commands \/ SeparateFails \/ reset_state \/ do_exit
           \/ handle_error \/ destroy_state
  <2>1. /\ UNCHANGED <<unflushed, repeated, child>> /\ child = Null /\ to_id' # "EXECUTE_COMMANDS"
    BY <1>1, <1>4, FunctionsState
       DEF init_state, separate_commands, SeparateFails, reset_state, do_exit, handle_error,
           destroy_state, Return, Machine!Return, StateOf, io
  <2> QED
    BY <1>2, <1>3, <2>1 DEF OutputInv
<1>5. CASE parse_commands
  <2>1. /\ UNCHANGED <<unflushed, repeated, child, current_line>> /\ child = Null
        /\ command' = ParseCommand(current_line)
    BY <1>1, <1>5, FunctionsState DEF parse_commands, StateOf, io
  <2> QED
    BY <1>2, <1>3, <2>1 DEF OutputInv
<1>6. CASE ReadLine \/ ReadNothing \/ ReadFails
  <2>1. /\ UNCHANGED <<repeated, child>> /\ child = Null /\ to_id' # "EXECUTE_COMMANDS"
        /\ unflushed' \in {unflushed, ~Interactive}
    <3>1. ASSUME NEW line, TakeLine(line)
          PROVE  /\ UNCHANGED <<repeated, child>> /\ child = Null /\ to_id' # "EXECUTE_COMMANDS"
                 /\ unflushed' \in {unflushed, ~Interactive}
      BY <1>1, <3>1, FunctionsState DEF TakeLine, Return, Machine!Return, StateOf
    <3>2. CASE ReadFails
      BY <1>1, <3>2, FunctionsState DEF ReadFails, Return, Machine!Return, StateOf
    <3> QED
      BY <1>6, <3>1, <3>2 DEF ReadLine, ReadNothing
  <2> QED
    BY <1>2, <1>3, <2>1 DEF OutputInv
<1>7. CASE ChangeDirectory \/ ForkFails \/ Wait
  <2>1. /\ unflushed' = (session.out # "terminal") /\ repeated' = repeated
        /\ child' = Null /\ to_id' # "EXECUTE_COMMANDS"
    <3>1. ASSUME NEW code, NEW started, Finish(code, started)
          PROVE  unflushed' = (session.out # "terminal") /\ repeated' = repeated /\ to_id' # "EXECUTE_COMMANDS"
      BY <3>1 DEF Finish, Return, Machine!Return
    <3>2. child' = Null
      BY <1>1, <1>7, FunctionsState DEF ChangeDirectory, ForkFails, Wait, PromptInv
    <3> QED
      BY <1>7, <3>1, <3>2 DEF ChangeDirectory, ForkFails, Wait
  <2> QED
    BY <1>2, <1>3, <2>1 DEF OutputInv, Interactive
<1>8. CASE ExitCommand
  <2>1. /\ UNCHANGED <<unflushed, repeated, child>> /\ child = Null /\ to_id' # "EXECUTE_COMMANDS"
    BY <1>8, FunctionsState DEF ExitCommand, Return, Machine!Return, PromptInv, io
  <2> QED
    BY <1>2, <1>3, <2>1 DEF OutputInv
<1>9. CASE Fork
  <2>1. /\ UNCHANGED <<unflushed, repeated, current_line, command, to_id>>
        /\ child' = Born(command, Len(log) + 1, error, unflushed)
    BY <1>9 DEF Fork, io, state
  <2> QED
    BY <1>2, <1>3, <2>1 DEF OutputInv, Born
<1>10. CASE ParseCrashes \/ ExecuteCrashes \/ UNCHANGED vars
  BY <1>3, <1>10 DEF ParseCrashes, ExecuteCrashes, Crash, OutputInv, vars, io, state
<1>11. CASE ChildStep
  <2>1. /\ child # Null /\ child \in Children /\ UNCHANGED <<current_line, command, to_id>>
        /\ UNCHANGED unflushed /\ (repeated' = (repeated \/ child.unflushed) \/ repeated' = repeated)
    BY <1>11 DEF ChildStep, LeaveByExit, io, state, Redirect, RunProgram, RunFails, ProgramEnds, Signalled,
                 At, TypeInv, TypeOK, ExecuteTypeOK
  <2>2. child'.command = child.command /\ child'.unflushed = child.unflushed
    <3>1. \/ \E pc : child' = [child EXCEPT !.pc = pc]
          \/ \E pc, code : child' = [child EXCEPT !.pc = pc, !.code = code]
      BY <1>11 DEF ChildStep, Redirect, RunProgram, RunFails, ProgramEnds, Signalled, Exit
    <3> QED
      BY <2>1, <3>1 DEF Children
  <2>3. child.command = command /\ (Interactive => ~child.unflushed)
    BY <2>1 DEF OutputInv
  <2>4. Interactive' => ~unflushed' /\ ~repeated'
    BY <1>2, <1>3, <2>1, <2>3
  <2> QED
    BY <1>3, <2>1, <2>2, <2>3, <2>4 DEF OutputInv
<1> QED
  BY <1>4, <1>5, <1>6, <1>7, <1>8, <1>9, <1>10, <1>11 DEF Next, ShellStep

(* The name after the arrow, and what the arrow asks for. *)
LEMMA ArrowIs ==
  ASSUME NEW redirs \in Seq(Redirections), NEW ops, Len(Rest(redirs, ops)) <= 1,
         NameAfter(Rest(redirs, ops)) # Null,
         \A i \in 1 .. Len(redirs) : redirs[i].op \in {">", ">>"} => ~redirs[i].tight
  PROVE  \E i \in 1 .. Len(redirs) :
           /\ redirs[i].op \in ops /\ redirs[i].file = NameAfter(Rest(redirs, ops))
           /\ ~Doubled(Rest(redirs, ops)) => redirs[i].op \notin {">>", "2>>"}
<1> DEFINE m == FirstOf(redirs, ops)
           part == Rest(redirs, ops)
           n == Len(redirs)
<1>1. n \in Nat /\ m \in 1 .. n + 1 /\ (m <= n => redirs[m].op \in ops)
  BY FirstIs
<1>2. part \in Seq(Redirections) /\ Len(part) = n + 1 - m
  BY PartsOf
<1>3. \A i \in 1 .. n : redirs[i] \in Redirections
  BY <1>1
<1>4. part = SubSeq(redirs, m, n)
  BY DEF Rest
<1> HIDE DEF m, n, part
<1>5. part # <<>>
  BY <1>2, NameIs DEF part
<1>6. Len(part) = 1 /\ m = n
  BY <1>1, <1>2, <1>5 DEF part
<1>7. part[1] = redirs[m]
  <2>1. m \in Int /\ n \in Int /\ \A i \in m .. n : redirs[i] \in Redirections
    BY <1>1, <1>3
  <2>2. \A i \in 1 .. n - m + 1 : SubSeq(redirs, m, n)[i] = redirs[m + i - 1]
    BY <2>1, SubSeqProperties
  <2>3. SubSeq(redirs, m, n)[1] = redirs[m + 1 - 1]
    BY <1>1, <1>6, <2>2
  <2> QED
    BY <1>1, <1>4, <2>3
<1>8. ~(redirs[m].tight /\ redirs[m].op \in {">", ">>"})
  BY <1>1, <1>6 DEF n
<1>9. NameAfter(part) = redirs[m].file
  BY <1>6, <1>7, <1>8 DEF NameAfter
<1>10. ~Doubled(part) => redirs[m].op \notin {">>", "2>>"}
  BY <1>6, <1>7 DEF Doubled
<1> QED
  BY <1>1, <1>6, <1>9, <1>10 DEF part, n

(* A command writes where a redirection of its line says, and keeps what is *)
(* there unless that redirection has a single arrow.                        *)
LEMMA NamedIs ==
  ASSUME NEW line \in Lines, WellFormed(line), NEW f \in Files
  PROVE  /\ ParseCommand(line).stdout_file = f =>
              \E i \in Named(line, f) : ~ParseCommand(line).stdout_overwrite =>
                                          line.redirs[i].op \notin {">>", "2>>"}
         /\ ParseCommand(line).stderr_file = f =>
              \E i \in Named(line, f) : ~ParseCommand(line).stderr_overwrite =>
                                          line.redirs[i].op \notin {">>", "2>>"}
<1> DEFINE r == line.redirs
           b == Before(r, Err)
<1>1. /\ ParseCommand(line).stderr_file = NameAfter(Rest(r, Err))
      /\ ParseCommand(line).stderr_overwrite = Doubled(Rest(r, Err))
      /\ ParseCommand(line).stdout_file = NameAfter(Rest(b, Out))
      /\ ParseCommand(line).stdout_overwrite = Doubled(Rest(b, Out))
  BY DEF ParseCommand, NoCommand, Err, Out
<1>2. Len(Rest(r, Err)) <= 1 /\ Len(Rest(b, Out)) <= 1
  BY PartsAreShort
<1>3. r \in Seq(Redirections) /\ \A i \in 1 .. Len(r) : r[i].op \in {">", ">>"} => ~r[i].tight
  BY DEF Lines, WellFormed
<1>4. b \in Seq(Redirections) /\ \A i \in 1 .. Len(b) : i \in 1 .. Len(r) /\ b[i] = r[i]
  <2> DEFINE m == FirstOf(r, Err)
  <2>1. m \in 1 .. Len(r) + 1 /\ Len(r) \in Nat
    BY <1>3, FirstIs
  <2>2. b \in Seq(Redirections) /\ Len(b) = m - 1 /\ \A j \in 1 .. m - 1 : b[j] = r[j]
    BY <1>3, PartsOf
  <2> HIDE DEF m, b, r
  <2> QED
    BY <2>1, <2>2
<1>5. Null # f
  BY CommandsAssumption
<1>6. \A i \in 1 .. Len(r) : r[i].file = f /\ r[i].op # "<" => i \in Named(line, f)
  BY DEF Named
<1> HIDE DEF b, r
<1>7. ASSUME NameAfter(Rest(r, Err)) = f
      PROVE  \E i \in Named(line, f) : ~Doubled(Rest(r, Err)) => r[i].op \notin {">>", "2>>"}
  <2>1. PICK i \in 1 .. Len(r) : /\ r[i].op \in Err /\ r[i].file = f
                                 /\ ~Doubled(Rest(r, Err)) => r[i].op \notin {">>", "2>>"}
    BY <1>2, <1>3, <1>5, <1>7, ArrowIs
  <2> QED
    BY <1>6, <2>1 DEF Err
<1>8. ASSUME NameAfter(Rest(b, Out)) = f
      PROVE  \E i \in Named(line, f) : ~Doubled(Rest(b, Out)) => r[i].op \notin {">>", "2>>"}
  <2>1. PICK i \in 1 .. Len(b) : /\ b[i].op \in Out /\ b[i].file = f
                                 /\ ~Doubled(Rest(b, Out)) => b[i].op \notin {">>", "2>>"}
    BY <1>2, <1>3, <1>4, <1>5, <1>8, ArrowIs
  <2> QED
    BY <1>4, <1>6, <2>1 DEF Out
<1> QED
  BY <1>1, <1>7, <1>8 DEF r

LEMMA OpenedChanges ==
  ASSUME NEW fs \in Disk, NEW name \in Names \cup {Null}, NEW keep \in BOOLEAN, NEW f \in Files,
         Opened(fs, name, keep)[f] # fs[f]
  PROVE  name = f /\ (fs[f] = Null \/ ~keep)
BY DEF Opened, Disk, Names

LEMMA WrittenChanges ==
  ASSUME NEW fs \in Disk, NEW name \in Names \cup {Null}, NEW f \in Files, child.number \in Nat,
         name # Null => fs[name] \in Seq(Nat), Written(fs, name)[f] # fs[f]
  PROVE  name = f /\ Len(fs[f]) < Len(Written(fs, name)[f])
                  /\ fs[f] = SubSeq(Written(fs, name)[f], 1, Len(fs[f]))
<1> DEFINE old == fs[f]
           new == Written(fs, name)[f]
<1>1. name = f /\ old \in Seq(Nat) /\ new = Append(old, child.number)
  BY CommandsAssumption DEF Written, Disk, Names
<1> HIDE DEF old, new
<1>2. Len(old) \in Nat /\ Len(new) = Len(old) + 1 /\ \A i \in 1 .. Len(old) : new[i] = old[i]
  BY <1>1
<1>3. new \in Seq(Nat)
  BY <1>1
<1>4. \A i \in 1 .. Len(old) : new[i] \in Nat
  BY <1>1, <1>2, ElementOfSeq
<1>5. /\ SubSeq(new, 1, Len(old)) \in Seq(Nat)
      /\ Len(SubSeq(new, 1, Len(old))) = IF 1 <= Len(old) THEN Len(old) - 1 + 1 ELSE 0
      /\ \A i \in 1 .. Len(old) - 1 + 1 : SubSeq(new, 1, Len(old))[i] = new[1 + i - 1]
  BY <1>2, <1>4, SubSeqProperties
<1>6. Len(SubSeq(new, 1, Len(old))) = Len(old)
  BY <1>2, <1>5
<1>7. \A i \in 1 .. Len(old) : SubSeq(new, 1, Len(old))[i] = old[i]
  BY <1>2, <1>5
<1>8. SubSeq(new, 1, Len(old)) = old
  BY <1>1, <1>5, <1>6, <1>7
<1> QED
  BY <1>1, <1>2, <1>8 DEF old, new

LEMMA FilesStep ==
  ASSUME TypeInv, PromptInv, OutputInv, [Next]_vars, WellFormed(current_line), NEW f \in Files
  PROVE  FileStep(f)
<1>1. CASE UNCHANGED files
  BY <1>1 DEF FileStep
<1>2. ASSUME child # Null
      PROVE  /\ current_line \in Lines /\ child \in Children /\ files \in Disk
             /\ child.command = ParseCommand(current_line) /\ child.command \in Commands
  <2>1. to_id = "EXECUTE_COMMANDS" /\ command = ParseCommand(current_line) /\ child.command = command
    BY <1>2 DEF PromptInv, OutputInv
  <2>2. current_line \in WithWord /\ child \in Children /\ files \in Disk
    BY <1>2, <2>1 DEF TypeInv, TypeOK, ExecuteTypeOK, InHand, Disk
  <2> QED
    BY <2>1, <2>2, ParseIsCommand
<1>3. ASSUME child # Null
      PROVE  LET c == child.command IN
             /\ c.stdin_file \in Names \cup {Null}
             /\ c.stdout_file \in Names \cup {Null} /\ c.stdout_overwrite \in BOOLEAN
             /\ c.stderr_file \in Names \cup {Null} /\ c.stderr_overwrite \in BOOLEAN
             /\ child.number \in Nat
  BY <1>2, <1>3 DEF Commands, Children
<1>4. ASSUME child # Null
      PROVE  LET c == child.command IN
             /\ c.stdout_file = f =>
                  \E i \in Named(current_line, f) :
                    ~c.stdout_overwrite => current_line.redirs[i].op \notin {">>", "2>>"}
             /\ c.stderr_file = f =>
                  \E i \in Named(current_line, f) :
                    ~c.stderr_overwrite => current_line.redirs[i].op \notin {">>", "2>>"}
  BY <1>2, <1>4, NamedIs
<1>5. CASE Redirect
  <2> DEFINE c == child.command
             first == Opened(files, c.stdout_file, c.stdout_overwrite)
             second == Opened(first, c.stderr_file, c.stderr_overwrite)
  <2>1. child # Null /\ files' = second
    BY <1>5 DEF Redirect, At
  <2>2. first \in Disk
    BY <1>2, <1>3, <2>1, OpenedIs
  <2>3. first[f] # files[f] => c.stdout_file = f /\ (files[f] = Null \/ ~c.stdout_overwrite)
    BY <1>2, <1>3, <2>1, OpenedChanges
  <2> HIDE DEF first
  <2>4. second[f] # first[f] => c.stderr_file = f /\ (first[f] = Null \/ ~c.stderr_overwrite)
    BY <1>3, <2>1, <2>2, OpenedChanges
  <2> HIDE DEF second
  <2>5. CASE first[f] # files[f]
    BY <1>4, <2>1, <2>3, <2>5 DEF FileStep
  <2>6. CASE first[f] = files[f]
    BY <1>4, <2>1, <2>4, <2>6 DEF FileStep
  <2> QED
    BY <2>5, <2>6
<1>6. ASSUME NEW name \in {child.command.stdout_file, child.command.stderr_file},
             files' = Written(files, name), child # Null, child.pc \in {"run", "program"}
      PROVE  FileStep(f)
  <2>1. name # Null => files[name] \in Seq(Nat)
    BY <1>6 DEF TypeInv
  <2>2. files'[f] # files[f] => name = f /\ Len(files[f]) < Len(files'[f])
                                /\ files[f] = SubSeq(files'[f], 1, Len(files[f]))
    BY <1>2, <1>3, <1>6, <2>1, WrittenChanges
  <2>3. name = f => Named(current_line, f) # {}
    BY <1>4, <1>6
  <2> QED
    BY <2>2, <2>3 DEF FileStep
<1>7. CASE RunFails
  BY <1>1, <1>6, <1>7 DEF RunFails, At
<1>8. ASSUME NEW code \in Codes, ProgramEnds(code) PROVE FileStep(f)
  BY <1>6, <1>8 DEF ProgramEnds, At
<1>9. CASE RunProgram \/ Signalled
  BY <1>1, <1>9 DEF RunProgram, Signalled
<1>10. CASE ChildStep
  BY <1>5, <1>7, <1>8, <1>9, <1>10 DEF ChildStep
<1>11. CASE ShellStep
  BY <1>1, <1>11
     DEF ShellStep, init_state, ReadLine, ReadNothing, TakeLine, ReadFails, separate_commands,
         SeparateFails, parse_commands, ParseCrashes, ExecuteCrashes, Crash, ChangeDirectory,
         ExitCommand, Fork, ForkFails, Wait, reset_state, do_exit, handle_error, destroy_state
<1>12. CASE UNCHANGED vars
  BY <1>1, <1>12 DEF vars
<1> QED
  BY <1>10, <1>11, <1>12 DEF Next

(* Whatever is typed or read, nothing the shell prints at a terminal appears *)
(* twice, and a line of the kind command.c's tests are about is written to   *)
(* no file but those it names, which it empties only for a single arrow      *)
(* (read_commands(), execute(), redirect()).                                 *)
THEOREM OutputGoesWhereNamed == Spec => OutputIsRight
<1> DEFINE Inv == TypeInv /\ PromptInv /\ OutputInv
<1>1. Init => Inv
  BY TypeInvInit, OutputInvInit DEF Init, PromptInv, Machine!MachineInit
<1>2. Inv /\ [Next]_vars => Inv'
  BY TypeInvStep, PromptInvStep, OutputInvStep
<1>3. Inv => PrintedOnce
  BY DEF OutputInv, PrintedOnce
<1>4. Inv /\ [Next]_vars =>
        [current_line # Null /\ WellFormed(current_line) => \A f \in Files : FileStep(f)]_vars
  BY FilesStep
<1> QED
  BY <1>1, <1>2, <1>3, <1>4, PTL DEF Spec, OutputIsRight, OutputsWhereNamed

=============================================================================
