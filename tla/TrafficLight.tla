---------------------------- MODULE TrafficLight ----------------------------
(***************************************************************************)
(* The traffic light of the state machine template: the engine of fsm.c    *)
(* with a table of eight rows.  The function of a colour prints it and     *)
(* sleeps; a sleep that fails leads to ERROR and the end.                  *)
(***************************************************************************)
EXTENDS Sequences

CONSTANT SleepMayFail

VARIABLES lightFrom, lightTo, shown

lightVars == <<lightFrom, lightTo, shown>>

Row(from, to, perform) == [from |-> from, to |-> to, perform |-> perform]
transitions ==
  {Row("DC_FSM_INIT", "RED", "red"), Row("RED", "GREEN", "green"), Row("GREEN", "YELLOW", "yellow"),
   Row("YELLOW", "RED", "red"), Row("RED", "ERROR", "state_error"), Row("GREEN", "ERROR", "state_error"),
   Row("YELLOW", "ERROR", "state_error"), Row("ERROR", "DC_FSM_EXIT", "none")}

Light == INSTANCE StateMachine WITH
  Transitions <- transitions, UserStart <- "RED", from_id <- lightFrom, to_id <- lightTo

LightInit == Light!MachineInit /\ shown = "dark"

change_colour(name, next_state) ==
  /\ shown' = name
  /\ \/ Light!Return(next_state)
     \/ SleepMayFail /\ Light!Return("ERROR")

red    == Light!In("red") /\ change_colour("RED", "GREEN")
green  == Light!In("green") /\ change_colour("GREEN", "YELLOW")
yellow == Light!In("yellow") /\ change_colour("YELLOW", "RED")

state_error ==
  /\ Light!In("state_error")
  /\ Light!Return("DC_FSM_EXIT")
  /\ UNCHANGED shown

LightNext == red \/ green \/ yellow \/ state_error

LightFair == WF_lightVars(LightNext)

-----------------------------------------------------------------------------

(* The light shows its colours in turn, and the engine is never asked for  *)
(* a pair that is not in the table, past whose end it would read.          *)
After == [dark |-> "RED", RED |-> "GREEN", GREEN |-> "YELLOW", YELLOW |-> "RED"]
LightTurns == [][Light!Known' /\ (shown' # shown => shown' = After[shown])]_lightVars

(* It goes on for ever, or a sleep failed and the program ends.            *)
LightRuns == <>Light!Exited \/ \A colour \in {"RED", "GREEN", "YELLOW"} : []<>(shown = colour)

=============================================================================
