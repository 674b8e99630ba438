---------------------------- MODULE StateMachine ----------------------------
(***************************************************************************)
(* fsm.c: the engine that runs a table of transitions.  A machine is where *)
(* it came from and where it goes next; one step looks the pair up, calls  *)
(* the function of that row and takes its result for the next state.       *)
(***************************************************************************)
CONSTANTS
  Transitions,     \* rows [from, to, perform]
  UserStart        \* DC_FSM_USER_START, the first state of the user's own

VARIABLES from_id, to_id

machine == <<from_id, to_id>>

MachineInit == from_id = "DC_FSM_INIT" /\ to_id = UserStart

Exited == to_id = "DC_FSM_EXIT"

(* fsm_transition(): the rows for the step that is due. *)
Due == {row \in Transitions : row.from = from_id /\ row.to = to_id}

(* dc_fsm_run() is in this function, having found it in the table. *)
In(function) == ~Exited /\ \E row \in Due : row.perform = function

Return(next) == from_id' = to_id /\ to_id' = next

(* Nothing ends the table: a pair without a row is looked for past its end. *)
Known == Exited \/ Due # {}
=============================================================================
