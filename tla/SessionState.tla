---------------------------- MODULE SessionState ----------------------------
(***************************************************************************)
(* The dictation state machine of sybl/core/state.py: six states, the      *)
(* table of allowed transitions, and what transition() accepts.  reset()   *)
(* is not an operator: it is the assignment st' = "IDLE", made by its only *)
(* caller, DictationController.shutdown.                                   *)
(***************************************************************************)

\* class SessionState.
SessionStates ==
    {"IDLE", "LISTENING", "PROCESSING", "INJECTING", "CANCELLED", "ERROR"}

\* Mutant of ValidTransitions: there is no way out of ERROR.
ValidTransitions_ErrorStays ==
    [IDLE       |-> {"LISTENING", "CANCELLED", "ERROR"},
     LISTENING  |-> {"PROCESSING", "CANCELLED", "ERROR", "IDLE"},
     PROCESSING |-> {"IDLE", "INJECTING", "ERROR", "CANCELLED"},
     INJECTING  |-> {"IDLE", "ERROR", "CANCELLED"},
     CANCELLED  |-> {"IDLE"},
     ERROR      |-> {}]

\* _VALID_TRANSITIONS: for each state, the states transition() may enter.
ValidTransitions ==
    [IDLE       |-> {"LISTENING", "CANCELLED", "ERROR"},
     LISTENING  |-> {"PROCESSING", "CANCELLED", "ERROR", "IDLE"},
     PROCESSING |-> {"IDLE", "INJECTING", "ERROR", "CANCELLED"},
     INJECTING  |-> {"IDLE", "ERROR", "CANCELLED"},
     CANCELLED  |-> {"IDLE"},
     ERROR      |-> {"IDLE"}]

\* StateMachine.transition raises InvalidTransitionError unless this holds.
CanTransition(from, to) == to \in ValidTransitions[from]
=============================================================================
