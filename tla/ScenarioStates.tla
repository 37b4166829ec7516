--------------------------- MODULE ScenarioStates ---------------------------
(***************************************************************************)
(* The states of a rollover scenario and the moves between them            *)
(* (backend/internal/constants/scenario_state.go), with the states a       *)
(* client may ask for (backend/internal/dto/rollover_scenario.go).         *)
(***************************************************************************)

ScenarioStateValues ==
    {"draft", "simulated", "ready", "executing", "verified", "rollback"}

\* fault: a draft can be marked ready without a simulation
allowed_UntestedReady ==
    [draft     |-> {"simulated", "ready"},
     simulated |-> {"ready", "draft"},
     ready     |-> {"executing", "draft"},
     executing |-> {"verified", "rollback"},
     verified  |-> {},
     rollback  |-> {}]
allowed ==
    [draft     |-> {"simulated"},
     simulated |-> {"ready", "draft"},
     ready     |-> {"executing", "draft"},
     executing |-> {"verified", "rollback"},
     verified  |-> {},
     rollback  |-> {}]

CanTransitionScenario(from, to) == to \in allowed[from]

\* "simulated" is reached by a simulation only, never asked for.
RequestableStates == ScenarioStateValues \ {"simulated"}

=============================================================================
