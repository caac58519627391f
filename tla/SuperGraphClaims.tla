--------------------------- MODULE SuperGraphClaims ---------------------------
(***************************************************************************)
(* What the repository's texts say of a cycle and the code does not do.    *)
(* Each is checked by a run of its own in which TLC finds a behaviour that *)
(* contradicts it; the README tells the behaviours.                        *)
(***************************************************************************)
EXTENDS MCSuperGraph

(* orchestrator.py: every cycle must end with a Gestalt summary.  A failed *)
(* first orchestrator run leaves no next_node: the graph ends at once and  *)
(* run_cycle hands back a state without one.                               *)
CyclesReturnASummary ==
  \A c \in Cycles : frame[c].pc = "returned" => state[c].summary # <<>>

(* graph.py: run_cycle runs a full graph cycle and returns the finalized   *)
(* state.  A cycle that outlives the lifetime of one of its approvals is   *)
(* refused by the very validation that should hand it back.                *)
FinalizedCyclesReturn ==
  \A c \in Cycles : state[c].summary # <<>> => frame[c].pc # "raised"

(* README.md: the orchestrator consumes the monitor's stats to adapt       *)
(* routing and trigger the optimizer when thresholds change.  The plan is  *)
(* fixed before the monitor runs and nobody reads its OPTIMIZE command.    *)
OptimizerFollowsTrigger ==
  \A c \in Cycles :
    (state[c].summary # <<>> /\ \E row \in state[c].rows : row.target = "optimizer")
      => \E i \in 1 .. Len(state[c].reports) : state[c].reports[i].agent = "optimizer"

===============================================================================
