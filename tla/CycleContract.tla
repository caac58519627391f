----------------------------- MODULE CycleContract -----------------------------
(***************************************************************************)
(* What the super-graph promises of a cycle, without agents' failures,     *)
(* approvals, storage or LangGraph: the orchestrator commits to one plan,  *)
(* activates its agents one at a time and in order, goes on only when the  *)
(* active one has answered, and concludes only when all have.  A cycle may *)
(* be given up at any point.                                               *)
(***************************************************************************)
EXTENDS Naturals, Sequences

CONSTANTS
  Cycles,
  Plans     (* the sequences of agents the orchestrator may commit to       *)

VARIABLES
  phase,    (* "waiting", "open", "concluded", "ended" or "abandoned"       *)
  plan,     (* the agents of the cycle, empty until committed               *)
  routed,   (* how many of them have been activated                         *)
  served    (* how many of them have answered                               *)

vars == <<phase, plan, routed, served>>

Live == {c \in Cycles : phase[c] \in {"open", "concluded"}}

Init ==
  /\ phase = [c \in Cycles |-> "waiting"]
  /\ plan = [c \in Cycles |-> <<>>]
  /\ routed = [c \in Cycles |-> 0]
  /\ served = [c \in Cycles |-> 0]

Start(c) ==
  /\ phase[c] = "waiting"
  /\ phase' = [phase EXCEPT ![c] = "open"]
  /\ UNCHANGED <<plan, routed, served>>

(* The plan is chosen once, and its first agent activated with it.         *)
Commit(c) ==
  /\ phase[c] = "open"
  /\ plan[c] = <<>>
  /\ \E p \in Plans : plan' = [plan EXCEPT ![c] = p]
  /\ routed' = [routed EXCEPT ![c] = 1]
  /\ UNCHANGED <<phase, served>>

Activate(c) ==
  /\ phase[c] = "open"
  /\ served[c] = routed[c]
  /\ routed[c] < Len(plan[c])
  /\ routed' = [routed EXCEPT ![c] = @ + 1]
  /\ UNCHANGED <<phase, plan, served>>

Answer(c) ==
  /\ phase[c] = "open"
  /\ served[c] < routed[c]
  /\ served' = [served EXCEPT ![c] = @ + 1]
  /\ UNCHANGED <<phase, plan, routed>>

Conclude(c) ==
  /\ phase[c] = "open"
  /\ plan[c] # <<>>
  /\ served[c] = routed[c]
  /\ routed[c] = Len(plan[c])
  /\ phase' = [phase EXCEPT ![c] = "concluded"]
  /\ UNCHANGED <<plan, routed, served>>

End(c) ==
  /\ phase[c] = "concluded"
  /\ phase' = [phase EXCEPT ![c] = "ended"]
  /\ UNCHANGED <<plan, routed, served>>

(* Cycles are given up alone, or together when the process dies.           *)
Abandon ==
  /\ \E gone \in SUBSET Live :
       phase' = [c \in Cycles |-> IF c \in gone THEN "abandoned" ELSE phase[c]]
  /\ UNCHANGED <<plan, routed, served>>

Next ==
  \/ \E c \in Cycles :
       Start(c) \/ Commit(c) \/ Activate(c) \/ Answer(c) \/ Conclude(c) \/ End(c)
  \/ Abandon

Spec == Init /\ [][Next]_vars

===============================================================================
