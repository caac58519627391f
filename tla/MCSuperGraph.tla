----------------------------- MODULE MCSuperGraph -----------------------------
(* Instances of SuperGraph for TLC.                                        *)
EXTENDS SuperGraph

Objective(topics) ==
  [topics |-> topics, scheduled |-> "", force |-> FALSE, blank |-> FALSE]

Scheduled(agent) ==
  [topics |-> {}, scheduled |-> agent, force |-> FALSE, blank |-> FALSE]

ForcedAudit ==
  [topics |-> {"audit"}, scheduled |-> "", force |-> TRUE, blank |-> FALSE]

Blank == [topics |-> {}, scheduled |-> "", force |-> FALSE, blank |-> TRUE]

(* One request of each shape a caller, the audit endpoint or the scheduler *)
(* can send: plans of one to three agents, the longest plan there is, and  *)
(* the requests that are refused.                                          *)
AnyRequest ==
  {Objective(Topics), Objective({"execute", "knowledge"}), Objective({"audit"}), Objective({}),
   Scheduled("optimizer"), Scheduled("unlisted"), ForcedAudit, Blank}

(* Two cycles that meet on the blackboard and on the bus.                  *)
PairRequests == {Scheduled("knowledge"), ForcedAudit}

(* Short plans, for the runs that fail over and over.                      *)
ShortRequests == {Scheduled("planner_executor"), ForcedAudit, Blank}

(* A plain objective: the monitor alone.                                   *)
PlainRequest == {Objective({})}

(* The metrics tool of the repository answers with constants: with the     *)
(* settings of gestalt.yaml the first reading of a cycle leaves the        *)
(* default load level, a repeated one changes nothing, and nothing else is *)
(* ever crossed.                                                           *)
ShippedReadings ==
  {[drift |-> drift, intervention |-> FALSE, critical |-> FALSE] : drift \in BOOLEAN}

===============================================================================
