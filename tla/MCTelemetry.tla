------------------------------ MODULE MCTelemetry ------------------------------
(***************************************************************************)
(* Telemetry on small sets of readings around the shipped thresholds.      *)
(***************************************************************************)
EXTENDS Telemetry

(* What the shipped tool answers, values at and next to the thresholds, an  *)
(* exhausted system, and a ratio that is none.                              *)
SomeReadings ==
  [queue : {3, 100}, latency : {420, 1500, 6000}, error : {1, 5, 100}]
    \union {[queue |-> 3, latency |-> 420, error |-> 101]}

===============================================================================
