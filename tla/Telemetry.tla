------------------------------- MODULE Telemetry -------------------------------
(***************************************************************************)
(* The stats of one cycle after another: what the monitor derives from the *)
(* telemetry, which commands it emits, what the audits find and how the    *)
(* orchestrator scores the cycle.  SuperGraph says when agents run; here   *)
(* each run is one step and the numbers are the code's.  Ratios are in     *)
(* percent; int() of the products of stats.py is then \div (but for a      *)
(* ratio of 29, 57 or 58 percent, which floats take down by one).          *)
(***************************************************************************)
EXTENDS Integers, Sequences, SequencesExt

CONSTANTS
  Readings,       \* what Prometheus may answer: queue depth, latency, error ratio
  MediumLatency, HighLatency, CriticalLatency,
  DegradedError, CriticalError,
  QueueLow, QueueMedium, QueueHigh, QueueCritical,
  ModelRisks,     \* risk scores a real model may answer in place of the suggested one
  ModelRoutes,    \* routes a real model may name when the optimizer asks it
  OptimizerDelta, \* optimizer_trigger_delta
  AuditWindow,    \* compute_cohesion_inputs reads so many audits (10 in the code)
  MaxReports      \* bound of the model: reports in one cycle

Reading == [queue : Nat, latency : Nat, error : Nat]

(* The model routes from low to critical; 0 is a text that names none.     *)
Routes == 0 .. 4

(* config.py bounds each value and does not order the thresholds.          *)
ASSUME ThresholdsAssumption ==
  /\ Readings \subseteq Reading
  /\ {MediumLatency, HighLatency, CriticalLatency} \subseteq Nat \ {0}
  /\ {DegradedError, CriticalError} \subseteq 0 .. 100
  /\ {QueueLow, QueueMedium, QueueHigh, QueueCritical} \subseteq Nat
  /\ ModelRisks \subseteq 0 .. 100 /\ ModelRoutes \subseteq Routes
  /\ OptimizerDelta \in 1 .. 100
  /\ AuditWindow \in Nat \ {0}
  /\ MaxReports \in Nat

VARIABLES
  stats,     \* the fields of state.stats that a run merges back
  reports,   \* how many execution_reports the state holds
  failed,    \* the last_error of the metadata is a text that is not empty
  seen,      \* <<>>, or the snapshot of the last monitor run of the cycle
  commands,  \* the types of the commands that run emitted
  audited,   \* the state has an audit report
  findings,  \* the findings of its audit reports
  audits,    \* the risk scores of the newest AuditRows, which outlive cycles
  proposed,  \* <<>>, or the optimizer's last proposal in the cycle
  summary    \* <<>>, or the cohesion score of the cycle's summary

vars == <<stats, reports, failed, seen, commands, audited, findings, audits, proposed, summary>>

Score == 0 .. 100

Snapshot == [queue : Nat, latency : Nat, error : Score, active : Nat, findings : Nat]

(* level is a LoadLevel; tier counts the PerformanceTiers from low to       *)
(* critical.                                                                *)
Stats == [level : 1 .. 5, tier : 1 .. 4, cost : Score, risk : Score, cohesion : Score]

(* The route of a proposal, and whether the optimizer's model was a mock.   *)
Proposal == [route : Routes, mocked : BOOLEAN]

DefaultStats == [level |-> 1, tier |-> 1, cost |-> 100, risk |-> 0, cohesion |-> 100]

Smaller(a, b) == IF a <= b THEN a ELSE b
Larger(a, b) == IF a >= b THEN a ELSE b
Clamp(score) == Larger(0, Smaller(100, score))

-------------------------------------------------------------------------------
Pressure(s) == Larger(s.queue, 5 * s.active)

LoadLevelByCycles(s) ==  \* mistake: a cycle weighs no more than a queued item
  LET pressure == Larger(s.queue, s.active)
  IN  IF pressure >= QueueCritical THEN 5
      ELSE IF pressure >= QueueHigh THEN 4
      ELSE IF pressure >= QueueMedium THEN 3
      ELSE IF pressure >= QueueLow THEN 2 ELSE 1

LoadLevel(s) ==
  IF Pressure(s) >= QueueCritical THEN 5
  ELSE IF Pressure(s) >= QueueHigh THEN 4
  ELSE IF Pressure(s) >= QueueMedium THEN 3
  ELSE IF Pressure(s) >= QueueLow THEN 2 ELSE 1

PerformanceTierMediumFirst(s) ==  \* mistake: the thresholds are tried upwards
  IF s.latency >= MediumLatency THEN 2
  ELSE IF s.latency >= HighLatency \/ s.error >= DegradedError THEN 3
  ELSE IF s.latency >= CriticalLatency \/ s.error >= CriticalError THEN 4 ELSE 1

PerformanceTier(s) ==
  IF s.latency >= CriticalLatency \/ s.error >= CriticalError THEN 4
  ELSE IF s.latency >= HighLatency \/ s.error >= DegradedError THEN 3
  ELSE IF s.latency >= MediumLatency THEN 2 ELSE 1

CostEfficiencyUnbounded(s) ==  \* mistake: three full penalties exceed the score
  100 - Smaller((7 * s.latency) \div 1000, 40) - Smaller(s.error, 40)
      - Smaller(Larger(1, s.latency \div 100), 30)

(* The average latency is 0.7 of the p95; a cycle costs at least 0.1.       *)
CostEfficiency(s) ==
  Larger(0, 100 - Smaller((7 * s.latency) \div 1000, 40)
                - Smaller(s.error, 40)
                - Smaller(Larger(1, s.latency \div 100), 30))

SecurityRiskUncapped(s) ==  \* mistake: errors weigh as much as findings
  Clamp(Smaller(10 * s.findings, 60) + s.error)

(* The monitor reports a consistency of 1.0, which costs nothing.           *)
SecurityRisk(s) == Clamp(Smaller(10 * s.findings, 60) + Smaller(s.error, 20))

(* 40 for that consistency, 38 for a collaboration success of 0.95.         *)
Cohesion(s) == Clamp(40 + 38 + Larger(0, 20 - s.error))

Derived(s) ==
  [level |-> LoadLevel(s), tier |-> PerformanceTier(s), cost |-> CostEfficiency(s),
   risk |-> SecurityRisk(s), cohesion |-> Cohesion(s)]

Apart(a, b) == Larger(a - b, b - a) >= OptimizerDelta

ShouldTriggerOptimizer(new, old) ==
  \/ new.tier # old.tier
  \/ new.level # old.level
  \/ Apart(new.cost, old.cost) \/ Apart(new.risk, old.risk) \/ Apart(new.cohesion, old.cohesion)

PreferredModelRouteLow(st) ==  \* mistake: a load that is merely low is a moderate one
  IF st.tier = 4 THEN 4
  ELSE IF st.tier = 3 \/ st.level >= 4 THEN 3
  ELSE IF st.tier = 2 \/ st.level \in {2, 3} THEN 2 ELSE 1

(* The route the model policy of the stats prefers, from low to critical.   *)
PreferredModelRoute(st) ==
  IF st.tier = 4 THEN 4
  ELSE IF st.tier = 3 \/ st.level >= 4 THEN 3
  ELSE IF st.tier = 2 \/ st.level = 3 THEN 2 ELSE 1

ShouldIntervene(new, s) == new.risk >= 70 \/ s.findings >= 5

-------------------------------------------------------------------------------
Init ==
  /\ stats = DefaultStats
  /\ reports = 0
  /\ failed = FALSE
  /\ seen = <<>>
  /\ commands = {}
  /\ audited = FALSE
  /\ findings = 0
  /\ audits = <<>>
  /\ proposed = <<>>
  /\ summary = <<>>

(* A run that the stats say nothing of, or any run that fails: it leaves    *)
(* the text of its exception as the failure marker, even an empty text.     *)
Report(fails, told) ==
  /\ summary = <<>>
  /\ reports < MaxReports
  /\ reports' = reports + 1
  /\ failed' = IF fails THEN told ELSE failed
  /\ UNCHANGED <<stats, seen, commands, audited, findings, audits, proposed, summary>>

(* The orchestrator routed to the monitor, which every plan puts first      *)
(* (SuperGraph's MonitorsSeeNoAudit).                                       *)
MonitorRuns ==
  summary = <<>> /\ reports \in 1 .. MaxReports - 1 /\ ~audited /\ proposed = <<>>

Observed(r) ==
  [queue |-> r.queue, latency |-> r.latency, error |-> r.error,
   active |-> Larger(1, reports), findings |-> findings]

Commands(new, s) ==
  {type \in {"optimize", "audit"} :
     \/ type = "optimize" /\ ShouldTriggerOptimizer(new, stats)
     \/ type = "audit" /\ ShouldIntervene(new, s)}

MergedButLevel(new) ==  \* mistake: the load level is not taken over
  [new EXCEPT !.level = stats.level]

(* What _apply_state_update takes over from the stats report.               *)
Merged(new) == new

Monitor(r) ==
  /\ MonitorRuns
  /\ r.error <= 100
  /\ seen' = <<Observed(r)>>
  /\ stats' = Merged(Derived(Observed(r)))
  /\ commands' = Commands(Derived(Observed(r)), Observed(r))
  /\ reports' = reports + 1
  /\ UNCHANGED <<failed, audited, findings, audits, proposed, summary>>

(* MonitorSnapshot refuses a ratio above 1: the run fails.                  *)
RejectReading(r) ==
  /\ MonitorRuns
  /\ r.error > 100
  /\ Report(TRUE, TRUE)

One(holds) == IF holds THEN 1 ELSE 0

AuditFindings(r) == One(failed) + One(r.error >= CriticalError) + One(audited)

OverallRisk(n) == Smaller(100, Larger(stats.risk, 20 * n))

(* The newest audits, the newest first.                                     *)
Newest(risk) == SubSeq(<<risk>> \o audits, 1, Smaller(Len(audits) + 1, AuditWindow))

(* In mock mode the model answers OverallRisk, else what it likes.          *)
SecurityAudit(r) ==
  /\ summary = <<>>
  /\ reports \in 1 .. MaxReports - 1
  /\ audited' = TRUE
  /\ findings' = findings + AuditFindings(r)
  /\ \E risk \in {OverallRisk(AuditFindings(r))} \union ModelRisks : audits' = Newest(risk)
  /\ reports' = reports + 1
  /\ UNCHANGED <<stats, failed, seen, commands, proposed, summary>>

(* A mock answers with the route that the stats of the optimizer's state    *)
(* prefer.  A real model is not told of that route: its answer is any text, *)
(* and is proposed as it is.                                                *)
Proposals ==
  {[route |-> PreferredModelRoute(stats), mocked |-> TRUE]}
    \union [route : ModelRoutes, mocked : {FALSE}]

Optimize ==
  /\ summary = <<>>
  /\ reports \in 1 .. MaxReports - 1
  /\ \E proposal \in Proposals : proposed' = <<proposal>>
  /\ reports' = reports + 1
  /\ UNCHANGED <<stats, failed, seen, commands, audited, findings, audits, summary>>

PenaltySummed ==  \* mistake: the risks are added up, not averaged
  FoldSeq(+, 0, audits) \div 10

(* No command is ever stored as failed, so only the average of the audits   *)
(* counts.                                                                  *)
Penalty == IF audits = <<>> THEN 0 ELSE FoldSeq(+, 0, audits) \div (10 * Len(audits))

(* A score of 0 counts as absent.                                           *)
EvaluateCohesion == Clamp((IF stats.cohesion = 0 THEN 100 ELSE stats.cohesion) - Penalty)

Finalize ==
  /\ summary = <<>>
  /\ reports \in 1 .. MaxReports - 1
  /\ summary' = <<EvaluateCohesion>>
  /\ reports' = reports + 1
  /\ UNCHANGED <<stats, failed, seen, commands, audited, findings, audits, proposed>>

(* The next cycle starts from a fresh state, whatever became of this one.   *)
NewCycle ==
  /\ reports > 0
  /\ stats' = DefaultStats
  /\ reports' = 0
  /\ failed' = FALSE
  /\ seen' = <<>>
  /\ commands' = {}
  /\ audited' = FALSE
  /\ findings' = 0
  /\ proposed' = <<>>
  /\ summary' = <<>>
  /\ UNCHANGED audits

Next ==
  \/ \E fails, told \in BOOLEAN : Report(fails, told)
  \/ \E r \in Readings : Monitor(r) \/ RejectReading(r) \/ SecurityAudit(r)
  \/ Optimize
  \/ Finalize
  \/ NewCycle

Spec == Init /\ [][Next]_vars
-------------------------------------------------------------------------------
(* All but the summary's score, which a fold over the audits makes.         *)
CoreTypeOK ==
  /\ stats \in Stats
  /\ reports \in 0 .. MaxReports
  /\ failed \in BOOLEAN
  /\ seen \in Seq(Snapshot) /\ Len(seen) <= 1
  /\ commands \subseteq {"optimize", "audit"}
  /\ audited \in BOOLEAN
  /\ findings \in Nat
  /\ audits \in Seq(Score)
  /\ proposed \in Seq(Proposal) /\ Len(proposed) <= 1

TypeOK == CoreTypeOK /\ summary \in Seq(Score) /\ Len(summary) <= 1

(* The stats of a cycle are those of its last snapshot, there are no        *)
(* findings without an audit, and neither a mock's proposal nor a summary   *)
(* is followed by a step that changes what it was made from.                *)
IInv ==
  /\ CoreTypeOK
  /\ stats = IF seen = <<>> THEN DefaultStats ELSE Derived(seen[1])
  /\ ~audited => findings = 0
  /\ proposed # <<>> /\ proposed[1].mocked
       => proposed[1].route = PreferredModelRoute(stats)
  /\ summary \in {<<>>, <<EvaluateCohesion>>}

(* s and t differ at most in active cycles that leave the load level.       *)
SameTelemetry(s, t) ==
  /\ s.queue = t.queue /\ s.latency = t.latency /\ s.error = t.error
  /\ s.findings = t.findings
  /\ LoadLevel(s) = LoadLevel(t)

(* The OPTIMIZE command stands for drift: a monitor run that sees what the  *)
(* last one saw, but for the reports that came in between, finds the stats  *)
(* as it would leave them and does not repeat the command.                  *)
RepeatsAreQuiet ==
  [][\A r \in Readings :
       Monitor(r) /\ seen # <<>> /\ SameTelemetry(Observed(r), seen[1])
         => "optimize" \notin commands']_vars

(* The monitor counts the execution reports of its own cycle as active      *)
(* cycles, and there always is the orchestrator's: with the shipped queue   *)
(* thresholds the first run of a cycle emits OPTIMIZE whatever it reads.    *)
FirstRunsDrift ==
  [][\A r \in Readings : Monitor(r) /\ seen = <<>> => "optimize" \in commands']_vars

(* s is at least as bad as t in every measure.                              *)
Worse(s, t) ==
  /\ s.queue >= t.queue /\ s.active >= t.active
  /\ s.latency >= t.latency /\ s.error >= t.error /\ s.findings >= t.findings

NoBetter(new, old) ==
  /\ new.level >= old.level /\ new.tier >= old.tier /\ new.risk >= old.risk
  /\ new.cost <= old.cost /\ new.cohesion <= old.cohesion
  /\ PreferredModelRoute(new) >= PreferredModelRoute(old)

(* The stats policy of the monitor's prompt: no level, tier or score gets   *)
(* better, and no lower route is preferred, while every measure of the      *)
(* telemetry is as bad as before or worse.                                  *)
WorseTelemetryNeverHelps ==
  [][\A r \in Readings :
       Monitor(r) /\ seen # <<>> /\ Worse(Observed(r), seen[1]) => NoBetter(stats', stats)]_vars

(* The higher thresholds are not below the lower ones, as in the shipped    *)
(* settings.                                                                *)
ThresholdsOrdered ==
  /\ MediumLatency <= HighLatency /\ MediumLatency <= CriticalLatency
  /\ DegradedError <= CriticalError
  /\ QueueMedium <= QueueHigh /\ QueueMedium <= QueueCritical

Strained(s) ==
  \/ s.latency >= MediumLatency
  \/ s.error >= DegradedError
  \/ Pressure(s) >= QueueMedium

(* A mock knows the telemetry of the optimizer's own cycle only: it         *)
(* proposes more than the low route where the cycle's monitor saw a         *)
(* strained system, and there only.  In the scheduled optimization cycle,   *)
(* which runs no monitor, it proposes the low route however bad things are. *)
(* What a real model proposes is tied to no telemetry.                      *)
ProposalsNeedAMonitor ==
  proposed # <<>> /\ proposed[1].mocked =>
    (proposed[1].route > 1 <=> seen # <<>> /\ Strained(seen[1]))

(* A consistency that is always 1.0 and an error penalty of at most 20 keep *)
(* the risk below 70, and no audit precedes the monitor: its AUDIT command  *)
(* is never emitted, however bad the telemetry.                             *)
MonitorNeverIntervenes == "audit" \notin commands

(* A summary puts the cohesion of its own cycle's stats against the newest  *)
(* audits of all cycles, this one's included or not: it is never above the  *)
(* stats' cohesion, and below it only where one of those audits scored a    *)
(* risk of 10 or more.                                                      *)
SummaryReflectsAudits ==
  summary # <<>> =>
    /\ summary[1] <= stats.cohesion
    /\ summary[1] < stats.cohesion => \E i \in 1 .. Len(audits) : audits[i] >= 10

===============================================================================
