---------------------------- MODULE Telemetry_proofs ----------------------------
(***************************************************************************)
(* Theorems about Telemetry for every set of readings and every threshold  *)
(* the configuration accepts, and their proofs.                            *)
(***************************************************************************)
EXTENDS Telemetry, SequenceSums_proofs, TLAPS

(* Every snapshot gives stats within their ranges, whatever the thresholds. *)
LEMMA DerivedType ==
  ASSUME NEW s \in Snapshot
  PROVE  Derived(s) \in Stats
<1>1. /\ s.queue \in Nat /\ s.latency \in Nat /\ s.error \in 0 .. 100
      /\ s.active \in Nat /\ s.findings \in Nat
  BY DEF Snapshot, Score
<1>2. LoadLevel(s) \in 1 .. 5 /\ PerformanceTier(s) \in 1 .. 4
  BY DEF LoadLevel, PerformanceTier
<1>3. (7 * s.latency) \div 1000 \in Nat /\ s.latency \div 100 \in Nat
  BY <1>1
<1>4. CostEfficiency(s) \in Score
  <2> DEFINE slow == (7 * s.latency) \div 1000
             cost == s.latency \div 100
  <2>1. slow \in Nat /\ cost \in Nat
    BY <1>3
  <2>2. CostEfficiency(s) = Larger(0, 100 - Smaller(slow, 40) - Smaller(s.error, 40)
                                          - Smaller(Larger(1, cost), 30))
    BY DEF CostEfficiency
  <2> HIDE DEF slow, cost
  <2>3. /\ Smaller(slow, 40) \in Nat /\ Smaller(s.error, 40) \in Nat
        /\ Smaller(Larger(1, cost), 30) \in Nat
    BY <1>1, <2>1 DEF Smaller, Larger
  <2>4. 100 - Smaller(slow, 40) - Smaller(s.error, 40) - Smaller(Larger(1, cost), 30) <= 100
    BY <2>3
  <2> QED BY <2>2, <2>3, <2>4 DEF Larger, Score
<1>5. SecurityRisk(s) \in Score /\ Cohesion(s) \in Score
  BY <1>1 DEF SecurityRisk, Cohesion, Clamp, Smaller, Larger, Score
<1> QED BY <1>2, <1>4, <1>5 DEF Derived, Stats

(* What the monitor observes of an accepted reading is a snapshot.          *)
LEMMA ObservedType ==
  ASSUME CoreTypeOK, NEW r \in Readings, r.error <= 100
  PROVE  Observed(r) \in Snapshot
<1>1. r \in Reading /\ reports \in Nat /\ findings \in Nat
  BY ThresholdsAssumption DEF CoreTypeOK
<1>2. r.error \in 0 .. 100 /\ Larger(1, reports) \in Nat
  BY <1>1 DEF Reading, Larger
<1> QED BY <1>1, <1>2 DEF Observed, Snapshot, Reading, Score

(* Telemetry without findings keeps the risk at 20 or below.                *)
LEMMA RiskWithoutFindings ==
  ASSUME NEW s \in Snapshot, s.findings = 0
  PROVE  SecurityRisk(s) <= 20
BY DEF SecurityRisk, Clamp, Smaller, Larger, Snapshot, Score

(* Without findings the monitor has no reason to ask for an audit.          *)
LEMMA NoIntervention ==
  ASSUME NEW s \in Snapshot, s.findings = 0
  PROVE  ~ShouldIntervene(Derived(s), s)
<1>1. SecurityRisk(s) <= 20 /\ SecurityRisk(s) \in Int
  BY RiskWithoutFindings, DerivedType DEF Derived, Stats, Score
<1> QED BY <1>1 DEF ShouldIntervene, Derived

(* The same stats are no drift.                                             *)
LEMMA NoDrift ==
  ASSUME NEW st \in Stats
  PROVE  ~ShouldTriggerOptimizer(st, st)
<1>1. \A a \in Score : ~Apart(a, a)
  BY ThresholdsAssumption DEF Apart, Larger, Score
<1> QED BY <1>1 DEF ShouldTriggerOptimizer, Stats

(* Integer division keeps the order.                                        *)
LEMMA DivisionOrder ==
  ASSUME NEW a \in Nat, NEW b \in Nat, a >= b
  PROVE  /\ (7 * a) \div 1000 >= (7 * b) \div 1000
         /\ a \div 100 >= b \div 100
OBVIOUS

(* No measure derived from a snapshot that is nowhere better is better.     *)
LEMMA DerivedMonotone ==
  ASSUME NEW s \in Snapshot, NEW t \in Snapshot, Worse(s, t)
  PROVE  NoBetter(Derived(s), Derived(t))
<1>1. /\ s.queue \in Nat /\ s.latency \in Nat /\ s.error \in Nat
      /\ s.active \in Nat /\ s.findings \in Nat
      /\ t.queue \in Nat /\ t.latency \in Nat /\ t.error \in Nat
      /\ t.active \in Nat /\ t.findings \in Nat
  BY DEF Snapshot, Score
<1>2. /\ s.queue >= t.queue /\ s.active >= t.active
      /\ s.latency >= t.latency /\ s.error >= t.error /\ s.findings >= t.findings
  BY DEF Worse
<1>3. LoadLevel(s) >= LoadLevel(t)
  <2>1. /\ Pressure(s) \in Nat /\ Pressure(t) \in Nat
        /\ Pressure(s) >= Pressure(t)
    BY <1>1, <1>2 DEF Pressure, Larger
  <2> QED BY <2>1, ThresholdsAssumption DEF LoadLevel
<1>4. PerformanceTier(s) >= PerformanceTier(t)
  BY <1>1, <1>2, ThresholdsAssumption DEF PerformanceTier
<1>5. CostEfficiency(s) <= CostEfficiency(t)
  <2>1. /\ (7 * s.latency) \div 1000 \in Nat /\ (7 * t.latency) \div 1000 \in Nat
        /\ s.latency \div 100 \in Nat /\ t.latency \div 100 \in Nat
        /\ (7 * s.latency) \div 1000 >= (7 * t.latency) \div 1000
        /\ s.latency \div 100 >= t.latency \div 100
    BY <1>1, <1>2, DivisionOrder
  <2> DEFINE slow(x) == (7 * x.latency) \div 1000
             cost(x) == x.latency \div 100
  <2>2. /\ slow(s) \in Nat /\ slow(t) \in Nat /\ slow(s) >= slow(t)
        /\ cost(s) \in Nat /\ cost(t) \in Nat /\ cost(s) >= cost(t)
    BY <2>1
  <2>3. ASSUME NEW x \in {s, t}
        PROVE  CostEfficiency(x)
                 = Larger(0, 100 - Smaller(slow(x), 40) - Smaller(x.error, 40)
                                 - Smaller(Larger(1, cost(x)), 30))
    BY DEF CostEfficiency
  <2> HIDE DEF slow, cost
  <2>4. /\ Smaller(slow(s), 40) >= Smaller(slow(t), 40)
        /\ Smaller(s.error, 40) >= Smaller(t.error, 40)
        /\ Smaller(Larger(1, cost(s)), 30) >= Smaller(Larger(1, cost(t)), 30)
        /\ {Smaller(slow(s), 40), Smaller(slow(t), 40),
            Smaller(s.error, 40), Smaller(t.error, 40),
            Smaller(Larger(1, cost(s)), 30), Smaller(Larger(1, cost(t)), 30)} \subseteq Int
    BY <1>1, <1>2, <2>2 DEF Smaller, Larger
  <2> QED BY <2>3, <2>4 DEF Larger
<1>6. SecurityRisk(s) >= SecurityRisk(t)
  BY <1>1, <1>2 DEF SecurityRisk, Clamp, Smaller, Larger
<1>7. Cohesion(s) <= Cohesion(t)
  BY <1>1, <1>2 DEF Cohesion, Clamp, Smaller, Larger
<1>8. PreferredModelRoute(Derived(s)) >= PreferredModelRoute(Derived(t))
  <2>1. /\ Derived(s).tier >= Derived(t).tier /\ Derived(s).level >= Derived(t).level
        /\ Derived(s).tier \in 1 .. 4 /\ Derived(t).tier \in 1 .. 4
        /\ Derived(s).level \in 1 .. 5 /\ Derived(t).level \in 1 .. 5
    BY <1>3, <1>4, DerivedType DEF Derived, Stats
  <2> QED BY <2>1 DEF PreferredModelRoute
<1> QED BY <1>3, <1>4, <1>5, <1>6, <1>7, <1>8 DEF NoBetter, Derived

-------------------------------------------------------------------------------
(* The invariant and the absence of AUDIT commands, together.               *)
Inductive == IInv /\ MonitorNeverIntervenes

(* An empty sequence has every type.                                        *)
LEMMA EmptyType ==
  ASSUME NEW S
  PROVE  <<>> \in Seq(S) /\ Len(<<>>) <= 1
OBVIOUS

(* A fresh process satisfies the invariant.                                 *)
LEMMA InitInductive == Init => Inductive
<1> SUFFICES ASSUME Init PROVE Inductive
  OBVIOUS
<1>1. DefaultStats \in Stats
  BY DEF DefaultStats, Stats, Score
<1>2. CoreTypeOK
  <2>1. /\ seen \in Seq(Snapshot) /\ Len(seen) <= 1 /\ audits \in Seq(Score)
        /\ proposed \in Seq(Proposal) /\ Len(proposed) <= 1
    BY EmptyType DEF Init
  <2>2. reports \in 0 .. MaxReports
    BY ThresholdsAssumption DEF Init
  <2> QED BY <1>1, <2>1, <2>2 DEF Init, CoreTypeOK
<1> QED BY <1>2 DEF Init, Inductive, IInv, MonitorNeverIntervenes

(* Audits keep their scores and the newest ones stay a sequence.            *)
LEMMA NewestType ==
  ASSUME CoreTypeOK, NEW risk \in Score
  PROVE  Newest(risk) \in Seq(Score)
<1> DEFINE all == <<risk>> \o audits
           k == Smaller(Len(audits) + 1, AuditWindow)
<1>1. all \in Seq(Score) /\ Len(all) = Len(audits) + 1
  BY DEF CoreTypeOK
<1>2. k \in 0 .. Len(all)
  BY <1>1, ThresholdsAssumption DEF CoreTypeOK, Smaller
<1>3. \A i \in 1 .. k : all[i] \in Score
  BY <1>1, <1>2
<1>4. SubSeq(all, 1, k) \in Seq(Score)
  <2> HIDE DEF all, k
  <2> QED BY <1>1, <1>2, <1>3
<1> QED BY <1>4 DEF Newest

(* The risk an audit reports is a score.                                    *)
LEMMA RiskType ==
  ASSUME CoreTypeOK, NEW n \in Nat
  PROVE  OverallRisk(n) \in Score /\ ModelRisks \subseteq Score
<1>1. stats.risk \in 0 .. 100
  BY DEF CoreTypeOK, Stats, Score
<1> QED BY <1>1, ThresholdsAssumption DEF OverallRisk, Smaller, Larger, Score

(* The penalty as a sum that is a function of the audits.                   *)
LEMMA PenaltyUnrolled ==
  Penalty = IF audits = <<>> THEN 0 ELSE Iter(audits)[DOMAIN audits] \div (10 * Len(audits))
BY FoldIter DEF Penalty

(* The same stats and audits give the same score.                           *)
LEMMA SameScore ==
  stats' = stats /\ audits' = audits => EvaluateCohesion' = EvaluateCohesion
<1>1. PenaltyUnrolled'
  BY PenaltyUnrolled, PTL
<1>2. audits' = audits => Penalty' = Penalty
  BY <1>1, PenaltyUnrolled DEF PenaltyUnrolled
<1> QED BY <1>2 DEF EvaluateCohesion

(* Every step keeps the invariant.                                          *)
LEMMA StepInductive == Inductive /\ [Next]_vars => Inductive'
<1> SUFFICES ASSUME Inductive, [Next]_vars PROVE Inductive'
  OBVIOUS
<1> USE DEF Inductive, MonitorNeverIntervenes
<1>t. CoreTypeOK /\ reports \in 0 .. MaxReports /\ MaxReports \in Nat
  BY ThresholdsAssumption DEF IInv, CoreTypeOK
<1>1. ASSUME NEW fails \in BOOLEAN, NEW told \in BOOLEAN, Report(fails, told)
      PROVE  Inductive'
  <2>1. reports' \in 0 .. MaxReports /\ failed' \in BOOLEAN
    BY <1>1, <1>t DEF Report, CoreTypeOK
  <2> QED BY <1>1, <2>1 DEF Report, IInv, CoreTypeOK
<1>2. ASSUME NEW r \in Readings, Monitor(r) PROVE Inductive'
  <2>1. Observed(r) \in Snapshot
    BY <1>2, <1>t, ObservedType DEF Monitor
  <2>2. Derived(Observed(r)) \in Stats
    BY <2>1, DerivedType
  <2>3. Observed(r).findings = 0
    BY <1>2 DEF Monitor, MonitorRuns, Observed, IInv
  <2>4. "audit" \notin commands' /\ commands' \subseteq {"optimize", "audit"}
    BY <1>2, <2>1, <2>3, NoIntervention DEF Monitor, Commands
  <2>5. seen' \in Seq(Snapshot) /\ Len(seen') <= 1 /\ seen' # <<>> /\ seen'[1] = Observed(r)
    BY <1>2, <2>1 DEF Monitor
  <2>6. stats' = Derived(seen'[1])
    BY <1>2, <2>5 DEF Monitor, Merged
  <2>7. reports' \in 0 .. MaxReports
    BY <1>2, <1>t DEF Monitor, MonitorRuns
  <2>8. CoreTypeOK'
    BY <1>2, <1>t, <2>2, <2>4, <2>5, <2>6, <2>7 DEF Monitor, CoreTypeOK
  <2>9. (~audited => findings = 0)'
    BY <1>2 DEF Monitor, IInv
  <2>10. (stats = IF seen = <<>> THEN DefaultStats ELSE Derived(seen[1]))'
    <3>1. Derived(seen[1])' = Derived(seen'[1])
      BY DEF Derived, LoadLevel, Pressure, PerformanceTier, CostEfficiency, SecurityRisk, Cohesion
    <3> QED BY <2>5, <2>6, <3>1
  <2>11. proposed' = <<>> /\ summary' = <<>>
    BY <1>2 DEF Monitor, MonitorRuns
  <2> QED BY <2>4, <2>8, <2>9, <2>10, <2>11 DEF IInv
<1>3. ASSUME NEW r \in Readings, RejectReading(r) PROVE Inductive'
  BY <1>1, <1>3 DEF RejectReading
<1>4. ASSUME NEW r \in Readings, SecurityAudit(r) PROVE Inductive'
  <2>1. AuditFindings(r) \in Nat
    BY DEF AuditFindings, One
  <2>2. audits' \in Seq(Score)
    BY <1>4, <1>t, <2>1, RiskType, NewestType DEF SecurityAudit
  <2>3. reports' \in 0 .. MaxReports /\ findings' \in Nat /\ audited' = TRUE
    BY <1>4, <1>t, <2>1 DEF SecurityAudit, CoreTypeOK
  <2>4. CoreTypeOK'
    BY <1>4, <1>t, <2>2, <2>3 DEF SecurityAudit, CoreTypeOK
  <2> QED BY <1>4, <2>3, <2>4 DEF SecurityAudit, IInv
<1>5. ASSUME Finalize PROVE Inductive'
  <2>1. reports' \in 0 .. MaxReports
    BY <1>5, <1>t DEF Finalize
  <2>2. CoreTypeOK'
    BY <1>5, <1>t, <2>1 DEF Finalize, CoreTypeOK
  <2>3. summary' = <<EvaluateCohesion'>>
    BY <1>5, SameScore DEF Finalize
  <2> QED BY <1>5, <2>2, <2>3 DEF Finalize, IInv
<1>6. ASSUME NewCycle PROVE Inductive'
  <2>1. stats' \in Stats
    BY <1>6 DEF NewCycle, DefaultStats, Stats, Score
  <2>2. /\ seen' \in Seq(Snapshot) /\ Len(seen') <= 1
        /\ proposed' \in Seq(Proposal) /\ Len(proposed') <= 1
    BY <1>6, EmptyType DEF NewCycle
  <2>3. reports' \in 0 .. MaxReports
    BY <1>6, <1>t DEF NewCycle
  <2>4. CoreTypeOK'
    BY <1>6, <1>t, <2>1, <2>2, <2>3 DEF NewCycle, CoreTypeOK
  <2> QED BY <1>6, <2>4 DEF NewCycle, IInv
<1>7. ASSUME UNCHANGED vars PROVE Inductive'
  <2>1. CoreTypeOK'
    BY <1>7 DEF vars, IInv, CoreTypeOK
  <2>2. EvaluateCohesion' = EvaluateCohesion
    BY <1>7, SameScore DEF vars
  <2> QED BY <1>7, <2>1, <2>2 DEF vars, IInv
<1>8. ASSUME Optimize PROVE Inductive'
  <2>1. PICK proposal \in Proposals : proposed' = <<proposal>>
    BY <1>8 DEF Optimize
  <2>2. /\ proposal \in Proposal
        /\ proposal.mocked => proposal.route = PreferredModelRoute(stats)
    <3>1. PreferredModelRoute(stats) \in Routes
      BY DEF PreferredModelRoute, Routes
    <3> DEFINE route == PreferredModelRoute(stats)
    <3> HIDE DEF route
    <3>2. CASE proposal = [route |-> route, mocked |-> TRUE]
      BY <3>1, <3>2 DEF Proposal, route
    <3>3. CASE proposal \in [route : ModelRoutes, mocked : {FALSE}]
      <4>1. ModelRoutes \subseteq Routes
        BY ThresholdsAssumption
      <4>2. proposal.route \in Routes /\ proposal.mocked = FALSE
        BY <3>3, <4>1
      <4>3. proposal = [route |-> proposal.route, mocked |-> proposal.mocked]
        BY <3>3
      <4> QED BY <4>2, <4>3 DEF Proposal
    <3> QED BY <3>2, <3>3 DEF Proposals, route
  <2>3. proposed' \in Seq(Proposal) /\ Len(proposed') <= 1
    BY <2>1, <2>2
  <2>4. reports' \in 0 .. MaxReports
    BY <1>8, <1>t DEF Optimize
  <2>5. CoreTypeOK'
    BY <1>8, <1>t, <2>3, <2>4 DEF Optimize, CoreTypeOK
  <2>6. (proposed # <<>> /\ proposed[1].mocked
           => proposed[1].route = PreferredModelRoute(stats))'
    BY <1>8, <2>1, <2>2 DEF Optimize, PreferredModelRoute
  <2>7. summary' = <<>>
    BY <1>8 DEF Optimize
  <2> QED BY <1>8, <2>5, <2>6, <2>7 DEF Optimize, IInv
<1> QED BY <1>1, <1>2, <1>3, <1>4, <1>5, <1>6, <1>7, <1>8 DEF Next

(* The invariant holds, whatever the telemetry and the thresholds.          *)
THEOREM Invariance == Spec => []IInv
<1>1. Spec => []Inductive
  BY InitInductive, StepInductive, PTL DEF Spec
<1>2. Inductive => IInv
  BY DEF Inductive
<1> QED BY <1>1, <1>2, PTL

(* The monitor never emits an AUDIT command.                                *)
THEOREM NeverIntervenes == Spec => []MonitorNeverIntervenes
<1>1. Spec => []Inductive
  BY InitInductive, StepInductive, PTL DEF Spec
<1>2. Inductive => MonitorNeverIntervenes
  BY DEF Inductive
<1> QED BY <1>1, <1>2, PTL

(* A monitor run that sees what the last one saw emits no OPTIMIZE command.  *)
LEMMA QuietStep ==
  ASSUME IInv, NEW r \in Readings, Monitor(r),
         seen # <<>>, SameTelemetry(Observed(r), seen[1])
  PROVE  "optimize" \notin commands'
<1>1. Observed(r) \in Snapshot
  BY ObservedType DEF IInv, Monitor
<1>2. Derived(Observed(r)) \in Stats
  BY <1>1, DerivedType
<1>3. Derived(Observed(r)) = Derived(seen[1])
  BY DEF SameTelemetry, Derived, PerformanceTier, CostEfficiency, SecurityRisk, Cohesion
<1>4. stats = Derived(Observed(r))
  BY <1>3 DEF IInv
<1>5. ~ShouldTriggerOptimizer(Derived(Observed(r)), stats)
  BY <1>2, <1>4, NoDrift
<1> QED BY <1>5 DEF Monitor, Commands

(* Repeated telemetry is quiet, for every threshold and every delta.         *)
THEOREM QuietWhenRepeated == Spec => RepeatsAreQuiet
<1>1. IInv /\ [Next]_vars =>
        [\A r \in Readings :
           Monitor(r) /\ seen # <<>> /\ SameTelemetry(Observed(r), seen[1])
             => "optimize" \notin commands']_vars
  BY QuietStep
<1> QED BY <1>1, Invariance, PTL DEF Spec, RepeatsAreQuiet

(* A monitor run on telemetry that got worse improves nothing.               *)
LEMMA WorseStep ==
  ASSUME IInv, NEW r \in Readings, Monitor(r), seen # <<>>, Worse(Observed(r), seen[1])
  PROVE  NoBetter(stats', stats)
<1>1. Observed(r) \in Snapshot
  BY ObservedType DEF IInv, Monitor
<1>2. seen[1] \in Snapshot
  BY DEF IInv, CoreTypeOK
<1>3. NoBetter(Derived(Observed(r)), Derived(seen[1]))
  BY <1>1, <1>2, DerivedMonotone
<1>4. stats = Derived(seen[1])
  BY DEF IInv
<1>5. stats' = Derived(Observed(r))
  BY DEF Monitor, Merged
<1> QED BY <1>3, <1>4, <1>5

(* Worse telemetry never helps, not even under thresholds that the           *)
(* configuration leaves in an order nobody meant.                            *)
THEOREM NoReliefUnderStress == Spec => WorseTelemetryNeverHelps
<1>1. IInv /\ [Next]_vars =>
        [\A r \in Readings :
           Monitor(r) /\ seen # <<>> /\ Worse(Observed(r), seen[1])
             => NoBetter(stats', stats)]_vars
  BY WorseStep
<1> QED BY <1>1, Invariance, PTL DEF Spec, WorseTelemetryNeverHelps

(* With a low queue threshold of at most 5, as shipped, a first monitor run  *)
(* finds a higher load than a fresh state's.                                 *)
LEMMA FirstStep ==
  ASSUME QueueLow <= 5, IInv, NEW r \in Readings, Monitor(r), seen = <<>>
  PROVE  "optimize" \in commands'
<1>1. Observed(r).queue \in Nat /\ Observed(r).active \in Nat /\ Observed(r).active >= 1
  BY ThresholdsAssumption DEF IInv, CoreTypeOK, Observed, Larger, Reading
<1>2. Pressure(Observed(r)) \in Nat /\ Pressure(Observed(r)) >= 5
  BY <1>1 DEF Pressure, Larger
<1>3. LoadLevel(Observed(r)) # 1
  BY <1>2, ThresholdsAssumption DEF LoadLevel
<1>4. stats.level = 1
  BY DEF IInv, DefaultStats
<1>5. ShouldTriggerOptimizer(Derived(Observed(r)), stats)
  BY <1>3, <1>4 DEF ShouldTriggerOptimizer, Derived
<1> QED BY <1>5 DEF Monitor, Commands

(* Every cycle's first monitor run asks for the optimizer, whatever it reads.*)
THEOREM AlwaysDrifts ==
  ASSUME QueueLow <= 5
  PROVE  Spec => FirstRunsDrift
<1>1. IInv /\ [Next]_vars =>
        [\A r \in Readings : Monitor(r) /\ seen = <<>> => "optimize" \in commands']_vars
  BY FirstStep
<1> QED BY <1>1, Invariance, PTL DEF Spec, FirstRunsDrift

-------------------------------------------------------------------------------
(* The risks that the blackboard keeps are natural numbers.                 *)
LEMMA AuditsAreNat ==
  ASSUME CoreTypeOK
  PROVE  audits \in Seq(Nat) /\ \A i \in 1 .. Len(audits) : audits[i] \in Nat
<1>1. \A risk \in Score : risk \in Nat
  BY DEF Score
<1>2. audits \in Seq(Score)
  BY DEF CoreTypeOK
<1>3. ASSUME NEW i \in 1 .. Len(audits)
      PROVE  audits[i] \in Nat
  <2>1. audits[i] \in Score
    BY <1>2
  <2> QED BY <1>1, <2>1
<1>4. audits \in Seq(Nat)
  BY <1>2, <1>3
<1> QED BY <1>3, <1>4

(* The sum of risks that are all below 10 is below 10 times their number.   *)
LEMMA PenaltyBounds ==
  ASSUME CoreTypeOK
  PROVE  /\ Penalty \in Nat
         /\ Penalty > 0 => \E i \in 1 .. Len(audits) : audits[i] >= 10
<1> DEFINE total == FoldSeq(+, 0, audits)
<1>1. audits \in Seq(Nat) /\ \A i \in 1 .. Len(audits) : audits[i] \in Nat
  BY AuditsAreNat
<1>2. /\ total \in Nat
      /\ (\A i \in 1 .. Len(audits) : audits[i] <= 9) => total <= 9 * Len(audits)
  BY <1>1, SumBounds
<1>3. Penalty = IF audits = <<>> THEN 0 ELSE total \div (10 * Len(audits))
  BY DEF Penalty
<1> HIDE DEF total
<1>4. CASE audits = <<>>
  BY <1>3, <1>4
<1>5. CASE audits # <<>>
  <2>1. Len(audits) \in Nat \ {0}
    BY <1>1, <1>5
  <2>2. \A n \in Nat \ {0}, t \in Nat :
          t \div (10 * n) \in Nat /\ (t <= 9 * n => t \div (10 * n) = 0)
    OBVIOUS
  <2>3. Penalty = total \div (10 * Len(audits))
    BY <1>3, <1>5
  <2>4. ~(\A i \in 1 .. Len(audits) : audits[i] <= 9)
          => \E i \in 1 .. Len(audits) : audits[i] >= 10
    BY <1>1
  <2>5. Penalty \in Nat /\ (total <= 9 * Len(audits) => Penalty = 0)
    BY <1>2, <2>1, <2>2, <2>3
  <2> QED BY <1>2, <2>4, <2>5
<1> QED BY <1>4, <1>5

(* The stats of a cycle never have a cohesion of 0.                         *)
LEMMA CohesionPositive ==
  ASSUME IInv
  PROVE  stats.cohesion \in 1 .. 100
<1>1. CASE seen = <<>>
  BY <1>1 DEF IInv, DefaultStats
<1>2. CASE seen # <<>>
  <2>1. seen[1] \in Snapshot
    BY <1>2 DEF IInv, CoreTypeOK
  <2>2. Cohesion(seen[1]) \in 1 .. 100
    BY <2>1 DEF Cohesion, Clamp, Larger, Smaller, Snapshot, Score
  <2> QED BY <1>2, <2>2 DEF IInv, Derived
<1> QED BY <1>1, <1>2

(* The score that a summary gets is one, is not above the stats' own, and    *)
(* below it only where an audit scored 10 or more.                           *)
LEMMA ScoreBounds ==
  ASSUME IInv
  PROVE  /\ EvaluateCohesion \in Score
         /\ EvaluateCohesion <= stats.cohesion
         /\ EvaluateCohesion < stats.cohesion
              => \E i \in 1 .. Len(audits) : audits[i] >= 10
<1>1. stats.cohesion \in 1 .. 100
  BY CohesionPositive
<1>2. Penalty \in Nat /\ (Penalty > 0 => \E i \in 1 .. Len(audits) : audits[i] >= 10)
  BY PenaltyBounds DEF IInv
<1>3. EvaluateCohesion = Clamp(stats.cohesion - Penalty)
  BY <1>1 DEF EvaluateCohesion
<1>4. \A c \in 1 .. 100, p \in Nat :
        /\ Clamp(c - p) \in Score /\ Clamp(c - p) <= c
        /\ Clamp(c - p) < c => p > 0
  BY DEF Clamp, Larger, Smaller, Score
<1> QED BY <1>1, <1>2, <1>3, <1>4

(* Every reachable state is well typed: no score leaves 0 .. 100.            *)
THEOREM TelemetryTypes == Spec => []TypeOK
<1>1. IInv => TypeOK
  <2> SUFFICES ASSUME IInv PROVE TypeOK
    OBVIOUS
  <2>1. EvaluateCohesion \in Score
    BY ScoreBounds
  <2>2. summary \in Seq(Score) /\ Len(summary) <= 1
    <3>1. <<EvaluateCohesion>> \in Seq(Score) /\ Len(<<EvaluateCohesion>>) = 1
      BY <2>1
    <3>2. CASE summary = <<>>
      BY <3>2, EmptyType
    <3>3. CASE summary = <<EvaluateCohesion>>
      BY <3>1, <3>3
    <3> QED BY <3>2, <3>3 DEF IInv
  <2> QED BY <2>2 DEF IInv, TypeOK
<1> QED BY <1>1, Invariance, PTL

(* A summary's cohesion is the stats' own, lowered only by an audit among    *)
(* the newest ones that scored 10 or more, for every window and any audits.  *)
THEOREM SummariesReflectAudits == Spec => []SummaryReflectsAudits
<1>1. IInv => SummaryReflectsAudits
  <2> SUFFICES ASSUME IInv, summary # <<>>
               PROVE  /\ summary[1] <= stats.cohesion
                      /\ summary[1] < stats.cohesion
                           => \E i \in 1 .. Len(audits) : audits[i] >= 10
    BY DEF SummaryReflectsAudits
  <2>1. summary[1] = EvaluateCohesion
    BY DEF IInv
  <2> QED BY <2>1, ScoreBounds
<1> QED BY <1>1, Invariance, PTL

-------------------------------------------------------------------------------
(* A snapshot asks for more than the low route just when it is strained.     *)
LEMMA StrainRaisesRoute ==
  ASSUME ThresholdsOrdered, NEW s \in Snapshot
  PROVE  PreferredModelRoute(Derived(s)) > 1 <=> Strained(s)
<1>1. s.latency \in Nat /\ s.error \in Nat /\ Pressure(s) \in Nat
  BY DEF Snapshot, Score, Pressure, Larger
<1>2. PerformanceTier(s) > 1 <=> s.latency >= MediumLatency \/ s.error >= DegradedError
  BY <1>1, ThresholdsAssumption DEF PerformanceTier, ThresholdsOrdered
<1>3. LoadLevel(s) >= 3 <=> Pressure(s) >= QueueMedium
  BY <1>1, ThresholdsAssumption DEF LoadLevel, ThresholdsOrdered
<1>4. PerformanceTier(s) \in 1 .. 4 /\ LoadLevel(s) \in 1 .. 5
  BY DEF PerformanceTier, LoadLevel
<1>5. PreferredModelRoute(Derived(s)) > 1
        <=> PerformanceTier(s) > 1 \/ LoadLevel(s) >= 3
  <2>1. Derived(s).tier = PerformanceTier(s) /\ Derived(s).level = LoadLevel(s)
    BY DEF Derived
  <2> QED BY <1>4, <2>1 DEF PreferredModelRoute
<1> QED BY <1>2, <1>3, <1>5 DEF Strained

(* With thresholds in the shipped order, a mock's proposal above the low     *)
(* route and a strained system that this cycle's monitor saw go together.    *)
THEOREM ProposalsExplained ==
  ASSUME ThresholdsOrdered
  PROVE  Spec => []ProposalsNeedAMonitor
<1>1. IInv => ProposalsNeedAMonitor
  <2> SUFFICES ASSUME IInv, proposed # <<>>, proposed[1].mocked
               PROVE  proposed[1].route > 1 <=> seen # <<>> /\ Strained(seen[1])
    BY DEF ProposalsNeedAMonitor
  <2>1. proposed[1].route = PreferredModelRoute(stats)
    BY DEF IInv
  <2>2. CASE seen = <<>>
    <3>1. PreferredModelRoute(stats) = 1
      BY <2>2 DEF IInv, DefaultStats, PreferredModelRoute
    <3> QED BY <2>1, <2>2, <3>1
  <2>3. CASE seen # <<>>
    <3>1. seen[1] \in Snapshot /\ stats = Derived(seen[1])
      BY <2>3 DEF IInv, CoreTypeOK
    <3> QED BY <2>1, <2>3, <3>1, StrainRaisesRoute
  <2> QED BY <2>2, <2>3
<1> QED BY <1>1, Invariance, PTL

===============================================================================
