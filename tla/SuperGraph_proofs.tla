--------------------------- MODULE SuperGraph_proofs ---------------------------
(***************************************************************************)
(* Theorems about SuperGraph for every set of cycles, every set of         *)
(* requests and readings and every bound, and their proofs.                *)
(***************************************************************************)
EXTENDS SuperGraph, TLAPS

(* A conditional one-item sequence stays within the item's type.           *)
LEMMA SingletonType ==
  ASSUME NEW S, NEW x \in S
  PROVE  <<>> \in Seq(S) /\ <<x>> \in Seq(S)
OBVIOUS

(* An agent or artifact that is added under a condition keeps the sequence   *)
(* typed.                                                                    *)
LEMMA WhenType ==
  ASSUME NEW S, NEW x \in S, NEW b
  PROVE  When(b, x) \in Seq(S)
BY SingletonType DEF When

(* The plan is a sequence of specialists and of what was scheduled, and it *)
(* is never empty.                                                         *)
LEMMA PlanType ==
  ASSUME NEW req \in Request, NEW fresh \in BOOLEAN, NEW triggered \in BOOLEAN
  PROVE  /\ DetermineNextAgents(req, fresh, triggered) \in Seq(Specialists \union {"unlisted"})
         /\ DetermineNextAgents(req, fresh, triggered) # <<>>
         /\ Tail(DetermineNextAgents(req, fresh, triggered)) \in Seq(Specialists)
<1> DEFINE m == When(fresh, "monitor")
           s == When("audit" \in req.topics, "security_audit")
           a == When("analyze" \in req.topics, "analyzer")
           p == When("execute" \in req.topics, "planner_executor")
           o == When("optimize" \in req.topics \/ triggered, "optimizer")
           k == When("knowledge" \in req.topics, "knowledge")
           ordered == m \o s \o a \o p \o o \o k
<1>1. /\ m \in Seq(Specialists) /\ s \in Seq(Specialists) /\ a \in Seq(Specialists)
      /\ p \in Seq(Specialists) /\ o \in Seq(Specialists) /\ k \in Seq(Specialists)
  <2>1. /\ "monitor" \in Specialists /\ "security_audit" \in Specialists
        /\ "analyzer" \in Specialists /\ "planner_executor" \in Specialists
        /\ "optimizer" \in Specialists /\ "knowledge" \in Specialists
    BY DEF Specialists
  <2> QED BY <2>1, WhenType
<1>2. ordered \in Seq(Specialists)
  <2> HIDE DEF m, s, a, p, o, k
  <2> QED BY <1>1
<1>3. ASSUME NEW q \in Seq(Specialists), q # <<>>
      PROVE  q \in Seq(Specialists \union {"unlisted"}) /\ Tail(q) \in Seq(Specialists)
  BY <1>3
<1>4. CASE req.scheduled # ""
  <2>1. req.scheduled \in Specialists \union {"unlisted"}
    BY <1>4 DEF Request
  <2>2. DetermineNextAgents(req, fresh, triggered) = <<req.scheduled>>
    BY <1>4 DEF DetermineNextAgents
  <2> QED BY <2>1, <2>2
<1>5. CASE req.scheduled = "" /\ req.force
  <2>1. DetermineNextAgents(req, fresh, triggered) = <<"security_audit">>
    BY <1>5 DEF DetermineNextAgents
  <2> QED BY <2>1 DEF Specialists
<1>6. CASE req.scheduled = "" /\ ~req.force /\ ordered = <<>>
  <2>1. DetermineNextAgents(req, fresh, triggered)
          = <<"analyzer", "planner_executor", "optimizer", "knowledge">>
    BY <1>6 DEF DetermineNextAgents
  <2> QED BY <2>1 DEF Specialists
<1>7. CASE req.scheduled = "" /\ ~req.force /\ ordered # <<>>
  <2>1. DetermineNextAgents(req, fresh, triggered) = ordered
    BY <1>7 DEF DetermineNextAgents
  <2>2. /\ ordered \in Seq(Specialists \union {"unlisted"})
        /\ Tail(ordered) \in Seq(Specialists)
        /\ ordered # <<>>
    BY <1>3, <1>2, <1>7
  <2> QED BY <2>1, <2>2
<1> QED BY <1>4, <1>5, <1>6, <1>7 DEF Request

-------------------------------------------------------------------------------
(* Types.                                                                  *)

(* The components of one cycle have their types, and supersteps are counted  *)
(* from one.                                                                 *)
LEMMA StateType ==
  ASSUME TypeOK, NEW c \in Cycles
  PROVE  /\ request[c] \in Request
         /\ state[c] \in GraphState
         /\ frame[c] \in Frame
         /\ blackboard[c] \subseteq Row
         /\ Run(c) \in Nat \ {0}
<1>1. /\ request[c] \in Request /\ state[c] \in GraphState
      /\ frame[c] \in Frame /\ blackboard[c] \subseteq Row
  BY DEF TypeOK
<1>2. Run(c) \in Nat \ {0}
  BY <1>1 DEF Run, GraphState
<1> QED BY <1>1, <1>2

(* The agent routed to next is a specialist or the unlisted name of a        *)
(* request; those after it are specialists.                                  *)
LEMMA PendingType ==
  ASSUME TypeOK, NEW c \in Cycles, PendingAgents(c) # <<>>
  PROVE  /\ Head(PendingAgents(c)) \in Specialists \union {"unlisted"}
         /\ Tail(PendingAgents(c)) \in Seq(Specialists)
<1>1. request[c] \in Request /\ state[c] \in GraphState
  BY StateType
<1>2. CASE state[c].planned
  <2>1. PendingAgents(c) = state[c].pending /\ state[c].pending \in Seq(Specialists)
    BY <1>1, <1>2 DEF PendingAgents, GraphState
  <2> QED BY <2>1
<1>3. CASE ~state[c].planned
  <2> DEFINE fresh == state[c].reports = <<>>
  <2>1. PendingAgents(c) = DetermineNextAgents(request[c], fresh, FALSE)
    BY <1>3 DEF PendingAgents
  <2>2. fresh \in BOOLEAN
    OBVIOUS
  <2> HIDE DEF fresh
  <2>3. PendingAgents(c) \in Seq(Specialists \union {"unlisted"})
    BY <1>1, <2>1, <2>2, PlanType
  <2>4. Tail(PendingAgents(c)) \in Seq(Specialists)
    BY <1>1, <2>1, <2>2, PlanType
  <2> QED BY <2>3, <2>4
<1> QED BY <1>1, <1>2, <1>3 DEF GraphState

(* Appending the report of the active node keeps the reports typed.          *)
LEMMA ReportedType ==
  ASSUME TypeOK, NEW c \in Cycles, frame[c].node \in Nodes,
         NEW status \in {"completed", "failed"}, NEW told \in BOOLEAN
  PROVE  Reported(c, status, told) \in Seq(Report)
<1>1. state[c].reports \in Seq(Report)
  BY StateType DEF GraphState
<1>2. [agent |-> frame[c].node, status |-> status, told |-> told] \in Report
  BY DEF Report
<1> QED BY <1>1, <1>2 DEF Reported

(* What run's except branch returns is a graph state.                        *)
LEMMA FailedStateType ==
  ASSUME TypeOK, NEW c \in Cycles, frame[c].node \in Nodes, NEW told \in BOOLEAN
  PROVE  FailedState(c, told) \in GraphState
<1>1. state[c] \in GraphState /\ Reported(c, "failed", told) \in Seq(Report)
  BY StateType, ReportedType
<1> QED BY <1>1 DEF FailedState, GraphState

(* Leaving a node with a well-typed state keeps states and frames typed.   *)
LEMMA LeaveType ==
  ASSUME TypeOK, NEW c \in Cycles, frame[c].node \in Nodes,
         NEW st \in GraphState, Leave(c, st)
  PROVE  state' \in [Cycles -> GraphState] /\ frame' \in [Cycles -> Frame]
<1>1. NextNode(frame[c].node, st) \in Nodes \union {"__end__"}
  BY DEF NextNode, GraphState, Nodes, Specialists
<1>2. AtNode(NextNode(frame[c].node, st)) \in Frame
  BY <1>1 DEF AtNode, Frame, Running
<1> QED BY <1>2 DEF Leave, TypeOK

(* Moving a task to another point of run keeps the frames typed.             *)
LEMMA EnterType ==
  ASSUME TypeOK, NEW c \in Cycles, NEW pc \in Running \union Over, Enter(c, pc)
  PROVE  frame' \in [Cycles -> Frame]
<1>1. [frame[c] EXCEPT !.pc = pc] \in Frame
  BY StateType DEF Frame
<1>2. frame' = [frame EXCEPT ![c] = [frame[c] EXCEPT !.pc = pc]]
  BY DEF Enter, TypeOK
<1> QED BY <1>1, <1>2 DEF TypeOK

(* Committing a row keeps the blackboard typed.                              *)
LEMMA WriteType ==
  ASSUME TypeOK, NEW c \in Cycles, NEW row \in Row, Write(c, row)
  PROVE  blackboard' \in [Cycles -> SUBSET Row]
BY DEF Write, TypeOK

(* Whatever a specialist emits is a sequence of artifacts.                   *)
LEMMA ArtifactsType ==
  ASSUME NEW c \in Cycles, NEW reading \in Readings, frame[c].node \in Specialists,
         NEW artifacts \in Artifacts(c, reading)
  PROVE  artifacts \in Seq(Artifact)
<1>1. /\ Emit("memory") \in Artifact /\ Emit("stats") \in Artifact
      /\ Emit("audit") \in Artifact /\ Emit("proposal") \in Artifact
      /\ \A target \in Nodes : Command(target) \in Artifact
  BY DEF Emit, Command, Artifact
<1>2. /\ "optimizer" \in Nodes /\ "security_audit" \in Nodes /\ "analyzer" \in Nodes
      /\ "planner_executor" \in Nodes /\ "knowledge" \in Nodes /\ "orchestrator" \in Nodes
  BY DEF Nodes, Specialists
<1>3. \A a, b \in Artifact : <<a, b>> \in Seq(Artifact) /\ <<a>> \in Seq(Artifact)
  OBVIOUS
<1>4. CASE frame[c].node = "monitor"
  <2> DEFINE o == When(reading.drift, Command("optimizer"))
             a == When(reading.intervention /\ Audited(c), Command("security_audit"))
  <2>1. artifacts = <<Emit("memory")>> \o o \o a \o <<Emit("stats")>>
    BY <1>4 DEF Artifacts, MonitorArtifacts
  <2>2. o \in Seq(Artifact) /\ a \in Seq(Artifact)
    BY <1>1, <1>2, WhenType
  <2> HIDE DEF o, a
  <2> QED BY <1>1, <1>3, <2>1, <2>2
<1>5. CASE frame[c].node = "analyzer"
  <2>1. PICK target \in {"planner_executor", "optimizer", "knowledge", "security_audit"} :
          artifacts = <<Emit("memory"), Command(target)>>
    BY <1>5 DEF Artifacts, AnalyzerArtifacts
  <2>2. Command(target) \in Artifact
    BY <1>1, <1>2
  <2> QED BY <1>1, <1>3, <2>1, <2>2
<1>6. CASE frame[c].node = "planner_executor"
  <2>1. PICK more \in BOOLEAN :
          artifacts = <<Emit("memory")>> \o When(more, Command("analyzer"))
    BY <1>6 DEF Artifacts, PlannerArtifacts
  <2>2. When(more, Command("analyzer")) \in Seq(Artifact)
    BY <1>1, <1>2, WhenType
  <2> QED BY <1>1, <1>3, <2>1, <2>2
<1>7. CASE frame[c].node = "optimizer"
  <2>1. artifacts = <<Emit("memory"), Emit("proposal")>>
    BY <1>7 DEF Artifacts, OptimizerArtifacts
  <2> QED BY <1>1, <1>3, <2>1
<1>8. CASE frame[c].node = "knowledge"
  <2>1. artifacts = <<Emit("memory")>>
    BY <1>8 DEF Artifacts, KnowledgeArtifacts
  <2> QED BY <1>1, <1>3, <2>1
<1>9. CASE frame[c].node = "security_audit"
  <2> DEFINE r == When(HasFindings(c, reading), Command("orchestrator"))
  <2>1. artifacts = <<Emit("memory")>> \o r \o <<Emit("audit")>>
    BY <1>9 DEF Artifacts, AuditArtifacts
  <2>2. r \in Seq(Artifact)
    BY <1>1, <1>2, WhenType
  <2> HIDE DEF r
  <2> QED BY <1>1, <1>3, <2>1, <2>2
<1> QED BY <1>4, <1>5, <1>6, <1>7, <1>8, <1>9 DEF Specialists

(* The rows of the artifacts of a run are rows.                              *)
LEMMA EmittedType ==
  ASSUME TypeOK, NEW c \in Cycles
  PROVE  Emitted(c) \subseteq Row
<1>1. frame[c].artifacts \in Seq(Artifact) /\ Run(c) \in Nat \ {0}
  BY StateType DEF Frame
<1>2. \A i \in 1 .. Len(frame[c].artifacts) : frame[c].artifacts[i] \in Artifact
  BY <1>1
<1>3. \A artifact \in Artifact : RowOf(c, artifact.kind, artifact.target) \in Row
  BY <1>1 DEF Artifact, RowOf, Row
<1> QED BY <1>2, <1>3 DEF Emitted

(* Every step keeps the state well typed, one case per action of Next.       *)
LEMMA TypeStep ==
  ASSUME TypeOK, TokensInFlight, RowsInFlight, [Next]_vars
  PROVE  TypeOK'
<1>1. CASE UNCHANGED vars
  BY <1>1 DEF TypeOK, vars
<1>2. ASSUME NEW c \in Cycles, Submit(c)
      PROVE  TypeOK'
  BY <1>2, EnterType DEF Submit, TypeOK, Running
<1>3. ASSUME NEW c \in Cycles, Dispatch(c)
      PROVE  TypeOK'
  BY <1>3, EnterType DEF Dispatch, TypeOK, Running
<1>4. ASSUME NEW c \in Cycles, Return(c) \/ Raise(c)
      PROVE  TypeOK'
  BY <1>4, EnterType DEF Return, Raise, TypeOK, Over
<1>5. ASSUME NEW c \in Cycles, PrepareContext(c)
      PROVE  TypeOK'
  BY <1>5, EnterType DEF PrepareContext, TypeOK, Running
<1>6. ASSUME NEW c \in Cycles, RejectBlankObjective(c)
      PROVE  TypeOK'
  <2>1. FailedState(c, TRUE) \in GraphState
    BY <1>6, FailedStateType DEF RejectBlankObjective, InNode
  <2> QED BY <1>6, <2>1, LeaveType DEF RejectBlankObjective, InNode, TypeOK
<1>7. ASSUME NEW c \in Cycles, FailRun(c)
      PROVE  TypeOK'
  <2>1. PICK told \in BOOLEAN : Leave(c, FailedState(c, told))
    BY <1>7 DEF FailRun
  <2>2. FailedState(c, told) \in GraphState
    BY <1>7, FailedStateType DEF FailRun, InNode
  <2>3. state' \in [Cycles -> GraphState] /\ frame' \in [Cycles -> Frame]
    BY <1>7, <2>1, <2>2, LeaveType DEF FailRun, InNode
  <2> QED BY <1>7, <2>3, BoundsAssumption DEF FailRun, TypeOK
<1>8. ASSUME NEW c \in Cycles, IssueApproval(c)
      PROVE  TypeOK'
  <2> DEFINE token == [cycle |-> c, run |-> Run(c), target |-> Head(PendingAgents(c)),
                       expires |-> Expiry]
  <2>1. token \in Approval
    <3>1. Run(c) \in Nat \ {0} /\ Expiry \in Nat
      BY StateType, BoundsAssumption DEF Expiry, TypeOK
    <3>2. Head(PendingAgents(c)) \in Specialists \union {"unlisted"}
      BY <1>8, PendingType DEF IssueApproval
    <3> QED BY <3>1, <3>2 DEF Approval
  <2>2. [frame[c] EXCEPT !.pc = "approving", !.token = {token}] \in Frame
    <3> HIDE DEF token
    <3> QED BY <2>1, StateType DEF Frame, Running
  <2>3. /\ frame' = [frame EXCEPT ![c] = [frame[c] EXCEPT !.pc = "approving", !.token = {token}]]
        /\ approved' = approved \union {token}
    BY <1>8 DEF IssueApproval, TypeOK
  <2> HIDE DEF token
  <2> QED BY <1>8, <2>1, <2>2, <2>3 DEF IssueApproval, TypeOK
<1>9. ASSUME NEW c \in Cycles, Route(c)
      PROVE  TypeOK'
  <2>1. frame[c].node \in Nodes /\ PendingAgents(c) # <<>>
    BY <1>9 DEF Route, InNode, TokensInFlight
  <2> DEFINE head == Head(PendingAgents(c))
             tail == Tail(PendingAgents(c))
             reports == Reported(c, "completed", TRUE)
  <2>2. head \in Specialists /\ tail \in Seq(Specialists) /\ reports \in Seq(Report)
    BY <1>9, <2>1, PendingType, ReportedType DEF Route
  <2>3. RoutedState(c) = [state[c] EXCEPT
          !.planned = TRUE, !.pending = tail, !.next = head, !.decisions = Append(@, head),
          !.reports = reports, !.approvals = @ \union frame[c].token]
    BY DEF RoutedState
  <2>4. Append(state[c].decisions, head) \in Seq(Specialists \union {"finalize"})
    <3> HIDE DEF head
    <3> QED BY <2>2, StateType DEF GraphState
  <2>5. state[c].approvals \union frame[c].token \in SUBSET Approval
    BY StateType DEF GraphState, Frame
  <2> HIDE DEF head, tail, reports
  <2>6. RoutedState(c) \in GraphState
    BY <2>2, <2>3, <2>4, <2>5, StateType DEF GraphState
  <2> QED BY <1>9, <2>1, <2>6, LeaveType DEF Route, TypeOK
<1>10. ASSUME NEW c \in Cycles, RejectUnlisted(c)
       PROVE  TypeOK'
  <2>1. FailedState(c, TRUE) \in GraphState
    BY <1>10, FailedStateType DEF RejectUnlisted, InNode
  <2>2. [FailedState(c, TRUE) EXCEPT !.approvals = @ \union frame[c].token] \in GraphState
    BY <2>1, StateType DEF GraphState, Frame
  <2> QED BY <1>10, <2>2, LeaveType DEF RejectUnlisted, InNode, TypeOK
<1>11. ASSUME NEW c \in Cycles, Finalize(c)
       PROVE  TypeOK'
  <2> DEFINE decisions == Append(state[c].decisions, "finalize")
             reports == Reported(c, "completed", TRUE)
             none == <<>>
             st == [state[c] EXCEPT
                      !.planned = TRUE, !.pending = none, !.next = "__end__",
                      !.decisions = decisions, !.reports = reports,
                      !.summary = state[c].reports]
  <2>1. Leave(c, st)
    BY <1>11 DEF Finalize
  <2>2. decisions \in Seq(Specialists \union {"finalize"})
    BY StateType DEF GraphState
  <2>3. reports \in Seq(Report)
    BY <1>11, ReportedType DEF Finalize, InNode
  <2>4. st \in GraphState
    <3>1. none \in Seq(Specialists)
      OBVIOUS
    <3> HIDE DEF decisions, reports, none
    <3> QED BY <2>2, <2>3, <3>1, StateType DEF GraphState
  <2> HIDE DEF st
  <2> QED BY <1>11, <2>1, <2>4, LeaveType DEF Finalize, InNode, TypeOK
<1>12. ASSUME NEW c \in Cycles, StartSandbox(c)
       PROVE  TypeOK'
  <2>1. RowOf(c, "execution", "none") \in Row
    BY StateType DEF RowOf, Row, Effects
  <2>2. CommandOf(c) \in Sandbox
    BY StateType DEF CommandOf, Sandbox
  <2>3. frame' \in [Cycles -> Frame] /\ blackboard' \in [Cycles -> SUBSET Row]
    BY <1>12, <2>1, WriteType, EnterType DEF StartSandbox, Running
  <2> QED BY <1>12, <2>2, <2>3 DEF StartSandbox, TypeOK
<1>13. ASSUME NEW c \in Cycles, LinkKnowledge(c)
       PROVE  TypeOK'
  <2>1. RowOf(c, "link", "none") \in Row
    BY StateType DEF RowOf, Row, Effects
  <2> QED BY <1>13, <2>1, WriteType, EnterType DEF LinkKnowledge, TypeOK, Running
<1>14. ASSUME NEW c \in Cycles, Produce(c)
       PROVE  TypeOK'
  <2>1. frame[c].node \in Specialists
    BY <1>14 DEF Produce, InNode, RowsInFlight
  <2>2. PICK reading \in Readings : \E artifacts \in Artifacts(c, reading) :
          frame' = [frame EXCEPT ![c].pc = "persist", ![c].artifacts = artifacts]
    BY <1>14 DEF Produce
  <2>3. PICK artifacts \in Artifacts(c, reading) :
          frame' = [frame EXCEPT ![c].pc = "persist", ![c].artifacts = artifacts]
    BY <2>2
  <2>4. artifacts \in Seq(Artifact)
    BY <2>1, ArtifactsType
  <2>5. [frame[c] EXCEPT !.pc = "persist", !.artifacts = artifacts] \in Frame
    BY <2>4, StateType DEF Frame, Running
  <2>6. frame' = [frame EXCEPT
                    ![c] = [frame[c] EXCEPT !.pc = "persist", !.artifacts = artifacts]]
    BY <2>3 DEF TypeOK
  <2> QED BY <1>14, <2>5, <2>6 DEF Produce, TypeOK
<1>15. ASSUME NEW c \in Cycles, PersistNext(c)
       PROVE  TypeOK'
  <2> DEFINE next == frame[c].artifacts[frame[c].written + 1]
  <2>1. next \in Artifact
    BY <1>15, StateType DEF PersistNext, Frame
  <2>2. RowOf(c, next.kind, next.target) \in Row
    BY <2>1, StateType DEF RowOf, Row, Artifact
  <2>3. blackboard' \in [Cycles -> SUBSET Row]
    BY <1>15, <2>2, WriteType DEF PersistNext
  <2>4. [frame[c] EXCEPT !.written = @ + 1] \in Frame
    BY StateType DEF Frame
  <2>5. frame' = [frame EXCEPT ![c] = [frame[c] EXCEPT !.written = @ + 1]]
    BY <1>15 DEF PersistNext, TypeOK
  <2> QED BY <1>15, <2>3, <2>4, <2>5 DEF PersistNext, TypeOK
<1>16. ASSUME NEW c \in Cycles, CompleteRun(c)
       PROVE  TypeOK'
  <2> DEFINE st == [state[c] EXCEPT !.reports = Reported(c, "completed", TRUE),
                                    !.rows = @ \union Emitted(c)]
  <2>1. Emitted(c) \subseteq Row
    BY EmittedType
  <2>2. st \in GraphState
    BY <1>16, <2>1, StateType, ReportedType DEF CompleteRun, InNode, GraphState
  <2>3. Leave(c, st)
    BY <1>16 DEF CompleteRun
  <2> HIDE DEF st
  <2> QED BY <1>16, <2>2, <2>3, LeaveType DEF CompleteRun, InNode, TypeOK
<1>17. CASE Crash
  <2>1. \A c \in Cycles : [frame[c] EXCEPT !.pc = "lost"] \in Frame /\ frame[c] \in Frame
    BY StateType DEF Frame, Over
  <2>2. frame' \in [Cycles -> Frame]
    BY <1>17, <2>1 DEF Crash
  <2> QED BY <1>17, <2>2, BoundsAssumption DEF Crash, TypeOK
<1>18. CASE Tick
  BY <1>18, BoundsAssumption DEF Tick, TypeOK
<1>19. CASE Quiet
  BY <1>1, <1>19 DEF Quiet
<1>20. ASSUME NEW c \in Cycles, SandboxAnswers(c)
       PROVE  TypeOK'
  <2>1. frame' \in [Cycles -> Frame]
    BY <1>20, EnterType DEF SandboxAnswers, Running
  <2> QED BY <1>20, <2>1 DEF SandboxAnswers, SandboxesAfter, TypeOK
<1>21. ASSUME NEW c \in Cycles, SandboxTimesOut(c)
       PROVE  TypeOK'
  <2>1. FailedState(c, FALSE) \in GraphState
    BY <1>21, FailedStateType DEF SandboxTimesOut, InNode
  <2> QED BY <1>21, <2>1, LeaveType DEF SandboxTimesOut, InNode, TypeOK
<1>22. ASSUME NEW c \in Cycles, Cancel(c) \/ RejectReport(c)
       PROVE  TypeOK'
  <2>1. frame' \in [Cycles -> Frame]
    BY <1>22, EnterType DEF Cancel, RejectReport, Over
  <2>2. faults' \in 0 .. MaxFaults
    <3>1. faults' = faults + 1 /\ faults < MaxFaults
      BY <1>22 DEF Cancel, RejectReport
    <3>2. faults \in 0 .. MaxFaults
      BY DEF TypeOK
    <3> QED BY <3>1, <3>2, BoundsAssumption
  <2>3. UNCHANGED <<request, state, blackboard, approved, sandboxes, clock>>
    BY <1>22 DEF Cancel, RejectReport
  <2> QED BY <2>1, <2>2, <2>3 DEF TypeOK
<1>23. ASSUME NEW command \in sandboxes, CommandEnds(command)
       PROVE  TypeOK'
  BY <1>23 DEF CommandEnds, TypeOK
<1> QED
  BY <1>1, <1>2, <1>3, <1>4, <1>5, <1>6, <1>7, <1>8, <1>9, <1>10, <1>11, <1>12, <1>13,
     <1>14, <1>15, <1>16, <1>17, <1>18, <1>19, <1>20, <1>21, <1>22, <1>23 DEF Next, Progress

-------------------------------------------------------------------------------
(* What the shapes of step change: the steps of one cycle that only move   *)
(* its program counter, and those that leave a node, touch neither the     *)
(* blackboard nor the bus, and no step of a cycle touches another cycle.   *)

Moves(c) ==
  \/ Submit(c) \/ Dispatch(c) \/ Return(c) \/ Raise(c) \/ PrepareContext(c)
  \/ SandboxAnswers(c) \/ Cancel(c) \/ RejectReport(c)

Leaves(c) ==
  \/ RejectBlankObjective(c) \/ FailRun(c) \/ Route(c) \/ RejectUnlisted(c)
  \/ Finalize(c) \/ SandboxTimesOut(c) \/ CompleteRun(c)

Writes(c) == StartSandbox(c) \/ LinkKnowledge(c) \/ PersistNext(c)

(* A step moves a task inside its node, makes it leave its node, writes a    *)
(* row, issues an approval, produces artifacts, or is a crash or none of     *)
(* these.                                                                    *)
LEMMA StepShapes ==
  ASSUME [Next]_vars
  PROVE  \/ UNCHANGED <<request, state, frame, blackboard, approved>>
         \/ Crash
         \/ \E c \in Cycles : \/ Moves(c) \/ Leaves(c) \/ Writes(c)
                               \/ IssueApproval(c) \/ Produce(c)
BY DEF Next, Progress, Moves, Leaves, Writes, CommandEnds, Tick, Quiet, vars

(* A move changes one task's program point and nothing else.                 *)
LEMMA MovesEffect ==
  ASSUME TypeOK, NEW c \in Cycles, Moves(c)
  PROVE  /\ UNCHANGED <<request, state, blackboard, approved>>
         /\ \E pc \in {"boundary", "returned", "raised", "lost", "context", "work", "effected"} :
              /\ frame' = [frame EXCEPT ![c] = [frame[c] EXCEPT !.pc = pc]]
              /\ pc \in Running => frame[c].pc \in {"idle", "boundary", "context", "sandbox"}
              /\ pc = "effected" => frame[c].pc = "sandbox"
              /\ frame[c].pc = "idle" => pc = "boundary"
BY DEF Moves, Submit, Dispatch, Return, Raise, PrepareContext, SandboxAnswers, Cancel, RejectReport,
       InNode, Enter, Running, TypeOK

(* Leaving a node changes the state and the frame of one cycle only.         *)
LEMMA LeaveEffect ==
  ASSUME TypeOK, NEW c \in Cycles, NEW st, Leave(c, st)
  PROVE  /\ state'[c] = st
         /\ frame'[c] = AtNode(NextNode(frame[c].node, st))
         /\ \A d \in Cycles \ {c} : state'[d] = state[d] /\ frame'[d] = frame[d]
BY DEF Leave, TypeOK

(* A failed run appends its report and keeps approvals, rows and next_node.  *)
LEMMA FailedFields ==
  ASSUME TypeOK, NEW c \in Cycles, NEW told \in BOOLEAN,
         NEW st, st = FailedState(c, told)
  PROVE  /\ st.reports = Reported(c, "failed", told) /\ st.approvals = state[c].approvals
         /\ st.rows = state[c].rows /\ st.next = state[c].next
BY StateType DEF FailedState, GraphState

(* A run that leaves its node appends one report, keeps or adds approvals, *)
(* and keeps or adds rows.                                                 *)
LEMMA LeavesEffect ==
  ASSUME TypeOK, TokensInFlight, NEW c \in Cycles, Leaves(c)
  PROVE  /\ UNCHANGED <<request, blackboard, approved>>
         /\ frame[c].node \in Nodes /\ frame[c].pc \in Running \ {"boundary"}
         /\ frame'[c] = AtNode(NextNode(frame[c].node, state'[c]))
         /\ \A d \in Cycles \ {c} : state'[d] = state[d] /\ frame'[d] = frame[d]
         /\ \/ \E told \in BOOLEAN : state'[c].reports = Reported(c, "failed", told)
            \/ /\ state'[c].reports = Reported(c, "completed", TRUE)
               /\ CompleteRun(c) \/ frame[c].node = "orchestrator"
         /\ \/ state'[c].approvals = state[c].approvals
            \/ /\ frame[c].pc = "approving"
               /\ state'[c].approvals = state[c].approvals \union frame[c].token
         /\ \/ state'[c].rows = state[c].rows
            \/ CompleteRun(c) /\ state'[c].rows = state[c].rows \union Emitted(c)
         /\ \/ state'[c].next \in {state[c].next, "__end__"}
            \/ /\ Route(c)
               /\ state'[c].next = Head(PendingAgents(c))
               /\ state'[c].approvals = state[c].approvals \union frame[c].token
<1>1. state[c] \in GraphState /\ frame[c] \in Frame
  BY StateType
<1>2. CASE RejectBlankObjective(c) \/ FailRun(c) \/ SandboxTimesOut(c)
  <2>1. PICK told \in BOOLEAN : Leave(c, FailedState(c, told))
    BY <1>2 DEF RejectBlankObjective, FailRun, SandboxTimesOut
  <2>2. /\ UNCHANGED <<request, blackboard, approved>>
        /\ frame[c].node \in Nodes /\ frame[c].pc \in Running \ {"boundary"}
    BY <1>2 DEF RejectBlankObjective, FailRun, SandboxTimesOut, InNode, Running
  <2> DEFINE st == FailedState(c, told)
  <2>3. /\ st.reports = Reported(c, "failed", told) /\ st.approvals = state[c].approvals
        /\ st.rows = state[c].rows /\ st.next = state[c].next
    BY FailedFields
  <2>4. Leave(c, st)
    BY <2>1
  <2> HIDE DEF st
  <2>5. /\ state'[c] = st /\ frame'[c] = AtNode(NextNode(frame[c].node, st))
        /\ \A d \in Cycles \ {c} : state'[d] = state[d] /\ frame'[d] = frame[d]
    BY <2>4, LeaveEffect
  <2> QED BY <2>2, <2>3, <2>5
<1>3. CASE Route(c)
  <2>1. Leave(c, RoutedState(c)) /\ UNCHANGED <<request, blackboard, approved>>
        /\ frame[c].node \in Nodes /\ frame[c].pc = "approving"
    BY <1>3 DEF Route, InNode
  <2>2. frame[c].node = "orchestrator"
    BY <2>1 DEF TokensInFlight
  <2>3. /\ RoutedState(c).reports = Reported(c, "completed", TRUE)
        /\ RoutedState(c).approvals = state[c].approvals \union frame[c].token
        /\ RoutedState(c).rows = state[c].rows
        /\ RoutedState(c).next = Head(PendingAgents(c))
    BY <1>1 DEF RoutedState, GraphState
  <2> QED BY <1>3, <2>1, <2>2, <2>3, LeaveEffect DEF Running
<1>4. CASE RejectUnlisted(c)
  <2> DEFINE st == [FailedState(c, TRUE) EXCEPT !.approvals = @ \union frame[c].token]
  <2>1. Leave(c, st) /\ UNCHANGED <<request, blackboard, approved>>
        /\ frame[c].node \in Nodes /\ frame[c].pc = "approving"
    BY <1>4 DEF RejectUnlisted, InNode
  <2>2. /\ st.reports = Reported(c, "failed", TRUE)
        /\ st.approvals = state[c].approvals \union frame[c].token
        /\ st.rows = state[c].rows /\ st.next = state[c].next
    BY <1>1 DEF FailedState, GraphState
  <2> HIDE DEF st
  <2> QED BY <2>1, <2>2, LeaveEffect DEF Running
<1>5. CASE Finalize(c)
  <2> DEFINE st == [state[c] EXCEPT
                      !.planned = TRUE, !.pending = <<>>, !.next = "__end__",
                      !.decisions = Append(@, "finalize"),
                      !.reports = Reported(c, "completed", TRUE), !.summary = state[c].reports]
  <2>1. Leave(c, st) /\ UNCHANGED <<request, blackboard, approved>>
        /\ frame[c].node = "orchestrator" /\ frame[c].pc = "work"
    BY <1>5 DEF Finalize, InNode
  <2>2. /\ st.reports = Reported(c, "completed", TRUE) /\ st.approvals = state[c].approvals
        /\ st.rows = state[c].rows /\ st.next = "__end__"
    BY <1>1 DEF GraphState
  <2> HIDE DEF st
  <2> QED BY <2>1, <2>2, LeaveEffect DEF Running, Nodes
<1>6. CASE CompleteRun(c)
  <2> DEFINE st == [state[c] EXCEPT !.reports = Reported(c, "completed", TRUE),
                                    !.rows = @ \union Emitted(c)]
  <2>1. Leave(c, st) /\ UNCHANGED <<request, blackboard, approved>>
        /\ frame[c].node \in Nodes /\ frame[c].pc = "persist"
    BY <1>6 DEF CompleteRun, InNode
  <2>2. /\ st.reports = Reported(c, "completed", TRUE) /\ st.approvals = state[c].approvals
        /\ st.rows = state[c].rows \union Emitted(c) /\ st.next = state[c].next
    BY <1>1 DEF GraphState
  <2> HIDE DEF st
  <2> QED BY <1>6, <2>1, <2>2, LeaveEffect DEF Running
<1> QED BY <1>2, <1>3, <1>4, <1>5, <1>6 DEF Leaves

(* The report a leaving run appends, and nothing before it changes.        *)
LEMMA ReportsGrow ==
  ASSUME TypeOK, TokensInFlight, NEW c \in Cycles, Leaves(c)
  PROVE  /\ Run(c)' = Run(c) + 1
         /\ Len(state'[c].reports) = Run(c)
         /\ \A i \in 1 .. Len(state[c].reports) : state'[c].reports[i] = state[c].reports[i]
         /\ state'[c].reports[Run(c)].agent = frame[c].node
         /\ \/ state'[c].reports[Run(c)].status = "failed"
            \/ CompleteRun(c) \/ frame[c].node = "orchestrator"
<1>1. state[c].reports \in Seq(Report)
  BY StateType DEF GraphState
<1>2. PICK status \in {"completed", "failed"}, told \in BOOLEAN :
        /\ state'[c].reports =
             Append(state[c].reports,
                    [agent |-> frame[c].node, status |-> status, told |-> told])
        /\ status = "completed" => (CompleteRun(c) \/ frame[c].node = "orchestrator")
  BY LeavesEffect DEF Reported
<1> QED BY <1>1, <1>2 DEF Run

(* A write adds one row of the superstep in progress: a sandbox execution,   *)
(* a relation, or the next artifact to commit.                               *)
LEMMA WritesEffect ==
  ASSUME TypeOK, NEW c \in Cycles, Writes(c)
  PROVE  /\ UNCHANGED <<request, state, approved>>
         /\ frame[c].node \in Nodes
         /\ \A d \in Cycles \ {c} : blackboard'[d] = blackboard[d] /\ frame'[d] = frame[d]
         /\ \/ /\ frame[c].pc = "work" /\ frame[c].node \in Specialists
               /\ \E pc \in {"sandbox", "effected"} : frame'[c] = [frame[c] EXCEPT !.pc = pc]
               /\ \E kind \in Effects :
                    blackboard'[c] = blackboard[c] \union {RowOf(c, kind, "none")}
            \/ /\ frame[c].pc = "persist"
               /\ frame[c].written < Len(frame[c].artifacts)
               /\ frame'[c] = [frame[c] EXCEPT !.written = @ + 1]
               /\ LET next == frame[c].artifacts[frame[c].written + 1]
                  IN  blackboard'[c] = blackboard[c] \union {RowOf(c, next.kind, next.target)}
<1>1. CASE StartSandbox(c) \/ LinkKnowledge(c)
  <2>1. PICK kind \in Effects : Write(c, RowOf(c, kind, "none"))
    BY <1>1 DEF StartSandbox, LinkKnowledge, Effects
  <2>2. PICK pc \in {"sandbox", "effected"} : Enter(c, pc)
    BY <1>1 DEF StartSandbox, LinkKnowledge
  <2>6. /\ frame[c].pc = "work" /\ frame[c].node \in Specialists
        /\ UNCHANGED <<request, state, approved>>
    BY <1>1 DEF StartSandbox, LinkKnowledge, InNode, Specialists
  <2>3. blackboard'[c] = blackboard[c] \union {RowOf(c, kind, "none")}
    BY <2>1 DEF Write, TypeOK
  <2>4. frame'[c] = [frame[c] EXCEPT !.pc = pc]
    BY <2>2 DEF Enter, TypeOK
  <2>5. \A d \in Cycles \ {c} : blackboard'[d] = blackboard[d] /\ frame'[d] = frame[d]
    BY <2>1, <2>2 DEF Write, Enter, TypeOK
  <2> QED BY <2>3, <2>4, <2>5, <2>6 DEF Nodes
<1>2. CASE PersistNext(c)
  <2> DEFINE next == frame[c].artifacts[frame[c].written + 1]
             row == RowOf(c, next.kind, next.target)
  <2>1. Write(c, row)
    BY <1>2 DEF PersistNext
  <2>2. blackboard'[c] = blackboard[c] \union {row}
    <3> HIDE DEF row
    <3> QED BY <2>1 DEF Write, TypeOK
  <2>3. frame'[c] = [frame[c] EXCEPT !.written = @ + 1]
    BY <1>2 DEF PersistNext, TypeOK
  <2>4. \A d \in Cycles \ {c} : blackboard'[d] = blackboard[d] /\ frame'[d] = frame[d]
    <3> HIDE DEF row
    <3> QED BY <1>2, <2>1 DEF PersistNext, Write, TypeOK
  <2>5. /\ frame[c].pc = "persist" /\ frame[c].node \in Nodes
        /\ frame[c].written < Len(frame[c].artifacts)
        /\ UNCHANGED <<request, state, approved>>
    BY <1>2 DEF PersistNext, InNode
  <2> QED BY <2>2, <2>3, <2>4, <2>5
<1> QED BY <1>1, <1>2 DEF Writes

(* Issuing an approval puts the new token into the bus and into the frame    *)
(* of the orchestrator's run.                                                *)
LEMMA IssueEffect ==
  ASSUME TypeOK, NEW c \in Cycles, IssueApproval(c)
  PROVE  /\ UNCHANGED <<request, state, blackboard>>
         /\ frame[c].pc = "work" /\ frame[c].node = "orchestrator" /\ PendingAgents(c) # <<>>
         /\ \A d \in Cycles \ {c} : frame'[d] = frame[d]
         /\ \E a : /\ a.run = Run(c) /\ a.target = Head(PendingAgents(c))
                  /\ approved' = approved \union {a}
                  /\ frame'[c] = [frame[c] EXCEPT !.pc = "approving", !.token = {a}]
<1> DEFINE a == [cycle |-> c, run |-> Run(c), target |-> Head(PendingAgents(c)),
                 expires |-> Expiry]
<1>1. a.run = Run(c) /\ a.target = Head(PendingAgents(c))
  OBVIOUS
<1>2. /\ approved' = approved \union {a}
      /\ frame' = [frame EXCEPT ![c].pc = "approving", ![c].token = {a}]
      /\ UNCHANGED <<request, state, blackboard>>
      /\ frame[c].pc = "work" /\ frame[c].node = "orchestrator" /\ PendingAgents(c) # <<>>
  BY DEF IssueApproval, InNode
<1> HIDE DEF a
<1>3. /\ frame'[c] = [frame[c] EXCEPT !.pc = "approving", !.token = {a}]
      /\ \A d \in Cycles \ {c} : frame'[d] = frame[d]
  BY <1>2 DEF TypeOK
<1> QED BY <1>1, <1>2, <1>3

(* Producing artifacts starts a persist_outputs that has written nothing.    *)
LEMMA ProduceEffect ==
  ASSUME TypeOK, RowsInFlight, NEW c \in Cycles, Produce(c)
  PROVE  /\ UNCHANGED <<request, state, blackboard, approved>>
         /\ frame[c].pc \in {"work", "effected"} /\ frame[c].node \in Specialists
         /\ \A d \in Cycles \ {c} : frame'[d] = frame[d]
         /\ \E artifacts :
              frame'[c] = [frame[c] EXCEPT !.pc = "persist", !.artifacts = artifacts]
<1>1. PICK artifacts : frame' = [frame EXCEPT ![c].pc = "persist", ![c].artifacts = artifacts]
  BY DEF Produce
<1>2. /\ UNCHANGED <<request, state, blackboard, approved>>
      /\ frame[c].pc \in {"work", "effected"} /\ frame[c].node \in Specialists
  BY DEF Produce, InNode, RowsInFlight
<1>3. /\ frame'[c] = [frame[c] EXCEPT !.pc = "persist", !.artifacts = artifacts]
      /\ \A d \in Cycles \ {c} : frame'[d] = frame[d]
  BY <1>1 DEF TypeOK
<1> QED BY <1>2, <1>3

-------------------------------------------------------------------------------
(* The inductive step, one conjunct at a time.                             *)

(* What only reads a cycle's request and state keeps its value when they   *)
(* do.                                                                     *)
LEMMA SameState ==
  ASSUME NEW c \in Cycles, request' = request, state'[c] = state[c]
  PROVE  Run(c)' = Run(c) /\ PendingAgents(c)' = PendingAgents(c)
BY DEF Run, PendingAgents

(* Every step keeps the token being registered in the bus and unique.        *)
LEMMA TokensStep ==
  ASSUME TypeOK, TokensInFlight, RowsInFlight, [Next]_vars
  PROVE  TokensInFlight'
<1> DEFINE Token(d) ==
      /\ frame[d].pc = "approving" =>
           /\ frame[d].node = "orchestrator"
           /\ PendingAgents(d) # <<>>
           /\ \E a \in approved : /\ frame[d].token = {a}
                                  /\ a.run = Run(d)
                                  /\ a.target = Head(PendingAgents(d))
      /\ frame[d].pc \in (Running \union {"idle"}) \ {"approving"} => frame[d].token = {}
<1>1. ASSUME NEW d \in Cycles, frame'[d] = frame[d], state'[d] = state[d],
             request' = request, approved \subseteq approved'
      PROVE  Token(d)'
  <2>1. Token(d)
    BY DEF TokensInFlight
  <2>2. Run(d)' = Run(d) /\ PendingAgents(d)' = PendingAgents(d)
    BY <1>1, SameState
  <2> QED BY <1>1, <2>1, <2>2
<1>2. CASE UNCHANGED <<request, state, frame, blackboard, approved>>
  BY <1>1, <1>2 DEF TokensInFlight
<1>3. CASE Crash
  <2> SUFFICES ASSUME NEW d \in Cycles PROVE Token(d)'
    BY DEF TokensInFlight
  <2>1. frame'[d].pc \notin Running /\ frame'[d].token = frame[d].token
        /\ (frame'[d].pc = "idle" => frame[d].pc = "idle")
    BY <1>3, StateType DEF Crash, Running, Frame
  <2> QED BY <2>1 DEF Running, TokensInFlight
<1>4. ASSUME NEW c \in Cycles, Moves(c)
      PROVE  TokensInFlight'
  <2> SUFFICES ASSUME NEW d \in Cycles PROVE Token(d)'
    BY DEF TokensInFlight
  <2>1. PICK pc \in {"boundary", "returned", "raised", "lost", "context", "work", "effected"} :
          /\ frame' = [frame EXCEPT ![c] = [frame[c] EXCEPT !.pc = pc]]
          /\ pc \in Running => frame[c].pc \in {"idle", "boundary", "context", "sandbox"}
    BY <1>4, MovesEffect
  <2>2. /\ frame'[c].token = frame[c].token /\ frame'[c].pc = pc
        /\ \A e \in Cycles \ {c} : frame'[e] = frame[e]
    BY <2>1, StateType DEF Frame, TypeOK
  <2>3. UNCHANGED <<request, state, approved>>
    BY <1>4, MovesEffect
  <2>4. CASE d # c
    BY <1>1, <2>2, <2>3, <2>4
  <2>5. CASE d = c
    <3>1. pc \in Running => frame[c].token = {}
      BY <2>1 DEF TokensInFlight, Running
    <3> QED BY <2>2, <2>5, <3>1 DEF Running
  <2> QED BY <2>4, <2>5
<1>5. ASSUME NEW c \in Cycles, Leaves(c)
      PROVE  TokensInFlight'
  <2> SUFFICES ASSUME NEW d \in Cycles PROVE Token(d)'
    BY DEF TokensInFlight
  <2>1. /\ UNCHANGED <<request, approved>>
        /\ frame'[c] = AtNode(NextNode(frame[c].node, state'[c]))
        /\ \A e \in Cycles \ {c} : state'[e] = state[e] /\ frame'[e] = frame[e]
    BY <1>5, LeavesEffect
  <2>2. CASE d # c
    BY <1>1, <2>1, <2>2
  <2>3. CASE d = c
    BY <2>1, <2>3 DEF AtNode
  <2> QED BY <2>2, <2>3
<1>6. ASSUME NEW c \in Cycles, Writes(c)
      PROVE  TokensInFlight'
  <2> SUFFICES ASSUME NEW d \in Cycles PROVE Token(d)'
    BY DEF TokensInFlight
  <2>1. /\ UNCHANGED <<request, state, approved>>
        /\ \A e \in Cycles \ {c} : frame'[e] = frame[e]
        /\ frame[c].pc \in {"work", "persist"}
        /\ frame'[c].pc \in {"sandbox", "effected", "persist"}
        /\ frame'[c].token = frame[c].token
    BY <1>6, WritesEffect, StateType DEF Frame
  <2>2. CASE d # c
    BY <1>1, <2>1, <2>2
  <2>3. CASE d = c
    BY <2>1, <2>3 DEF TokensInFlight, Running
  <2> QED BY <2>2, <2>3
<1>7. ASSUME NEW c \in Cycles, IssueApproval(c)
      PROVE  TokensInFlight'
  <2> SUFFICES ASSUME NEW d \in Cycles PROVE Token(d)'
    BY DEF TokensInFlight
  <2>1. PICK a : /\ a.run = Run(c) /\ a.target = Head(PendingAgents(c))
                 /\ approved' = approved \union {a}
                 /\ frame'[c] = [frame[c] EXCEPT !.pc = "approving", !.token = {a}]
    BY <1>7, IssueEffect
  <2>2. /\ UNCHANGED <<request, state>>
        /\ \A e \in Cycles \ {c} : frame'[e] = frame[e]
        /\ frame[c].node = "orchestrator" /\ PendingAgents(c) # <<>>
    BY <1>7, IssueEffect
  <2>3. CASE d # c
    BY <1>1, <2>1, <2>2, <2>3
  <2>4. CASE d = c
    <3>1. /\ frame'[c].pc = "approving" /\ frame'[c].node = "orchestrator"
          /\ frame'[c].token = {a}
      BY <2>1, <2>2, StateType DEF Frame
    <3>2. Run(c)' = Run(c) /\ PendingAgents(c)' = PendingAgents(c)
      BY <2>2, SameState
    <3> QED BY <2>1, <2>2, <2>4, <3>1, <3>2
  <2> QED BY <2>3, <2>4
<1>8. ASSUME NEW c \in Cycles, Produce(c)
      PROVE  TokensInFlight'
  <2> SUFFICES ASSUME NEW d \in Cycles PROVE Token(d)'
    BY DEF TokensInFlight
  <2>1. /\ UNCHANGED <<request, state, approved>>
        /\ \A e \in Cycles \ {c} : frame'[e] = frame[e]
        /\ frame[c].pc \in {"work", "effected"} /\ frame'[c].pc = "persist"
        /\ frame'[c].token = frame[c].token
    BY <1>8, ProduceEffect, StateType DEF Frame
  <2>2. CASE d # c
    BY <1>1, <2>1, <2>2
  <2>3. CASE d = c
    BY <2>1, <2>3 DEF TokensInFlight, Running
  <2> QED BY <2>2, <2>3
<1> QED BY <1>2, <1>3, <1>4, <1>5, <1>6, <1>7, <1>8, StepShapes

(* The rows of a run depend on its superstep and its artifacts only.         *)
LEMMA SameEmitted ==
  ASSUME NEW c \in Cycles, Run(c)' = Run(c), frame'[c].artifacts = frame[c].artifacts
  PROVE  Emitted(c)' = Emitted(c)
BY DEF Emitted, RowOf

(* Every step keeps the rows of the superstep in progress a prefix of what   *)
(* it emitted.                                                               *)
LEMMA RowsStep ==
  ASSUME TypeOK, TokensInFlight, RowsInFlight, [Next]_vars
  PROVE  RowsInFlight'
<1> DEFINE Rows(d) ==
      /\ frame[d].pc \in {"sandbox", "effected", "persist"} => frame[d].node \in Specialists
      /\ frame[d].written <= Len(frame[d].artifacts)
      /\ frame[d].pc \in (Running \union {"idle"}) \ {"persist"} => frame[d].written = 0
      /\ frame[d].pc = "persist" =>
           \A i \in 1 .. frame[d].written :
             RowOf(d, frame[d].artifacts[i].kind, frame[d].artifacts[i].target)
               \in blackboard[d]
      /\ \A row \in blackboard[d] :
           /\ row.run <= Run(d)
           /\ ( /\ frame[d].pc \in Running \union {"idle"}
                /\ row.run = Run(d)
                /\ row.kind \notin Effects )
                => (frame[d].pc = "persist" /\ row \in Emitted(d))
<1>a. \A d \in Cycles : Rows(d)
  BY DEF RowsInFlight
<1>b. SUFFICES ASSUME NEW d \in Cycles PROVE Rows(d)'
  BY DEF RowsInFlight
<1>1. ASSUME frame'[d] = frame[d], state'[d] = state[d], blackboard'[d] = blackboard[d]
      PROVE  Rows(d)'
  <2>1. Run(d)' = Run(d) /\ Emitted(d)' = Emitted(d)
    BY <1>1 DEF Run, Emitted, RowOf
  <2> QED BY <1>1, <1>a, <2>1 DEF RowOf
<1>2. CASE UNCHANGED <<request, state, frame, blackboard, approved>>
  BY <1>1, <1>2
<1>3. CASE Crash
  <2>1. frame'[d] = IF frame[d].pc \in Running
                    THEN [frame[d] EXCEPT !.pc = "lost"] ELSE frame[d]
    BY <1>3 DEF Crash
  <2>2. state' = state /\ blackboard' = blackboard
    BY <1>3 DEF Crash
  <2>3. CASE frame[d].pc \in Running
    <3>1. /\ frame'[d].pc = "lost" /\ frame'[d].written = frame[d].written
          /\ frame'[d].artifacts = frame[d].artifacts
      BY <2>1, <2>3, StateType DEF Frame
    <3>2. Run(d)' = Run(d)
      BY <2>2 DEF Run
    <3> QED BY <1>a, <2>2, <3>1, <3>2 DEF Running
  <2>4. CASE frame[d].pc \notin Running
    BY <1>1, <2>1, <2>2, <2>4
  <2> QED BY <2>3, <2>4
<1>4. ASSUME NEW c \in Cycles, Moves(c)
      PROVE  Rows(d)'
  <2>1. PICK pc \in {"boundary", "returned", "raised", "lost", "context", "work", "effected"} :
          /\ frame' = [frame EXCEPT ![c] = [frame[c] EXCEPT !.pc = pc]]
          /\ pc \in Running => frame[c].pc \in {"idle", "boundary", "context", "sandbox"}
          /\ pc = "effected" => frame[c].pc = "sandbox"
    BY <1>4, MovesEffect
  <2>2. UNCHANGED <<state, blackboard>>
    BY <1>4, MovesEffect
  <2>3. CASE d # c
    BY <1>1, <2>1, <2>2, <2>3 DEF TypeOK
  <2>4. CASE d = c
    <3>1. /\ frame'[d].pc = pc /\ frame'[d].written = frame[d].written
          /\ frame'[d].artifacts = frame[d].artifacts /\ frame'[d].node = frame[d].node
      BY <2>1, <2>4, StateType DEF Frame, TypeOK
    <3>2. Run(d)' = Run(d)
      BY <2>2 DEF Run
    <3>3. pc \in Running => frame[d].pc \in (Running \union {"idle"}) \ {"persist"}
      BY <2>1, <2>4 DEF Running
    <3>4. /\ pc # "idle" /\ pc \notin {"sandbox", "persist"}
          /\ pc = "effected" => frame[d].node \in Specialists
      BY <1>a, <2>1, <2>4
    <3> QED BY <1>a, <2>2, <3>1, <3>2, <3>3, <3>4
  <2> QED BY <2>3, <2>4
<1>5. ASSUME NEW c \in Cycles, Leaves(c)
      PROVE  Rows(d)'
  <2>1. /\ blackboard' = blackboard
        /\ frame'[c] = AtNode(NextNode(frame[c].node, state'[c]))
        /\ \A e \in Cycles \ {c} : state'[e] = state[e] /\ frame'[e] = frame[e]
    BY <1>5, LeavesEffect
  <2>2. CASE d # c
    BY <1>1, <2>1, <2>2
  <2>3. CASE d = c
    <3>1. Run(d)' = Run(d) + 1
      BY <1>5, <2>3, ReportsGrow
    <3>2. \A row \in blackboard[d] : row.run <= Run(d) /\ row.run \in Nat
      BY <1>a, StateType DEF Row
    <3>3. Run(d) \in Nat
      BY StateType
    <3>4. \A row \in blackboard'[d] : row.run <= Run(d)' /\ row.run # Run(d)'
      BY <2>1, <3>1, <3>2, <3>3
    <3>5. frame'[d].pc = "boundary" /\ frame'[d].written = 0 /\ frame'[d].artifacts = <<>>
      BY <2>1, <2>3 DEF AtNode
    <3> QED BY <3>4, <3>5
  <2> QED BY <2>2, <2>3
<1>6. ASSUME NEW c \in Cycles, Writes(c)
      PROVE  Rows(d)'
  <2>1. /\ state' = state
        /\ \A e \in Cycles \ {c} : blackboard'[e] = blackboard[e] /\ frame'[e] = frame[e]
    BY <1>6, WritesEffect
  <2>2. CASE d # c
    BY <1>1, <2>1, <2>2
  <2>3. Run(d)' = Run(d) /\ Run(d) \in Nat
    BY <2>1, StateType DEF Run
  <2>4. CASE /\ d = c /\ frame[d].pc = "work" /\ frame[d].node \in Specialists
             /\ \E pc \in {"sandbox", "effected"} : frame'[d] = [frame[d] EXCEPT !.pc = pc]
             /\ \E kind \in Effects :
                  blackboard'[d] = blackboard[d] \union {RowOf(d, kind, "none")}
    <3>1. /\ frame'[d].pc \in {"sandbox", "effected"} /\ frame'[d].written = frame[d].written
          /\ frame'[d].node = frame[d].node /\ frame'[d].artifacts = frame[d].artifacts
      BY <2>4, StateType DEF Frame
    <3>2. \A row \in blackboard'[d] \ blackboard[d] : row.run = Run(d) /\ row.kind \in Effects
      BY <2>4 DEF RowOf
    <3>3. frame[d].pc \in Running /\ frame[d].written = 0
      BY <1>a, <2>4 DEF Running
    <3>4. \A row \in blackboard[d] :
            row.run <= Run(d) /\ (row.run = Run(d) => row.kind \in Effects)
      BY <1>a, <2>4, <3>3
    <3>5. \A row \in blackboard'[d] :
            row.run <= Run(d)' /\ (row.run = Run(d)' => row.kind \in Effects)
      BY <2>3, <3>2, <3>4
    <3> QED BY <1>a, <2>4, <3>1, <3>3, <3>5
  <2>5. CASE /\ d = c /\ frame[d].pc = "persist"
             /\ frame[d].written < Len(frame[d].artifacts)
             /\ frame'[d] = [frame[d] EXCEPT !.written = @ + 1]
             /\ LET next == frame[d].artifacts[frame[d].written + 1]
                IN  blackboard'[d] = blackboard[d] \union {RowOf(d, next.kind, next.target)}
    <3> DEFINE next == frame[d].artifacts[frame[d].written + 1]
               row == RowOf(d, next.kind, next.target)
    <3>1. /\ frame'[d].pc = "persist" /\ frame'[d].written = frame[d].written + 1
          /\ frame'[d].node = frame[d].node /\ frame'[d].artifacts = frame[d].artifacts
          /\ frame[d].written \in Nat /\ Len(frame[d].artifacts) \in Nat
      BY <2>5, StateType DEF Frame
    <3>2. Emitted(d)' = Emitted(d)
      BY <2>3, <3>1, SameEmitted
    <3>3. row \in Emitted(d)
      <4>1. frame[d].written + 1 \in 1 .. Len(frame[d].artifacts)
        BY <2>5, <3>1
      <4> QED BY <4>1 DEF Emitted
    <3>4. row.run = Run(d)
      BY DEF RowOf
    <3>5. \A i \in 1 .. frame'[d].written :
            RowOf(d, frame[d].artifacts[i].kind, frame[d].artifacts[i].target)
              \in blackboard'[d]
      <4>1. SUFFICES ASSUME NEW i \in 1 .. frame[d].written + 1
                     PROVE  RowOf(d, frame[d].artifacts[i].kind, frame[d].artifacts[i].target)
                              \in blackboard'[d]
        BY <3>1
      <4>2. CASE i = frame[d].written + 1
        BY <2>5, <4>2
      <4>3. CASE i \in 1 .. frame[d].written
        BY <1>a, <2>5, <4>3
      <4> QED BY <3>1, <4>2, <4>3
    <3>6. blackboard'[d] = blackboard[d] \union {row}
      BY <2>5
    <3> HIDE DEF row
    <3>7. \A r \in blackboard'[d] :
            /\ r.run <= Run(d)'
            /\ (r.run = Run(d)' /\ r.kind \notin Effects) => r \in Emitted(d)'
      BY <1>a, <2>3, <2>5, <3>2, <3>3, <3>4, <3>6 DEF Running
    <3>8. \A i \in 1 .. frame'[d].written :
            RowOf(d, frame[d].artifacts[i].kind, frame[d].artifacts[i].target)'
              \in blackboard'[d]
      BY <2>3, <3>1, <3>5 DEF RowOf
    <3>9. frame[d].written + 1 <= Len(frame[d].artifacts) /\ frame[d].node \in Specialists
      BY <1>a, <2>5, <3>1
    <3> HIDE <2>5
    <3> QED BY <3>1, <3>7, <3>8, <3>9
  <2>6. CASE d = c
    <3>1. Writes(d)
      BY <1>6, <2>6
    <3>2. CASE frame[d].pc = "work"
      <4>1. \E kind \in Effects :
              blackboard'[d] = blackboard[d] \union {RowOf(d, kind, "none")}
        BY <3>1, <3>2, WritesEffect
      <4>2. /\ frame[d].node \in Specialists
            /\ \E pc \in {"sandbox", "effected"} : frame'[d] = [frame[d] EXCEPT !.pc = pc]
        BY <3>1, <3>2, WritesEffect
      <4> QED BY <2>4, <2>6, <3>2, <4>1, <4>2
    <3>3. CASE frame[d].pc # "work"
      <4>1. LET next == frame[d].artifacts[frame[d].written + 1]
            IN  blackboard'[d] = blackboard[d] \union {RowOf(d, next.kind, next.target)}
        BY <3>1, <3>3, WritesEffect
      <4>2. /\ frame[d].pc = "persist" /\ frame[d].written < Len(frame[d].artifacts)
            /\ frame'[d] = [frame[d] EXCEPT !.written = @ + 1]
        BY <3>1, <3>3, WritesEffect
      <4> QED BY <2>5, <2>6, <4>1, <4>2
    <3> QED BY <3>2, <3>3
  <2> QED BY <2>2, <2>6
<1>7. ASSUME NEW c \in Cycles, IssueApproval(c)
      PROVE  Rows(d)'
  <2>1. PICK a : frame'[c] = [frame[c] EXCEPT !.pc = "approving", !.token = {a}]
    BY <1>7, IssueEffect
  <2>2. /\ UNCHANGED <<state, blackboard>> /\ frame[c].pc = "work"
        /\ \A e \in Cycles \ {c} : frame'[e] = frame[e]
    BY <1>7, IssueEffect
  <2>3. CASE d # c
    BY <1>1, <2>2, <2>3
  <2>4. CASE d = c
    <3>1. /\ frame'[d].pc = "approving" /\ frame'[d].written = frame[d].written
          /\ frame'[d].artifacts = frame[d].artifacts
      BY <2>1, <2>4, StateType DEF Frame
    <3>2. Run(d)' = Run(d)
      BY <2>2 DEF Run
    <3> QED BY <1>a, <2>2, <2>4, <3>1, <3>2 DEF Running
  <2> QED BY <2>3, <2>4
<1>8. ASSUME NEW c \in Cycles, Produce(c)
      PROVE  Rows(d)'
  <2>1. PICK artifacts :
          frame'[c] = [frame[c] EXCEPT !.pc = "persist", !.artifacts = artifacts]
    BY <1>8, ProduceEffect
  <2>2. /\ UNCHANGED <<state, blackboard>>
        /\ frame[c].pc \in {"work", "effected"} /\ frame[c].node \in Specialists
        /\ \A e \in Cycles \ {c} : frame'[e] = frame[e]
    BY <1>8, ProduceEffect
  <2>3. CASE d # c
    BY <1>1, <2>2, <2>3
  <2>4. CASE d = c
    <3>1. /\ frame'[d].pc = "persist" /\ frame'[d].written = frame[d].written
          /\ frame'[d].artifacts = artifacts /\ frame'[d].node = frame[d].node
      BY <2>1, <2>4, StateType DEF Frame
    <3>2. frame[d].written = 0 /\ frame[d].pc \in Running
      BY <1>a, <2>2, <2>4 DEF Running
    <3>3. artifacts \in Seq(Artifact)
      BY <3>1, TypeStep, StateType DEF TypeOK, Frame
    <3>4. Run(d)' = Run(d)
      BY <2>2 DEF Run
    <3>5. \A row \in blackboard[d] :
            row.run <= Run(d) /\ (row.run = Run(d) => row.kind \in Effects)
      BY <1>a, <2>2, <2>4, <3>2
    <3> QED BY <2>2, <2>4, <3>1, <3>2, <3>3, <3>4, <3>5
  <2> QED BY <2>3, <2>4
<1> QED BY <1>2, <1>3, <1>4, <1>5, <1>6, <1>7, <1>8, StepShapes

(* A step either takes cycle d out of its node, or leaves its state and    *)
(* its node alone, keeps its rows and adds rows of the run it is in.       *)
LEMMA StepCases ==
  ASSUME TypeOK, TokensInFlight, RowsInFlight, [Next]_vars, NEW d \in Cycles
  PROVE  \/ Leaves(d)
         \/ /\ state'[d] = state[d] /\ Run(d)' = Run(d)
            /\ frame'[d].node = frame[d].node
            /\ frame'[d].pc = "idle" => frame[d].pc = "idle"
            /\ frame'[d].pc \in Running =>
                 frame[d].pc \in Running \union {"idle"} /\ approved \subseteq approved'
            /\ blackboard[d] \subseteq blackboard'[d]
            /\ \A row \in blackboard'[d] \ blackboard[d] : row.run = Run(d)
<1> SUFFICES ASSUME ~Leaves(d)
    PROVE  /\ state'[d] = state[d]
           /\ frame'[d].node = frame[d].node
           /\ frame'[d].pc = "idle" => frame[d].pc = "idle"
           /\ frame'[d].pc \in Running =>
                frame[d].pc \in Running \union {"idle"} /\ approved \subseteq approved'
           /\ blackboard[d] \subseteq blackboard'[d]
           /\ \A row \in blackboard'[d] \ blackboard[d] : row.run = Run(d)
  BY DEF Run
<1>1. CASE UNCHANGED <<request, state, frame, blackboard, approved>>
  BY <1>1
<1>2. CASE Crash
  <2>1. frame'[d] = IF frame[d].pc \in Running
                    THEN [frame[d] EXCEPT !.pc = "lost"] ELSE frame[d]
    BY <1>2 DEF Crash
  <2>2. state' = state /\ blackboard' = blackboard
    BY <1>2 DEF Crash
  <2>3. frame'[d].node = frame[d].node /\ (frame'[d].pc = "lost" \/ frame'[d] = frame[d])
        /\ frame'[d].pc \notin Running
    BY <2>1, StateType DEF Frame, Running
  <2> QED BY <2>2, <2>3
<1>3. ASSUME NEW c \in Cycles, Moves(c)
      PROVE  /\ UNCHANGED <<state, blackboard, approved>>
             /\ frame'[d].node = frame[d].node
             /\ frame'[d].pc = "idle" => frame[d].pc = "idle"
             /\ frame'[d].pc \in Running => frame[d].pc \in Running \union {"idle"}
  <2>1. PICK pc \in {"boundary", "returned", "raised", "lost", "context", "work", "effected"} :
          /\ frame' = [frame EXCEPT ![c] = [frame[c] EXCEPT !.pc = pc]]
          /\ pc \in Running => frame[c].pc \in {"idle", "boundary", "context", "sandbox"}
    BY <1>3, MovesEffect
  <2>2. UNCHANGED <<state, blackboard, approved>>
    BY <1>3, MovesEffect
  <2>3. CASE d # c
    BY <2>1, <2>2, <2>3 DEF TypeOK
  <2>4. CASE d = c
    <3>1. frame'[d].pc = pc /\ frame'[d].node = frame[d].node
      BY <2>1, <2>4, StateType DEF Frame, TypeOK
    <3> QED BY <2>1, <2>2, <2>4, <3>1 DEF Running
  <2> QED BY <2>3, <2>4
<1>4. ASSUME NEW c \in Cycles, Leaves(c)
      PROVE  /\ UNCHANGED <<blackboard, approved>>
             /\ state'[d] = state[d] /\ frame'[d] = frame[d]
  BY <1>4, LeavesEffect
<1>5. ASSUME NEW c \in Cycles, Writes(c)
      PROVE  /\ UNCHANGED <<state, approved>>
             /\ frame'[d].node = frame[d].node
             /\ frame'[d].pc = "idle" => frame[d].pc = "idle"
             /\ frame'[d].pc \in Running => frame[d].pc \in Running
             /\ blackboard[d] \subseteq blackboard'[d]
             /\ \A row \in blackboard'[d] \ blackboard[d] : row.run = Run(d)
  <2>1. CASE d # c
    BY <1>5, <2>1, WritesEffect
  <2>2. CASE d = c
    <3>1. UNCHANGED <<state, approved>> /\ frame[d].pc \in {"work", "persist"}
      BY <1>5, <2>2, WritesEffect
    <3>2. /\ frame'[d].node = frame[d].node
          /\ frame'[d].pc \in {"sandbox", "effected", "persist"}
      BY <1>5, <2>2, WritesEffect, StateType DEF Frame
    <3>3. \E kind, target : blackboard'[d] = blackboard[d] \union {RowOf(d, kind, target)}
      <4>1. CASE frame[d].pc = "work"
        <5>1. \E kind \in Effects :
                blackboard'[d] = blackboard[d] \union {RowOf(d, kind, "none")}
          BY <1>5, <2>2, <4>1, WritesEffect
        <5> QED BY <5>1
      <4>2. CASE frame[d].pc = "persist"
        <5> DEFINE next == frame[d].artifacts[frame[d].written + 1]
        <5>1. blackboard'[d] = blackboard[d] \union {RowOf(d, next.kind, next.target)}
          BY <1>5, <2>2, <4>2, WritesEffect
        <5> QED BY <5>1
      <4> QED BY <3>1, <4>1, <4>2
    <3> QED BY <3>1, <3>2, <3>3 DEF Running, RowOf
  <2> QED BY <2>1, <2>2
<1>6. ASSUME NEW c \in Cycles, IssueApproval(c)
      PROVE  /\ UNCHANGED <<state, blackboard>> /\ approved \subseteq approved'
             /\ frame'[d].node = frame[d].node
             /\ frame'[d].pc = "idle" => frame[d].pc = "idle"
             /\ frame'[d].pc \in Running => frame[d].pc \in Running
  <2>1. PICK a : /\ approved' = approved \union {a}
                 /\ frame'[c] = [frame[c] EXCEPT !.pc = "approving", !.token = {a}]
    BY <1>6, IssueEffect
  <2>2. /\ UNCHANGED <<state, blackboard>> /\ frame[c].pc = "work"
        /\ \A e \in Cycles \ {c} : frame'[e] = frame[e]
    BY <1>6, IssueEffect
  <2>3. frame'[c].pc = "approving" /\ frame'[c].node = frame[c].node
    BY <2>1, StateType DEF Frame
  <2> QED BY <2>1, <2>2, <2>3 DEF Running
<1>7. ASSUME NEW c \in Cycles, Produce(c)
      PROVE  /\ UNCHANGED <<state, blackboard, approved>>
             /\ frame'[d].node = frame[d].node
             /\ frame'[d].pc = "idle" => frame[d].pc = "idle"
             /\ frame'[d].pc \in Running => frame[d].pc \in Running
  <2>1. PICK artifacts :
          frame'[c] = [frame[c] EXCEPT !.pc = "persist", !.artifacts = artifacts]
    BY <1>7, ProduceEffect
  <2>2. /\ UNCHANGED <<state, blackboard, approved>> /\ frame[c].pc \in {"work", "effected"}
        /\ \A e \in Cycles \ {c} : frame'[e] = frame[e]
    BY <1>7, ProduceEffect
  <2>3. frame'[c].pc = "persist" /\ frame'[c].node = frame[c].node
    BY <2>1, StateType DEF Frame
  <2> QED BY <2>2, <2>3 DEF Running
<1> QED BY <1>1, <1>2, <1>3, <1>4, <1>5, <1>6, <1>7, StepShapes

(* Every step keeps an approval for the routed agent and for the active      *)
(* one.                                                                      *)
LEMMA ApprovalsStep ==
  ASSUME TypeOK, TokensInFlight, RowsInFlight, ApprovalsCoverRoutes, [Next]_vars
  PROVE  ApprovalsCoverRoutes'
<1> DEFINE Covered(d) ==
      /\ frame[d].pc = "idle" => state[d].approvals = {}
      /\ \A agent \in {state[d].next, frame[d].node} \intersect Specialists :
           \E a \in state[d].approvals : a.target = agent /\ a.run < Run(d)
<1>a. SUFFICES ASSUME NEW d \in Cycles PROVE Covered(d)'
  BY DEF ApprovalsCoverRoutes
<1>1. Covered(d)
  BY DEF ApprovalsCoverRoutes
<1>2. CASE ~Leaves(d)
  <2>1. /\ state'[d] = state[d] /\ Run(d)' = Run(d)
        /\ frame'[d].node = frame[d].node
        /\ frame'[d].pc = "idle" => frame[d].pc = "idle"
    BY <1>2, StepCases
  <2> QED BY <1>1, <2>1
<1>3. CASE Leaves(d)
  <2>1. Run(d)' = Run(d) + 1 /\ Run(d) \in Nat
    BY <1>3, ReportsGrow, StateType
  <2>2. /\ frame'[d].pc = "boundary"
        /\ frame'[d].node \in {state'[d].next, "orchestrator"}
    <3>1. frame'[d] = AtNode(NextNode(frame[d].node, state'[d]))
      BY <1>3, LeavesEffect
    <3>2. NextNode(frame[d].node, state'[d]) \in {state'[d].next, "orchestrator"}
      BY DEF NextNode
    <3> QED BY <3>1, <3>2 DEF AtNode
  <2>3. "orchestrator" \notin Specialists /\ "__end__" \notin Specialists
    BY DEF Specialists
  <2>4. \A a \in state[d].approvals : a.run \in Nat
    BY StateType DEF GraphState, Approval
  <2>5. state[d].approvals \subseteq state'[d].approvals
    BY <1>3, LeavesEffect
  <2>6. CASE state'[d].next \in {state[d].next, "__end__"}
    BY <1>1, <2>1, <2>2, <2>3, <2>4, <2>5, <2>6
  <2>7. CASE Route(d)
    <3>1. frame[d].pc = "approving"
      BY <2>7 DEF Route, InNode
    <3>2. PICK a : frame[d].token = {a} /\ a.run = Run(d) /\ a.target = Head(PendingAgents(d))
      BY <3>1 DEF TokensInFlight
    <3>3. state'[d].next \in {state[d].next, "__end__"} \/
          (state'[d].next = a.target /\ a \in state'[d].approvals)
      BY <1>3, <3>2, LeavesEffect
    <3>4. CASE state'[d].next = a.target /\ a \in state'[d].approvals
      BY <2>1, <2>2, <2>3, <3>2, <3>4
    <3> QED BY <2>6, <3>3, <3>4
  <2> QED BY <1>3, <2>6, <2>7, LeavesEffect
<1> QED BY <1>2, <1>3

(* Every step keeps the rows of the state on the blackboard.                 *)
LEMMA DurableStep ==
  ASSUME TypeOK, TokensInFlight, RowsInFlight, StateRowsAreDurable, [Next]_vars
  PROVE  StateRowsAreDurable'
<1> SUFFICES ASSUME NEW d \in Cycles PROVE state'[d].rows \subseteq blackboard'[d]
  BY DEF StateRowsAreDurable
<1>1. state[d].rows \subseteq blackboard[d]
  BY DEF StateRowsAreDurable
<1>2. CASE ~Leaves(d)
  BY <1>1, <1>2, StepCases
<1>3. CASE Leaves(d)
  <2>1. blackboard' = blackboard
    BY <1>3, LeavesEffect
  <2>2. CASE CompleteRun(d)
    <3>1. frame[d].pc = "persist" /\ frame[d].written = Len(frame[d].artifacts)
      BY <2>2 DEF CompleteRun, InNode, AllWritten
    <3>2. Emitted(d) \subseteq blackboard[d]
      BY <3>1 DEF RowsInFlight, Emitted
    <3> QED BY <1>1, <1>3, <2>1, <3>2, LeavesEffect
  <2> QED BY <1>1, <1>3, <2>1, <2>2, LeavesEffect
<1> QED BY <1>2, <1>3

(* Every step keeps unclaimed rows with failed runs or the run in progress.  *)
LEMMA OrphansStep ==
  ASSUME TypeOK, TokensInFlight, RowsInFlight, OrphansComeFromBrokenRuns, [Next]_vars
  PROVE  OrphansComeFromBrokenRuns'
<1> DEFINE Explained(d, row) ==
      \/ row.kind \in Effects
      \/ row \in state[d].rows
      \/ row.run = Run(d)
      \/ row.run < Run(d) /\ state[d].reports[row.run].status = "failed"
<1> SUFFICES ASSUME NEW d \in Cycles, NEW row \in blackboard'[d]
             PROVE  Explained(d, row)'
  BY DEF OrphansComeFromBrokenRuns
<1>1. CASE ~Leaves(d)
  <2>1. state'[d] = state[d] /\ Run(d)' = Run(d)
        /\ (row \in blackboard[d] \/ row.run = Run(d))
    BY <1>1, StepCases
  <2> QED BY <2>1 DEF OrphansComeFromBrokenRuns
<1>2. CASE Leaves(d)
  <2>1. row \in blackboard[d]
    BY <1>2, LeavesEffect
  <2>2. Explained(d, row) /\ row.run \in Nat \ {0} /\ row.run <= Run(d)
    BY <2>1, StateType DEF OrphansComeFromBrokenRuns, Row, RowsInFlight
  <2>3. /\ Run(d)' = Run(d) + 1 /\ Run(d) \in Nat
        /\ \A i \in 1 .. Len(state[d].reports) : state'[d].reports[i] = state[d].reports[i]
        /\ \/ state'[d].reports[Run(d)].status = "failed"
           \/ CompleteRun(d) \/ frame[d].node = "orchestrator"
    BY <1>2, ReportsGrow, StateType
  <2>4. state[d].rows \subseteq state'[d].rows
    BY <1>2, LeavesEffect
  <2>5. CASE row.kind \in Effects \/ row \in state[d].rows
    BY <2>4, <2>5
  <2>6. CASE row.run < Run(d) /\ state[d].reports[row.run].status = "failed"
    <3>1. row.run \in 1 .. Len(state[d].reports)
      BY <2>2, <2>6, StateType DEF Row, Run, GraphState
    <3> QED BY <2>3, <2>6, <3>1
  <2>7. CASE row.run = Run(d) /\ row.kind \notin Effects
    <3>1. frame[d].pc \in Running /\ frame[d].node \in Nodes
      BY <1>2, LeavesEffect
    <3>2. frame[d].pc = "persist" /\ row \in Emitted(d)
      BY <2>1, <2>7, <3>1 DEF RowsInFlight
    <3>3. frame[d].node # "orchestrator"
      BY <3>2 DEF RowsInFlight, Specialists
    <3>4. CASE CompleteRun(d)
      <4> DEFINE st == [state[d] EXCEPT !.reports = Reported(d, "completed", TRUE),
                                        !.rows = @ \union Emitted(d)]
      <4>1. Leave(d, st)
        BY <3>4 DEF CompleteRun
      <4>2. st.rows = state[d].rows \union Emitted(d)
        BY StateType DEF GraphState
      <4> HIDE DEF st
      <4>3. state'[d].rows = state[d].rows \union Emitted(d)
        BY <4>1, <4>2, LeaveEffect
      <4> QED BY <3>2, <4>3
    <3>5. CASE state'[d].reports[Run(d)].status = "failed"
      BY <2>3, <2>7, <3>5
    <3> QED BY <2>3, <3>3, <3>4, <3>5
  <2> QED BY <2>2, <2>5, <2>6, <2>7
<1> QED BY <1>1, <1>2

(* Every step keeps every specialist's report behind an earlier approval.    *)
LEMMA ApprovedStep ==
  ASSUME TypeOK, TokensInFlight, RowsInFlight, ApprovalsCoverRoutes,
         SpecialistsAreApproved, [Next]_vars
  PROVE  SpecialistsAreApproved'
<1> DEFINE Approved(d) ==
      /\ \A j \in 1 .. Len(state[d].reports) : state[d].reports[j].agent \in Specialists =>
           \E a \in state[d].approvals : a.target = state[d].reports[j].agent /\ a.run < j
      /\ frame[d].node \in Specialists =>
           \E a \in state[d].approvals : a.target = frame[d].node
      /\ frame[d].pc \in Running => state[d].approvals \subseteq approved
<1> SUFFICES ASSUME NEW d \in Cycles PROVE Approved(d)'
  BY DEF SpecialistsAreApproved
<1>1. Approved(d)
  BY DEF SpecialistsAreApproved
<1>2. CASE ~Leaves(d)
  <2>1. /\ state'[d] = state[d] /\ frame'[d].node = frame[d].node
        /\ frame'[d].pc \in Running =>
             frame[d].pc \in Running \union {"idle"} /\ approved \subseteq approved'
    BY <1>2, StepCases
  <2>2. frame[d].pc = "idle" => state[d].approvals = {}
    BY DEF ApprovalsCoverRoutes
  <2> QED BY <1>1, <2>1, <2>2
<1>3. CASE Leaves(d)
  <2>1. /\ Run(d)' = Run(d) + 1 /\ Len(state'[d].reports) = Run(d)
        /\ \A i \in 1 .. Len(state[d].reports) : state'[d].reports[i] = state[d].reports[i]
        /\ state'[d].reports[Run(d)].agent = frame[d].node
    BY <1>3, ReportsGrow
  <2>2. state[d].approvals \subseteq state'[d].approvals
    BY <1>3, LeavesEffect
  <2>3. \A j \in 1 .. Run(d) : j = Run(d) \/ j \in 1 .. Len(state[d].reports)
    BY StateType DEF Run, GraphState
  <2>4. ASSUME NEW j \in 1 .. Run(d), state'[d].reports[j].agent \in Specialists
        PROVE  \E a \in state'[d].approvals :
                 a.target = state'[d].reports[j].agent /\ a.run < j
    <3>1. CASE j = Run(d)
      BY <2>1, <2>2, <2>4, <3>1 DEF ApprovalsCoverRoutes
    <3>2. CASE j \in 1 .. Len(state[d].reports)
      BY <1>1, <2>1, <2>2, <2>4, <3>2
    <3> QED BY <2>3, <3>1, <3>2
  <2>5. frame'[d].node \in Specialists =>
          \E a \in state'[d].approvals : a.target = frame'[d].node
    BY ApprovalsStep DEF ApprovalsCoverRoutes
  <2>6. state'[d].approvals \subseteq approved'
    <3>1. /\ approved' = approved /\ frame[d].pc \in Running
          /\ \/ state'[d].approvals = state[d].approvals
             \/ /\ frame[d].pc = "approving"
                /\ state'[d].approvals = state[d].approvals \union frame[d].token
      BY <1>3, LeavesEffect
    <3>2. frame[d].pc = "approving" => frame[d].token \subseteq approved
      BY DEF TokensInFlight
    <3> QED BY <1>1, <3>1, <3>2
  <2> QED BY <2>1, <2>4, <2>5, <2>6
<1> QED BY <1>2, <1>3

(* The steps after which a command is not there any more, or was not       *)
(* before.                                                                 *)
LEMMA SandboxesEffect ==
  ASSUME TypeOK, [Next]_vars
  PROVE  \/ sandboxes' \subseteq sandboxes
         \/ \E c \in Cycles : /\ StartSandbox(c)
                             /\ sandboxes' = sandboxes \union {CommandOf(c)}
<1>1. CASE \E c \in Cycles : StartSandbox(c)
  BY <1>1 DEF StartSandbox
<1>2. CASE \E c \in Cycles : SandboxAnswers(c)
  BY <1>2 DEF SandboxAnswers, SandboxesAfter
<1>3. CASE Crash \/ \E command \in sandboxes : CommandEnds(command)
  BY <1>3 DEF Crash, CommandEnds
<1>4. CASE UNCHANGED sandboxes
  BY <1>4
<1> QED
  BY <1>1, <1>2, <1>3, <1>4
  DEF Next, Progress, Submit, Dispatch, Return, Raise, PrepareContext, RejectBlankObjective,
      FailRun, IssueApproval, Route, RejectUnlisted, Finalize, SandboxTimesOut, LinkKnowledge,
      Produce, PersistNext, CompleteRun, Cancel, RejectReport, Tick, Quiet, vars

(* A task that awaits its command, or is over, keeps to that unless it     *)
(* leaves its node or the command answers.                                 *)
LEMMA AwaitingStep ==
  ASSUME TypeOK, TokensInFlight, RowsInFlight, [Next]_vars, NEW d \in Cycles,
         frame[d].pc \in {"sandbox", "lost", "raised"}, ~Leaves(d), ~SandboxAnswers(d)
  PROVE  frame'[d].pc \in {"sandbox", "lost", "raised"}
<1>1. CASE UNCHANGED <<request, state, frame, blackboard, approved>>
  BY <1>1
<1>2. CASE Crash
  <2>1. frame'[d] = IF frame[d].pc \in Running
                    THEN [frame[d] EXCEPT !.pc = "lost"] ELSE frame[d]
    BY <1>2 DEF Crash
  <2> QED BY <2>1, StateType DEF Frame
<1>3. ASSUME NEW c \in Cycles, Moves(c)
      PROVE  frame'[d].pc \in {"sandbox", "lost", "raised"}
  <2>1. CASE d # c
    <3>1. PICK pc : frame' = [frame EXCEPT ![c] = [frame[c] EXCEPT !.pc = pc]]
      BY <1>3, MovesEffect
    <3> QED BY <2>1, <3>1 DEF TypeOK
  <2>2. CASE d = c
    <3>1. Cancel(d) \/ RejectReport(d)
      <4>1. ~Submit(d) /\ ~Dispatch(d) /\ ~Return(d) /\ ~Raise(d) /\ ~PrepareContext(d)
        BY DEF Submit, Dispatch, Return, Raise, PrepareContext, InNode
      <4> QED BY <1>3, <2>2, <4>1 DEF Moves
    <3>2. CASE Cancel(d)
      BY <3>2, StateType DEF Cancel, Enter, Frame, TypeOK
    <3>3. CASE RejectReport(d)
      BY <3>3, StateType DEF RejectReport, Enter, Frame, TypeOK
    <3> QED BY <3>1, <3>2, <3>3
  <2> QED BY <2>1, <2>2
<1>4. ASSUME NEW c \in Cycles, Leaves(c)
      PROVE  frame'[d].pc \in {"sandbox", "lost", "raised"}
  BY <1>4, LeavesEffect
<1>5. ASSUME NEW c \in Cycles, Writes(c)
      PROVE  frame'[d].pc \in {"sandbox", "lost", "raised"}
  BY <1>5, WritesEffect
<1>6. ASSUME NEW c \in Cycles, IssueApproval(c)
      PROVE  frame'[d].pc \in {"sandbox", "lost", "raised"}
  BY <1>6, IssueEffect
<1>7. ASSUME NEW c \in Cycles, Produce(c)
      PROVE  frame'[d].pc \in {"sandbox", "lost", "raised"}
  BY <1>7, ProduceEffect
<1> QED BY <1>1, <1>2, <1>3, <1>4, <1>5, <1>6, <1>7, StepShapes

(* Every step keeps the commands with the run that awaits them, a failed   *)
(* run or a lost one.                                                      *)
LEMMA CommandsStep ==
  ASSUME TypeOK, TokensInFlight, RowsInFlight, CommandsOutliveOnlyBrokenRuns, [Next]_vars
  PROVE  CommandsOutliveOnlyBrokenRuns'
<1> DEFINE Kept(d, run) ==
      \/ run = Run(d) /\ frame[d].pc \in {"sandbox", "lost", "raised"}
      \/ run < Run(d) /\ state[d].reports[run].status = "failed"
<1> SUFFICES ASSUME NEW command \in sandboxes' PROVE Kept(command.cycle, command.run)'
  BY DEF CommandsOutliveOnlyBrokenRuns
<1>1. ASSUME NEW c \in Cycles, StartSandbox(c), command = CommandOf(c)
      PROVE  Kept(command.cycle, command.run)'
  <2>1. command.cycle = c /\ command.run = Run(c)
    BY <1>1 DEF CommandOf
  <2>2. Run(c)' = Run(c)
    BY <1>1 DEF StartSandbox, Run
  <2>3. frame'[c].pc = "sandbox"
    BY <1>1, StateType DEF StartSandbox, Enter, Frame, TypeOK
  <2> QED BY <2>1, <2>2, <2>3
<1>2. ASSUME command \in sandboxes
      PROVE  Kept(command.cycle, command.run)'
  <2> DEFINE d == command.cycle
             run == command.run
  <2>1. d \in Cycles /\ run \in Nat \ {0} /\ command = [cycle |-> d, run |-> run]
    BY <1>2 DEF TypeOK, Sandbox
  <2>2. Kept(d, run)
    BY <1>2 DEF CommandsOutliveOnlyBrokenRuns
  <2> HIDE DEF d, run
  <2>3. CASE Leaves(d)
    <3>1. /\ Run(d)' = Run(d) + 1 /\ Run(d) \in Nat
          /\ \A i \in 1 .. Len(state[d].reports) : state'[d].reports[i] = state[d].reports[i]
      BY <2>1, <2>3, ReportsGrow, StateType
    <3>2. CASE run = Run(d) /\ frame[d].pc \in {"sandbox", "lost", "raised"}
      <4>1. frame[d].pc = "sandbox"
        BY <2>1, <2>3, <3>2, LeavesEffect DEF Running
      <4>2. frame[d].node \in Specialists
        BY <2>1, <4>1 DEF RowsInFlight
      <4>3. state'[d].reports[Run(d)].status = "failed"
        <5>1. ~CompleteRun(d)
          BY <4>1 DEF CompleteRun, InNode
        <5>2. frame[d].node # "orchestrator"
          BY <4>2 DEF Specialists
        <5> QED BY <2>1, <2>3, <5>1, <5>2, ReportsGrow
      <4> QED BY <3>1, <3>2, <4>3 DEF d, run
    <3>3. CASE run < Run(d) /\ state[d].reports[run].status = "failed"
      <4>1. run \in 1 .. Len(state[d].reports)
        BY <2>1, <3>3, StateType DEF Run, GraphState
      <4> QED BY <3>1, <3>3, <4>1, <2>1 DEF d, run
    <3> QED BY <2>2, <3>2, <3>3
  <2>4. CASE ~Leaves(d) /\ ~SandboxAnswers(d)
    <3>1. state'[d] = state[d] /\ Run(d)' = Run(d)
      BY <2>1, <2>4, StepCases
    <3>2. frame[d].pc \in {"sandbox", "lost", "raised"} => frame'[d].pc \in {"sandbox", "lost", "raised"}
      BY <2>1, <2>4, AwaitingStep
    <3> QED BY <2>2, <3>1, <3>2 DEF d, run
  <2>5. CASE SandboxAnswers(d)
    <3>1. state' = state /\ Run(d)' = Run(d)
      BY <2>5 DEF SandboxAnswers, Run
    <3>2. run # Run(d)
      BY <2>1, <2>5 DEF SandboxAnswers, SandboxesAfter, CommandOf
    <3> QED BY <2>2, <3>1, <3>2 DEF d, run
  <2> QED BY <2>3, <2>4, <2>5 DEF d, run
<1> QED BY <1>1, <1>2, SandboxesEffect

-------------------------------------------------------------------------------
(* The invariant holds, and with it each of the properties.                *)

(* The initial states satisfy the invariant.                                 *)
LEMMA InitInvariant ==
  ASSUME Init
  PROVE  LifecycleInv
<1>1. \A c \in Cycles :
        /\ state[c] = EmptyState /\ blackboard[c] = {}
        /\ frame[c] = [AtNode("orchestrator") EXCEPT !.pc = "idle"]
  BY DEF Init
<1>2. EmptyState \in GraphState
  <2>1. \A S : <<>> \in Seq(S)
    OBVIOUS
  <2> DEFINE none == <<>>
  <2>2. EmptyState = [planned |-> FALSE, pending |-> none, next |-> "__end__",
                      decisions |-> none, reports |-> none, approvals |-> {}, rows |-> {},
                      lastError |-> FALSE, summary |-> none]
    BY DEF EmptyState
  <2>3. \A S : none \in Seq(S)
    BY <2>1
  <2> HIDE DEF none
  <2> QED BY <2>2, <2>3 DEF GraphState
<1>3. [AtNode("orchestrator") EXCEPT !.pc = "idle"] \in Frame
  <2> DEFINE none == <<>>
  <2>1. AtNode("orchestrator")
          = [pc |-> "boundary", node |-> "orchestrator", token |-> {}, artifacts |-> none,
             written |-> 0]
    BY DEF AtNode
  <2>2. none \in Seq(Artifact)
    OBVIOUS
  <2> HIDE DEF none
  <2>3. AtNode("orchestrator") \in Frame
    BY <2>1, <2>2 DEF Frame, Nodes, Running
  <2> QED BY <2>3 DEF Frame
<1>4. TypeOK
  BY <1>2, <1>3, RequestsAssumption, BoundsAssumption DEF Init, TypeOK
<1>5. \A c \in Cycles :
        /\ state[c].approvals = {} /\ state[c].rows = {} /\ state[c].next = "__end__"
        /\ state[c].reports = <<>> /\ frame[c].pc = "idle" /\ frame[c].token = {}
        /\ frame[c].node = "orchestrator" /\ frame[c].artifacts = <<>>
        /\ frame[c].written = 0
  BY <1>1 DEF EmptyState, AtNode
<1>6. "orchestrator" \notin Specialists /\ "__end__" \notin Specialists
      /\ "idle" \notin Running
  BY DEF Specialists, Running
<1>7. TokensInFlight
  BY <1>5, <1>6 DEF TokensInFlight
<1>8. RowsInFlight
  BY <1>1, <1>5, <1>6 DEF RowsInFlight
<1>9. ApprovalsCoverRoutes /\ SpecialistsAreApproved
  BY <1>5, <1>6 DEF ApprovalsCoverRoutes, SpecialistsAreApproved
<1>10. StateRowsAreDurable /\ OrphansComeFromBrokenRuns /\ CommandsOutliveOnlyBrokenRuns
  BY <1>1, <1>5
  DEF Init, StateRowsAreDurable, OrphansComeFromBrokenRuns, CommandsOutliveOnlyBrokenRuns
<1> QED BY <1>4, <1>7, <1>8, <1>9, <1>10 DEF LifecycleInv

(* The invariant is inductive.                                               *)
LEMMA InvariantStep ==
  ASSUME LifecycleInv, [Next]_vars
  PROVE  LifecycleInv'
BY TypeStep, TokensStep, RowsStep, ApprovalsStep, DurableStep, OrphansStep, ApprovedStep,
   CommandsStep
DEF LifecycleInv

(* Every reachable state satisfies the first half of the inductive invariant *)
(* of the super-graph: the lifecycle of run and the approvals of every cycle. *)
THEOREM LifecycleInvariance == Spec => []LifecycleInv
<1>1. Init => LifecycleInv
  BY InitInvariant
<1>2. LifecycleInv /\ [Next]_vars => LifecycleInv'
  BY InvariantStep
<1> QED BY <1>1, <1>2, PTL DEF Spec

(* Every reachable state is well typed.                                    *)
THEOREM TypeCorrect == Spec => []TypeOK
<1>1. LifecycleInv => TypeOK
  BY DEF LifecycleInv
<1> QED BY <1>1, LifecycleInvariance, PTL

(* run merges the artifacts of a node into the graph state only when       *)
(* persist_outputs has committed them all.                                 *)
THEOREM RowsDurable == Spec => []StateRowsAreDurable
<1>1. LifecycleInv => StateRowsAreDurable
  BY DEF LifecycleInv
<1> QED BY <1>1, LifecycleInvariance, PTL

(* What the blackboard holds and the state does not was written by a run   *)
(* that failed, or by the one in progress when the cycle stopped.          *)
THEOREM OrphansExplained == Spec => []OrphansComeFromBrokenRuns
<1>1. LifecycleInv => OrphansComeFromBrokenRuns
  BY DEF LifecycleInv
<1> QED BY <1>1, LifecycleInvariance, PTL

(* A sandbox command that still runs belongs to the run that awaits it, to  *)
(* one that failed or to a cycle that was lost: never to a completed run.   *)
THEOREM CommandsExplained == Spec => []CommandsOutliveOnlyBrokenRuns
<1>1. LifecycleInv => CommandsOutliveOnlyBrokenRuns
  BY DEF LifecycleInv
<1> QED BY <1>1, LifecycleInvariance, PTL

(* No specialist of any cycle runs without an approval naming it, issued   *)
(* in an earlier superstep and known to the bus of a living process.       *)
THEOREM ApprovedBeforeRun == Spec => []SpecialistsAreApproved
<1>1. LifecycleInv => SpecialistsAreApproved
  BY DEF LifecycleInv
<1> QED BY <1>1, LifecycleInvariance, PTL

===============================================================================
