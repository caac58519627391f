------------------------------ MODULE SuperGraph ------------------------------
(***************************************************************************)
(* One run of the Gestalt super-graph per cycle: run_cycle hands a request *)
(* to the compiled LangGraph graph, the graph alternates between the       *)
(* orchestrator and the specialist it routed to, and every node executes   *)
(* BaseGestaltAgent.run.  Cycles run concurrently on one event loop and    *)
(* share the event bus' approvals and the blackboard.                      *)
(*                                                                         *)
(* An action is the code between two awaits (or a group of awaits with no  *)
(* effect of their own): everything that happens in between is one step.   *)
(***************************************************************************)
EXTENDS Integers, Sequences, FiniteSets

CONSTANTS
  Cycles,             (* cycles the process may be asked to run             *)
  Requests,           (* requests they may carry, a subset of Request       *)
  Readings,           (* what telemetry may show, a subset of Reading      *)
  RecursionLimit,     (* supersteps LangGraph runs before it raises         *)
  ApprovalTTL,        (* events.approval_ttl_seconds                        *)
  RemoteBus,          (* the bus is a RedisEventBus: approve can fail       *)
  ValidatesNodeInput, (* this LangGraph re-validates the state at each node *)
  MaxClock,           (* bound: last instant of the clock                   *)
  MaxFaults           (* bound: failed calls and crashes                    *)

(* The keys of DECISION_TO_NODE, also the specialist nodes of the graph.   *)
Specialists ==
  {"monitor", "analyzer", "planner_executor", "optimizer", "knowledge", "security_audit"}

Nodes == Specialists \union {"orchestrator"}

(* The keyword classes determine_next_agents looks for in an objective.    *)
Topics == {"audit", "analyze", "execute", "optimize", "knowledge"}

(* What the plan depends on.  "unlisted" is any scheduled_agent that is no *)
(* specialist; a blank objective passes CycleRequest but no alignment      *)
(* check.                                                                  *)
Request ==
  [topics    : SUBSET Topics,
   scheduled : Specialists \union {"", "unlisted"},
   force     : BOOLEAN,
   blank     : BOOLEAN]

(* A reading as the thresholds of the settings class it: the stats drifted *)
(* (should_trigger_optimizer), the open findings there are call for the    *)
(* security audit (should_trigger_security_intervention), the error ratio  *)
(* is critical.                                                            *)
Reading == [drift : BOOLEAN, intervention : BOOLEAN, critical : BOOLEAN]

ASSUME RequestsAssumption == Requests \subseteq Request
ASSUME ReadingsAssumption == Readings \subseteq Reading
ASSUME BoundsAssumption ==
  /\ RecursionLimit \in Nat \ {0}
  /\ ApprovalTTL \in Nat \ {0}
  /\ MaxClock \in Nat
  /\ MaxFaults \in Nat
ASSUME SwitchesAssumption ==
  /\ RemoteBus \in BOOLEAN
  /\ ValidatesNodeInput \in BOOLEAN

VARIABLES
  request,     (* the CycleRequest of each cycle                            *)
  state,       (* its GestaltGraphState, as the last superstep wrote it     *)
  frame,       (* where its task is: LangGraph's loop and run's locals      *)
  blackboard,  (* durable rows, graph relations and sandbox executions      *)
  approved,    (* the event bus' _approvals                                 *)
  sandboxes,   (* sandbox commands whose process has not ended              *)
  clock,       (* utc_now()                                                 *)
  faults       (* failed calls and crashes so far                           *)

vars == <<request, state, frame, blackboard, approved, sandboxes, clock, faults>>

-------------------------------------------------------------------------------
(* Data.                                                                   *)

(* told: the summary says something; some exceptions (a timeout) have no   *)
(* text of their own.                                                      *)
Report == [agent : Nodes, status : {"completed", "failed"}, told : BOOLEAN]

(* An artifact names its table and, for a command, its target agent.       *)
Artifact ==
  [kind   : {"memory", "command", "stats", "audit", "proposal"},
   target : Nodes \union {"none"}]

Effects == {"execution", "link"}

(* What superstep `run` of a cycle left outside the process.               *)
Row ==
  [run    : Nat \ {0},
   kind   : {"memory", "command", "stats", "audit", "proposal"} \union Effects,
   target : Nodes \union {"none"}]

Approval ==
  [cycle   : Cycles,
   run     : Nat \ {0},
   target  : Specialists \union {"unlisted"},
   expires : Nat]

(* planned says that metadata holds "pending_agents", summary is the list  *)
(* of reports copied to completed_actions (empty while latest_summary is   *)
(* None), rows the artifacts merged into the state, lastError whether      *)
(* metadata["last_error"] is a text that is not empty.                     *)
GraphState ==
  [planned   : BOOLEAN,
   pending   : Seq(Specialists),
   next      : Specialists \union {"__end__"},
   decisions : Seq(Specialists \union {"finalize"}),
   reports   : Seq(Report),
   approvals : SUBSET Approval,
   rows      : SUBSET Row,
   lastError : BOOLEAN,
   summary   : Seq(Report)]

(* The command superstep `run` of a cycle has started.                     *)
Sandbox == [cycle : Cycles, run : Nat \ {0}]

Running == {"boundary", "context", "work", "sandbox", "effected", "approving", "persist"}
Over == {"returned", "raised", "lost"}

(* token is the approval being registered, artifacts what the run emitted  *)
(* and written how many of them persist_outputs has committed.             *)
Frame ==
  [pc        : {"idle"} \union Running \union Over,
   node      : Nodes \union {"__end__"},
   token     : SUBSET Approval,
   artifacts : Seq(Artifact),
   written   : Nat]

TypeOK ==
  /\ request \in [Cycles -> Request]
  /\ state \in [Cycles -> GraphState]
  /\ frame \in [Cycles -> Frame]
  /\ blackboard \in [Cycles -> SUBSET Row]
  /\ approved \subseteq Approval
  /\ sandboxes \subseteq Sandbox
  /\ clock \in 0 .. MaxClock
  /\ faults \in 0 .. MaxFaults

-------------------------------------------------------------------------------
(* Routing.                                                                *)

When(condition, item) == IF condition THEN <<item>> ELSE <<>>

(* fresh: no execution report yet; triggered: stats.optimizer_triggered.   *)
(* No agent is appended twice, so the code's deduplication changes nothing. *)
DetermineNextAgents(req, fresh, triggered) ==
  LET ordered ==
        When(fresh, "monitor")
        \o When("audit" \in req.topics, "security_audit")
        \o When("analyze" \in req.topics, "analyzer")
        \o When("execute" \in req.topics, "planner_executor")
        \o When("optimize" \in req.topics \/ triggered, "optimizer")
        \o When("knowledge" \in req.topics, "knowledge")
  IN  IF req.scheduled # "" THEN <<req.scheduled>>
      ELSE IF req.force THEN <<"security_audit">>
      ELSE IF ordered = <<>>
           THEN <<"analyzer", "planner_executor", "optimizer", "knowledge">>
      ELSE ordered

PendingAgentsMonitorLast(c) ==  \* mistake: the monitor closes the plan
  LET plan == DetermineNextAgents(request[c], state[c].reports = <<>>, FALSE)
  IN  IF state[c].planned THEN state[c].pending ELSE Append(Tail(plan), Head(plan))

(* _apply_state_update never copies optimizer_triggered from a stats       *)
(* report, so it is FALSE in every graph state.                            *)
PendingAgents(c) ==
  IF state[c].planned
  THEN state[c].pending
  ELSE DetermineNextAgents(request[c], state[c].reports = <<>>, FALSE)

(* The superstep a cycle is in, or will start: each one appends a report.  *)
Run(c) == Len(state[c].reports) + 1

InNode(c, pcs) == frame[c].pc \in pcs /\ frame[c].node \in Nodes

Expired(c) == \E a \in state[c].approvals : a.expires <= clock

AtNode(node) ==
  [pc |-> "boundary", node |-> node, token |-> {}, artifacts |-> <<>>, written |-> 0]

(* The edges of the graph: specialists return to the orchestrator, whose   *)
(* conditional edge follows metadata["next_node"] of the state it wrote.   *)
NextNodeRetryingFailures(node, st) ==  \* mistake: a failed specialist is run again
  IF node = "orchestrator" THEN st.next
  ELSE IF st.reports[Len(st.reports)].status = "failed" THEN node ELSE "orchestrator"

NextNode(node, st) == IF node = "orchestrator" THEN st.next ELSE "orchestrator"

(* The node's update is written and the next superstep is prepared.        *)
Leave(c, st) ==
  /\ state' = [state EXCEPT ![c] = st]
  /\ frame' = [frame EXCEPT ![c] = AtNode(NextNode(frame[c].node, st))]

Enter(c, pc) == frame' = [frame EXCEPT ![c].pc = pc]

Reported(c, status, told) ==
  Append(state[c].reports, [agent |-> frame[c].node, status |-> status, told |-> told])

-------------------------------------------------------------------------------
(* Initial state: nothing submitted, build_graph_state's defaults.         *)

EmptyState ==
  [planned |-> FALSE, pending |-> <<>>, next |-> "__end__", decisions |-> <<>>,
   reports |-> <<>>, approvals |-> {}, rows |-> {}, lastError |-> FALSE, summary |-> <<>>]

Init ==
  /\ request \in [Cycles -> Requests]
  /\ state = [c \in Cycles |-> EmptyState]
  /\ frame = [c \in Cycles |-> [AtNode("orchestrator") EXCEPT !.pc = "idle"]]
  /\ blackboard = [c \in Cycles |-> {}]
  /\ approved = {}
  /\ sandboxes = {}
  /\ clock = 0
  /\ faults = 0

-------------------------------------------------------------------------------
(* LangGraph's loop.                                                       *)

(* run_cycle is called and ainvoke takes the state in.                     *)
Submit(c) ==
  /\ frame[c].pc = "idle"
  /\ Enter(c, "boundary")
  /\ UNCHANGED <<request, state, blackboard, approved, sandboxes, clock, faults>>

(* A superstep starts: the node is called with the state.                  *)
Dispatch(c) ==
  /\ frame[c].pc = "boundary"
  /\ frame[c].node \in Nodes
  /\ Run(c) <= RecursionLimit
  /\ ValidatesNodeInput => ~Expired(c)
  /\ Enter(c, "context")
  /\ UNCHANGED <<request, state, blackboard, approved, sandboxes, clock, faults>>

ReturnFinalized(c) ==  \* mistake: a cycle without a summary is never handed back
  /\ frame[c].pc = "boundary"
  /\ frame[c].node = "__end__"
  /\ state[c].summary # <<>>
  /\ Enter(c, "returned")
  /\ UNCHANGED <<request, state, blackboard, approved, sandboxes, clock, faults>>

(* END was reached and the final state passes model_validate.              *)
Return(c) ==
  /\ frame[c].pc = "boundary"
  /\ frame[c].node = "__end__"
  /\ Run(c) <= RecursionLimit
  /\ ~Expired(c)
  /\ Enter(c, "returned")
  /\ UNCHANGED <<request, state, blackboard, approved, sandboxes, clock, faults>>

(* run_cycle raises: GraphRecursionError, or a ValidationError because an  *)
(* approval held by the state is no longer in the future, at a node or in  *)
(* run_cycle's own model_validate at the end.                              *)
Raise(c) ==
  /\ frame[c].pc = "boundary"
  /\ \/ Run(c) > RecursionLimit
     \/ Expired(c) /\ (ValidatesNodeInput \/ frame[c].node = "__end__")
  /\ Enter(c, "raised")
  /\ UNCHANGED <<request, state, blackboard, approved, sandboxes, clock, faults>>

-------------------------------------------------------------------------------
(* The shared agent lifecycle.                                             *)

(* prepare_context has queried the blackboard, the alignment checks pass.  *)
PrepareContext(c) ==
  /\ InNode(c, {"context"})
  /\ ~request[c].blank
  /\ Enter(c, "work")
  /\ UNCHANGED <<request, state, blackboard, approved, sandboxes, clock, faults>>

FailedStateSwallowed(c, told) ==  \* mistake: the failure is reported as completed
  [state[c] EXCEPT !.reports = Reported(c, "completed", TRUE), !.lastError = told]

FailedStateUnmarked(c, told) ==  \* mistake: metadata["last_error"] is not set
  [state[c] EXCEPT !.reports = Reported(c, "failed", told)]

FailedStateEnding(c, told) ==  \* mistake: a failure resets metadata["next_node"]
  [state[c] EXCEPT !.reports = Reported(c, "failed", told), !.lastError = told, !.next = "__end__"]

(* run's except branch: a FAILED report and last_error, the exception's    *)
(* text even when that is empty, and nothing else of the run;              *)
(* metadata["next_node"] keeps its old value.                              *)
FailedState(c, told) ==
  [state[c] EXCEPT !.reports = Reported(c, "failed", told), !.lastError = told]

RejectBlankObjective(c) ==
  /\ InNode(c, {"context"})
  /\ request[c].blank
  /\ Leave(c, FailedState(c, TRUE))
  /\ UNCHANGED <<request, blackboard, approved, sandboxes, clock, faults>>

(* Any awaited call of the run raises: a query, a tool, the model, Neo4j,  *)
(* redis.set (the token then is in the bus and not in the state), or one   *)
(* of the commits of persist_outputs.                                      *)
FailRun(c) ==
  /\ \/ InNode(c, {"context", "work", "effected", "persist"})
     \/ RemoteBus /\ InNode(c, {"approving"})
  /\ faults < MaxFaults
  /\ faults' = faults + 1
  /\ \E told \in BOOLEAN : Leave(c, FailedState(c, told))
  /\ UNCHANGED <<request, blackboard, approved, sandboxes, clock>>

-------------------------------------------------------------------------------
(* GestaltOrchestrator.produce_artifacts.                                  *)

ExpiryBackwards == clock - ApprovalTTL  \* mistake: the lifetime is subtracted

(* utc_now() + timedelta(seconds=approval_ttl_seconds)                     *)
Expiry == clock + ApprovalTTL

(* The model answered; the token is built and enters the bus' dictionary,  *)
(* then approve awaits redis.set.                                          *)
IssueApproval(c) ==
  /\ InNode(c, {"work"})
  /\ frame[c].node = "orchestrator"
  /\ PendingAgents(c) # <<>>
  /\ LET token == [cycle |-> c, run |-> Run(c), target |-> Head(PendingAgents(c)),
                   expires |-> Expiry]
     IN  /\ approved' = approved \union {token}
         /\ frame' = [frame EXCEPT ![c].pc = "approving", ![c].token = {token}]
  /\ UNCHANGED <<request, state, blackboard, sandboxes, clock, faults>>

RoutedStateReplanning(c) ==  \* mistake: metadata["pending_agents"] is not kept
  [state[c] EXCEPT
     !.next      = Head(PendingAgents(c)),
     !.decisions = Append(@, Head(PendingAgents(c))),
     !.reports   = Reported(c, "completed", TRUE),
     !.approvals = @ \union frame[c].token]

RoutedStateUnapproved(c) ==  \* mistake: state.approvals misses the new token
  [state[c] EXCEPT
     !.planned   = TRUE,
     !.pending   = Tail(PendingAgents(c)),
     !.next      = Head(PendingAgents(c)),
     !.decisions = Append(@, Head(PendingAgents(c))),
     !.reports   = Reported(c, "completed", TRUE)]

RoutedState(c) ==
  [state[c] EXCEPT
     !.planned   = TRUE,
     !.pending   = Tail(PendingAgents(c)),
     !.next      = Head(PendingAgents(c)),
     !.decisions = Append(@, Head(PendingAgents(c))),
     !.reports   = Reported(c, "completed", TRUE),
     !.approvals = @ \union frame[c].token]

(* The token joins the state, the route is decided and the run completes:  *)
(* the orchestrator emits nothing for persist_outputs to write.            *)
Route(c) ==
  /\ InNode(c, {"approving"})
  /\ Head(PendingAgents(c)) \in Specialists
  /\ Leave(c, RoutedState(c))
  /\ UNCHANGED <<request, blackboard, approved, sandboxes, clock, faults>>

(* DECISION_TO_NODE has no such key: KeyError after the token was issued.  *)
RejectUnlisted(c) ==
  /\ InNode(c, {"approving"})
  /\ Head(PendingAgents(c)) \notin Specialists
  /\ Leave(c, [FailedState(c, TRUE) EXCEPT !.approvals = @ \union frame[c].token])
  /\ UNCHANGED <<request, blackboard, approved, sandboxes, clock, faults>>

(* Nothing is pending: evaluate_cohesion has read the blackboard and the   *)
(* summary lists every report so far as a completed action.                *)
Finalize(c) ==
  /\ InNode(c, {"work"})
  /\ frame[c].node = "orchestrator"
  /\ PendingAgents(c) = <<>>
  /\ Leave(c, [state[c] EXCEPT
                 !.planned   = TRUE,
                 !.pending   = <<>>,
                 !.next      = "__end__",
                 !.decisions = Append(@, "finalize"),
                 !.reports   = Reported(c, "completed", TRUE),
                 !.summary   = state[c].reports])
  /\ UNCHANGED <<request, blackboard, approved, sandboxes, clock, faults>>

-------------------------------------------------------------------------------
(* The specialists.                                                        *)

Emit(kind) == [kind |-> kind, target |-> "none"]
Command(target) == [kind |-> "command", target |-> target]

RowOf(c, kind, target) == [run |-> Run(c), kind |-> kind, target |-> target]

Write(c, row) == blackboard' = [blackboard EXCEPT ![c] = @ \union {row}]

CommandOf(c) == [cycle |-> c, run |-> Run(c)]

(* planner_executor runs a sandbox command before it asks the model: the   *)
(* process is created, its output awaited.                                 *)
StartSandbox(c) ==
  /\ InNode(c, {"work"})
  /\ frame[c].node = "planner_executor"
  /\ Enter(c, "sandbox")
  /\ Write(c, RowOf(c, "execution", "none"))
  /\ sandboxes' = sandboxes \union {CommandOf(c)}
  /\ UNCHANGED <<request, state, approved, clock, faults>>

SandboxesAfterReading(c) == sandboxes  \* mistake: the output is read, the end not awaited

SandboxesAfter(c) == sandboxes \ {CommandOf(c)}

(* communicate answers: the process has ended.                             *)
SandboxAnswers(c) ==
  /\ InNode(c, {"sandbox"})
  /\ Enter(c, "effected")
  /\ sandboxes' = SandboxesAfter(c)
  /\ UNCHANGED <<request, state, blackboard, approved, clock, faults>>

(* wait_for gives up: its TimeoutError has no text, and nothing ends the   *)
(* process.                                                                *)
SandboxTimesOut(c) ==
  /\ InNode(c, {"sandbox"})
  /\ Leave(c, FailedState(c, FALSE))
  /\ UNCHANGED <<request, blackboard, approved, sandboxes, clock, faults>>

(* A command nobody waits for any more ends by itself, if ever.            *)
CommandEnds(command) ==
  /\ ~(InNode(command.cycle, {"sandbox"}) /\ command = CommandOf(command.cycle))
  /\ sandboxes' = sandboxes \ {command}
  /\ UNCHANGED <<request, state, frame, blackboard, approved, clock, faults>>

(* knowledge relates a memory its query matched to the record it is about  *)
(* to emit; only a stored memory can match.                                *)
LinkKnowledge(c) ==
  /\ InNode(c, {"work"})
  /\ frame[c].node = "knowledge"
  /\ \E d \in Cycles : \E row \in blackboard[d] : row.kind = "memory"
  /\ Enter(c, "effected")
  /\ Write(c, RowOf(c, "link", "none"))
  /\ UNCHANGED <<request, state, approved, sandboxes, clock, faults>>

Audited(c) == \E row \in state[c].rows : row.kind = "audit"

(* A failure the state remembers, a critical error ratio or an earlier     *)
(* audit is a finding.                                                     *)
HasFindings(c, reading) == state[c].lastError \/ reading.critical \/ Audited(c)

(* Next, what each specialist may emit, in the order persist_outputs       *)
(* writes it.  The monitor asks for an audit only when audits of the state *)
(* have findings: telemetry alone gives a risk of 20 at most (Telemetry).  *)
MonitorArtifacts(c, reading) ==
  {<<Emit("memory")>>
     \o When(reading.drift, Command("optimizer"))
     \o When(reading.intervention /\ Audited(c), Command("security_audit"))
     \o <<Emit("stats")>>}

(* The model names the agent to act on the analysis.                       *)
AnalyzerArtifacts ==
  {<<Emit("memory"), Command(target)>> :
     target \in {"planner_executor", "optimizer", "knowledge", "security_audit"}}

(* The model says whether the execution needs analysis.                    *)
PlannerArtifacts == {<<Emit("memory")>> \o When(more, Command("analyzer")) : more \in BOOLEAN}

OptimizerArtifacts == {<<Emit("memory"), Emit("proposal")>>}

KnowledgeArtifacts == {<<Emit("memory")>>}

AuditArtifacts(c, reading) ==
  {<<Emit("memory")>> \o When(HasFindings(c, reading), Command("orchestrator")) \o <<Emit("audit")>>}

Artifacts(c, reading) ==
  CASE frame[c].node = "monitor"          -> MonitorArtifacts(c, reading)
    [] frame[c].node = "analyzer"         -> AnalyzerArtifacts
    [] frame[c].node = "planner_executor" -> PlannerArtifacts
    [] frame[c].node = "optimizer"        -> OptimizerArtifacts
    [] frame[c].node = "knowledge"        -> KnowledgeArtifacts
    [] OTHER                              -> AuditArtifacts(c, reading)

(* produce_artifacts returns.                                              *)
Produce(c) ==
  /\ \/ InNode(c, {"work"}) /\ frame[c].node \in Specialists \ {"planner_executor"}
     \/ InNode(c, {"effected"})
  /\ \E reading \in Readings : \E artifacts \in Artifacts(c, reading) :
       frame' = [frame EXCEPT ![c].pc = "persist", ![c].artifacts = artifacts]
  /\ UNCHANGED <<request, state, blackboard, approved, sandboxes, clock, faults>>

(* persist_outputs commits its next artifact in a transaction of its own.  *)
PersistNext(c) ==
  /\ InNode(c, {"persist"})
  /\ frame[c].written < Len(frame[c].artifacts)
  /\ LET next == frame[c].artifacts[frame[c].written + 1]
     IN  Write(c, RowOf(c, next.kind, next.target))
  /\ frame' = [frame EXCEPT ![c].written = @ + 1]
  /\ UNCHANGED <<request, state, approved, sandboxes, clock, faults>>

AllWrittenButLast(c) ==  \* mistake: the last commit is not waited for
  frame[c].written + 1 >= Len(frame[c].artifacts)

AllWritten(c) == frame[c].written = Len(frame[c].artifacts)

Emitted(c) ==
  {RowOf(c, frame[c].artifacts[i].kind, frame[c].artifacts[i].target) :
     i \in 1 .. Len(frame[c].artifacts)}

(* Everything is committed: the artifacts are merged into the state.       *)
CompleteRun(c) ==
  /\ InNode(c, {"persist"})
  /\ AllWritten(c)
  /\ Leave(c, [state[c] EXCEPT
                 !.reports = Reported(c, "completed", TRUE),
                 !.rows    = @ \union Emitted(c)])
  /\ UNCHANGED <<request, blackboard, approved, sandboxes, clock, faults>>

-------------------------------------------------------------------------------
(* The environment.                                                        *)

(* The process dies: the checkpoints (an InMemorySaver), the tasks and the *)
(* bus' dictionary die with it; what was committed stays, and sandbox      *)
(* commands do unless their container goes too.  `state` keeps the last    *)
(* value of a lost cycle for the properties to speak of.                   *)
Crash ==
  /\ faults < MaxFaults
  /\ \E c \in Cycles : frame[c].pc \in Running
  /\ faults' = faults + 1
  /\ approved' = {}
  /\ sandboxes' \in {sandboxes, {}}
  /\ frame' = [c \in Cycles |->
       IF frame[c].pc \in Running THEN [frame[c] EXCEPT !.pc = "lost"] ELSE frame[c]]
  /\ UNCHANGED <<request, state, blackboard, clock>>

(* The scheduler stops and cancels the job a cycle runs in: run catches no *)
(* CancelledError, so there is no report and no state.  The bus keeps the  *)
(* cycle's tokens, and its sandbox command goes on.                        *)
Cancel(c) ==
  /\ faults < MaxFaults
  /\ frame[c].pc \in Running
  /\ request[c].scheduled # ""
  /\ faults' = faults + 1
  /\ Enter(c, "lost")
  /\ UNCHANGED <<request, state, blackboard, approved, sandboxes, clock>>

(* The wall clock steps back behind the start of a run: validate_timing    *)
(* rejects its report, and in the except branch the report of the failure, *)
(* so the exception leaves run, the graph and run_cycle.                   *)
RejectReport(c) ==
  /\ InNode(c, Running \ {"boundary"})
  /\ faults < MaxFaults
  /\ faults' = faults + 1
  /\ Enter(c, "raised")
  /\ UNCHANGED <<request, state, blackboard, approved, sandboxes, clock>>

Tick ==
  /\ clock < MaxClock
  /\ clock' = clock + 1
  /\ UNCHANGED <<request, state, frame, blackboard, approved, sandboxes, faults>>

(* Every cycle is over: the process may idle for good.                     *)
Quiet ==
  /\ \A c \in Cycles : frame[c].pc \in Over
  /\ UNCHANGED vars

(* The steps the event loop takes for a cycle it has started.              *)
Progress(c) ==
  \/ Dispatch(c) \/ Return(c) \/ Raise(c)
  \/ PrepareContext(c) \/ RejectBlankObjective(c)
  \/ IssueApproval(c) \/ Route(c) \/ RejectUnlisted(c) \/ Finalize(c)
  \/ StartSandbox(c) \/ SandboxAnswers(c) \/ SandboxTimesOut(c)
  \/ LinkKnowledge(c) \/ Produce(c) \/ PersistNext(c) \/ CompleteRun(c)

Next ==
  \/ \E c \in Cycles : Submit(c)
  \/ \E c \in Cycles : FailRun(c)
  \/ \E c \in Cycles : Cancel(c)
  \/ \E c \in Cycles : RejectReport(c)
  \/ \E command \in sandboxes : CommandEnds(command)
  \/ \E c \in Cycles : Progress(c)
  \/ Crash
  \/ Tick
  \/ Quiet

Spec == Init /\ [][Next]_vars

(* asyncio keeps running a task whose awaited call has answered, and the   *)
(* calls that have no answer raise: a started cycle takes its next step.   *)
FairSpec == Spec /\ \A c \in Cycles : WF_vars(Progress(c))

-------------------------------------------------------------------------------
(* Safety.                                                                 *)

(* What the state says was emitted is durable: run merges the artifacts    *)
(* only after persist_outputs has committed every one of them.             *)
StateRowsAreDurable == \A c \in Cycles : state[c].rows \subseteq blackboard[c]

(* A durable row the state does not know comes from a run that failed      *)
(* half way, or from the run a cycle is in (or was in when the process     *)
(* died); a completed run has all its artifacts in the state.  A reader of *)
(* the blackboard never sees rows of a completed run the cycle disowns.    *)
OrphansComeFromBrokenRuns ==
  \A c \in Cycles : \A row \in blackboard[c] :
    \/ row.kind \in Effects
    \/ row \in state[c].rows
    \/ row.run = Run(c)
    \/ row.run < Run(c) /\ state[c].reports[row.run].status = "failed"

(* A relation "CURATED_INTO" names a memory that is stored, unless the run *)
(* that linked it failed or has not got there yet.                         *)
LinksNameStoredMemories ==
  \A c \in Cycles : \A row \in blackboard[c] : row.kind = "link" =>
    \/ [row EXCEPT !.kind = "memory"] \in blackboard[c]
    \/ row.run = Run(c)
    \/ row.run < Run(c) /\ state[c].reports[row.run].status = "failed"

(* No specialist runs without an approval naming it that the orchestrator  *)
(* issued in an earlier superstep, is in the state, and is known to the    *)
(* bus while the process lives.                                            *)
SpecialistsAreApproved ==
  \A c \in Cycles :
    /\ \A j \in 1 .. Len(state[c].reports) : state[c].reports[j].agent \in Specialists =>
         \E a \in state[c].approvals : a.target = state[c].reports[j].agent /\ a.run < j
    /\ frame[c].node \in Specialists =>
         \E a \in state[c].approvals : a.target = frame[c].node
    /\ frame[c].pc \in Running => state[c].approvals \subseteq approved

(* The bus holds more than the states do only where registering a token    *)
(* was interrupted: redis.set failed, or it is still awaited.              *)
UnheldTokensWereInterrupted ==
  \A a \in approved :
    \/ a \in state[a.cycle].approvals
    \/ a \in frame[a.cycle].token
    \/ a.run < Run(a.cycle) /\ state[a.cycle].reports[a.run].status = "failed"

(* Once an agent of a cycle has failed and said why, every later audit of  *)
(* the cycle that completes has stored a REMEDIATE command for it, unless  *)
(* a failure without a text came in between and overwrote last_error.      *)
FailuresReachLaterAudits ==
  \A c \in Cycles : \A i, j \in 1 .. Len(state[c].reports) :
    ( /\ i < j
      /\ state[c].reports[i].status = "failed"
      /\ \A k \in i .. j - 1 : state[c].reports[k].told
      /\ state[c].reports[j].agent = "security_audit"
      /\ state[c].reports[j].status = "completed" )
    => [run |-> j, kind |-> "command", target |-> "orchestrator"] \in blackboard[c]

(* The monitor never runs in a cycle that has an audit, not even when a    *)
(* failed orchestrator run sends the cycle to a specialist again: what it  *)
(* counts as open findings, and so its AUDIT command, stays empty.         *)
MonitorsSeeNoAudit ==
  \A c \in Cycles : frame[c].node = "monitor" => ~Audited(c)

Reports(c, agents, statuses) ==
  {i \in 1 .. Len(state[c].reports) :
     state[c].reports[i].agent \in agents /\ state[c].reports[i].status \in statuses}

Routed(c) == {i \in 1 .. Len(state[c].decisions) : state[c].decisions[i] # "finalize"}

(* A specialist is run again only because the orchestrator failed after it *)
(* had answered: there are never more specialist runs than routes decided  *)
(* and orchestrator failures together.                                     *)
RerunsAreOrchestratorFailures ==
  \A c \in Cycles :
    Cardinality(Reports(c, Specialists, {"completed", "failed"}))
      <= Cardinality(Routed(c)) + Cardinality(Reports(c, {"orchestrator"}, {"failed"}))

(* A command outlives its run only where the run failed, or its cycle was  *)
(* lost or raised: a planner that reports completion leaves no process     *)
(* behind, and whoever reads its memory reads of a command that has ended. *)
CommandsOutliveOnlyBrokenRuns ==
  \A command \in sandboxes :
    LET c == command.cycle IN
    \/ command.run = Run(c) /\ frame[c].pc \in {"sandbox", "lost", "raised"}
    \/ command.run < Run(c) /\ state[c].reports[command.run].status = "failed"

(* Two commands of one cycle run at the same time only when the first run  *)
(* gave up on its own and the orchestrator failed afterwards: the same     *)
(* work is never started twice by a single failure.                        *)
CommandsOverlapOnlyAfterTwoFailures ==
  \A first, second \in sandboxes :
    first.cycle = second.cycle /\ first.run < second.run =>
      LET reports == state[first.cycle].reports IN
      /\ reports[first.run].status = "failed"
      /\ \E k \in first.run + 1 .. second.run - 1 :
           reports[k].agent = "orchestrator" /\ reports[k].status = "failed"

(* The recursion limit is met only by a cycle whose orchestrator failed:   *)
(* each route costs two supersteps, each orchestrator failure at most two, *)
(* and finalizing one.                                                     *)
LimitNeedsOrchestratorFailures ==
  \A c \in Cycles :
    Len(state[c].reports)
      <= 2 * Cardinality(Routed(c)) + 2 * Cardinality(Reports(c, {"orchestrator"}, {"failed"})) + 1

(* An agent's failure never ends a cycle early once the orchestrator has   *)
(* routed: the graph reaches END only from a finalized state, or because   *)
(* the orchestrator failed before its first route.                         *)
EndNeedsSummaryOrNoRoute ==
  \A c \in Cycles :
    frame[c].node = "__end__" => (state[c].summary # <<>> \/ Routed(c) = {})

-------------------------------------------------------------------------------
(* The inductive invariant behind the theorems: the life of a run, which    *)
(* SuperGraph_proofs takes alone, and the route of a cycle.                 *)

(* The token being registered is in the bus already, is the only one, and  *)
(* names the agent about to be routed to.                                  *)
TokensInFlight ==
  \A c \in Cycles :
    /\ frame[c].pc = "approving" =>
         /\ frame[c].node = "orchestrator"
         /\ PendingAgents(c) # <<>>
         /\ \E a \in approved : /\ frame[c].token = {a}
                                /\ a.run = Run(c)
                                /\ a.target = Head(PendingAgents(c))
    /\ frame[c].pc \in (Running \union {"idle"}) \ {"approving"} => frame[c].token = {}

(* What a run has written so far is the start of what it emitted, and the  *)
(* blackboard holds nothing else of the superstep in progress.             *)
RowsInFlight ==
  \A c \in Cycles :
    /\ frame[c].pc \in {"sandbox", "effected", "persist"} => frame[c].node \in Specialists
    /\ frame[c].written <= Len(frame[c].artifacts)
    /\ frame[c].pc \in (Running \union {"idle"}) \ {"persist"} => frame[c].written = 0
    /\ frame[c].pc = "persist" =>
         \A i \in 1 .. frame[c].written :
           RowOf(c, frame[c].artifacts[i].kind, frame[c].artifacts[i].target) \in blackboard[c]
    /\ \A row \in blackboard[c] :
         /\ row.run <= Run(c)
         /\ ( /\ frame[c].pc \in Running \union {"idle"}
              /\ row.run = Run(c)
              /\ row.kind \notin Effects )
              => (frame[c].pc = "persist" /\ row \in Emitted(c))

(* The agent a conditional edge names, and the one that is active, have    *)
(* been approved in an earlier superstep.                                  *)
ApprovalsCoverRoutes ==
  \A c \in Cycles :
    /\ frame[c].pc = "idle" => state[c].approvals = {}
    /\ \A agent \in {state[c].next, frame[c].node} \intersect Specialists :
         \E a \in state[c].approvals : a.target = agent /\ a.run < Run(c)

LifecycleInv ==
  /\ TypeOK
  /\ TokensInFlight
  /\ RowsInFlight
  /\ ApprovalsCoverRoutes
  /\ StateRowsAreDurable
  /\ OrphansComeFromBrokenRuns
  /\ SpecialistsAreApproved
  /\ CommandsOutliveOnlyBrokenRuns

(* The plans a request can get; a cycle's is chosen while it has no report. *)
Plans == {DetermineNextAgents(req, TRUE, FALSE) : req \in Requests}

(* Until the first route nothing is decided and a failure is the end; then *)
(* decisions and pending agents are one plan, the graph alternates between *)
(* the orchestrator and the agent routed to last; a summary ends both.     *)
RoutesFollowPlans ==
  \A c \in Cycles :
    LET st == state[c]
        node == frame[c].node
        latest == st.reports[Len(st.reports)]
    IN  /\ request[c] \in Requests
        /\ frame[c].pc = "idle" => ~st.planned /\ st.reports = <<>>
        /\ ~st.planned =>
             /\ st.decisions = <<>> /\ st.pending = <<>> /\ st.summary = <<>>
             /\ st.next = "__end__"
             /\ IF st.reports = <<>> THEN node = "orchestrator" ELSE node = "__end__"
        /\ st.planned /\ st.summary = <<>> =>
             /\ st.decisions \in Seq(Specialists) /\ st.decisions # <<>>
             /\ st.decisions \o st.pending \in Plans
             /\ st.next = st.decisions[Len(st.decisions)]
             /\ st.reports # <<>>
             /\ \/ node = "orchestrator" /\ latest.agent \in Specialists
                \/ node = st.next /\ latest.agent = "orchestrator"
        /\ st.planned /\ st.summary # <<>> =>
             /\ \E p \in Seq(Specialists) \intersect Plans : st.decisions = Append(p, "finalize")
             /\ st.pending = <<>>
             /\ node = "__end__"

(* What a run is about to store is what its agent emits, memory first; a   *)
(* relation is a specialist's, and every audit the state knows an          *)
(* auditor's.                                                              *)
RowsComeFromAgents ==
  \A c \in Cycles :
    /\ frame[c].pc = "persist" =>
         \E reading \in Readings : frame[c].artifacts \in Artifacts(c, reading)
    /\ \A row \in blackboard[c] : row.kind = "link" =>
         row.target = "none" /\ (row.run = Run(c) => frame[c].node \in Specialists)
    /\ \A row \in state[c].rows : row.kind = "audit" =>
         \E j \in 1 .. Len(state[c].reports) : state[c].reports[j].agent = "security_audit"

(* Every specialist that has run was routed to, and one that has answered  *)
(* is active again only after the orchestrator failed.                     *)
RerunsFollowFailures ==
  \A c \in Cycles :
    LET reports == state[c].reports
        FailedAfter(i, j) ==
          \E k \in i + 1 .. j - 1 :
            reports[k].agent = "orchestrator" /\ reports[k].status = "failed"
    IN  \A i \in 1 .. Len(reports) : reports[i].agent \in Specialists =>
          /\ \E n \in 1 .. Len(state[c].decisions) : state[c].decisions[n] = reports[i].agent
          /\ \A j \in i + 1 .. Len(reports) :
               reports[j].agent = reports[i].agent => FailedAfter(i, j)
          /\ frame[c].node = reports[i].agent => FailedAfter(i, Run(c))

(* Sandbox commands are started by runs of planner_executor.               *)
CommandsComeFromPlanners ==
  \A command \in sandboxes :
    LET c == command.cycle IN
    \/ command.run = Run(c) /\ frame[c].node = "planner_executor"
    \/ command.run < Run(c) /\ state[c].reports[command.run].agent = "planner_executor"

(* metadata["last_error"] speaks of a failure until one without a text     *)
(* overwrites it.                                                          *)
FailuresAreRemembered ==
  \A c \in Cycles : \A i \in 1 .. Len(state[c].reports) :
    ( /\ state[c].reports[i].status = "failed"
      /\ \A k \in i .. Len(state[c].reports) : state[c].reports[k].told )
    => state[c].lastError

(* Each decision is one completed orchestrator run; the active specialist  *)
(* is paid for by a route or by a failure of the orchestrator.             *)
RunsAddUp ==
  \A c \in Cycles :
    LET answers == Cardinality(Reports(c, Specialists, {"completed", "failed"}))
        failures == Cardinality(Reports(c, {"orchestrator"}, {"failed"}))
        routes == Cardinality(Routed(c))
    IN  /\ Len(state[c].reports) = answers + failures + Len(state[c].decisions)
        /\ answers + (IF frame[c].node \in Specialists THEN 1 ELSE 0) <= routes + failures

RoutingInv ==
  /\ RoutesFollowPlans
  /\ RowsComeFromAgents
  /\ LinksNameStoredMemories
  /\ UnheldTokensWereInterrupted
  /\ RerunsFollowFailures
  /\ CommandsComeFromPlanners
  /\ FailuresAreRemembered
  /\ FailuresReachLaterAudits
  /\ RunsAddUp

IInv == LifecycleInv /\ RoutingInv

-------------------------------------------------------------------------------
(* Liveness.                                                               *)

(* A submitted cycle ends: it returns, raises, or dies with the process.   *)
CyclesEnd == \A c \in Cycles : frame[c].pc \in Running ~> frame[c].pc \in Over

-------------------------------------------------------------------------------
(* The contract of a cycle, and the mapping that shows it is kept.         *)

RoutedCount(c) ==
  IF state[c].summary = <<>> THEN Len(state[c].decisions) ELSE Len(state[c].decisions) - 1

(* The agent of the latest route has reported unless the route itself is   *)
(* the latest report.                                                      *)
ServedCount(c) ==
  IF /\ state[c].reports # <<>>
     /\ state[c].summary = <<>>
     /\ LET latest == state[c].reports[Len(state[c].reports)]
        IN  latest.agent = "orchestrator" /\ latest.status = "completed"
  THEN RoutedCount(c) - 1
  ELSE RoutedCount(c)

Phase(c) ==
  IF frame[c].pc = "idle" THEN "waiting"
  ELSE IF frame[c].pc \in Running
       THEN IF state[c].summary = <<>> THEN "open" ELSE "concluded"
  ELSE IF frame[c].pc = "returned" /\ state[c].summary # <<>> THEN "ended"
  ELSE "abandoned"

Contract == INSTANCE CycleContract WITH
  phase  <- [c \in Cycles |-> Phase(c)],
  plan   <- [c \in Cycles |->
               SubSeq(state[c].decisions, 1, RoutedCount(c)) \o state[c].pending],
  routed <- [c \in Cycles |-> RoutedCount(c)],
  served <- [c \in Cycles |-> ServedCount(c)]

(* Every step of the super-graph is a step of CycleContract or none.       *)
KeepsContract == Contract!Spec

===============================================================================
