# Gestalt Core: TLA+ verification

TLA+ models of `gestalt-core` (the Python package under `gestalt/`), their TLC
configurations, and TLAPS proofs of the properties that matter most. Every
definition is translated from the code; `PROJECT.json` gives the lines of each
(`map`), the runs, the hazards, the disagreements between code and documents,
and the theorems.

## 1. The system

Gestalt Core is one Python process (or several replicas of it) with one asyncio
event loop. An API call or a scheduler job submits a *cycle*: `run_cycle` hands
a fresh `GestaltGraphState` to one compiled LangGraph graph, in which the
orchestrator and six specialists alternate until the orchestrator finalizes.

| Component | State it keeps | Operations |
|---|---|---|
| Super-graph (`graph.py`) | one state per cycle, checkpoints in memory | `run_cycle`, nodes, conditional edge |
| Agent lifecycle (`base_agent.py`) | none; locals of `run` | `run`: context, alignment, model, persist, merge or fail |
| Orchestrator (`orchestrator.py`) | `metadata` of the state: plan, next node | plan, approve and route, finalize |
| Specialists (`agents/`) | none | one `produce_artifacts` each |
| Event bus (`events/bus.py`) | approvals (process), keys and stream (Redis) | `initialize`, `approve`, `publish`, `list_events`, `close` |
| Blackboard (`blackboard.py`) | SQL tables, Neo4j relations | writes in single transactions, queries, links |
| Application (`main.py`, `utils/runtime.py`) | `app.state.runtime`, scheduler | lifespan, `get_runtime`, jobs, shutdown |
| Stats (`stats.py`) | scores and levels in the state | snapshot, triggers, model policy |
| Tools (`tools/`) | sandbox processes of the host | awaited calls of the agents |
| Model gateway, settings, logging | static | awaited calls of the agents |

*Interaction.* Cycles share the bus' dictionary and the blackboard. The
orchestrator registers an approval on the bus before each route and appends it
to the state. Agents write to the blackboard before their artifacts are merged
into the state. The graph reads `metadata["next_node"]` after each orchestrator
run. The scheduler and the API share a runtime found in `app.state`.

*What is hard.* A run that fails is turned into a state by `run` itself, so the
graph goes on with whatever routing data the state already has. Effects precede
the merge, artifact by artifact. The validator of an approval's expiry runs
again each time the state is validated. A process death loses cycles and
approvals, not rows. Redis calls end later than the dictionary is written, and
one replica may leave Redis for a memory bus while its peers stay. A sandbox
command outlives the run that gave it up. A row is timed when its object is
built, by one of several clocks, and committed later; readers take several
statements, over two databases, while others write. `get_runtime` awaits
between its look and its assignment. `PROJECT.json` lists
these under `hazards`, each at its line.

*What makes the components correct.*
- Cycle: it commits to one plan and follows it in order; it ends; the state
  never claims what is not stored; nothing stored is disowned except by a run
  that broke.
- Approvals: no specialist runs without one; no signal passes without one that
  is unexpired and known to the very bus.
- Stats: they follow the telemetry, in range and without turning better while
  it gets worse; commands stand for a change; summaries reflect the audits.
- Blackboard: an answer misses only what its window and its limit exclude;
  lineage is complete and acyclic; what is read in pieces fits together; the
  latest is never older than it was.
- Runtime: one per process, used only while open, released by a shutdown that
  ends even when a job hangs.

## 2. Modules

| Module | Models | Composes |
|---|---|---|
| `CycleContract` | what a cycle promises, abstractly | |
| `SuperGraph` | LangGraph's loop, `run`, orchestrator, specialists, commits, crash, clock; several cycles on one bus and one blackboard | refines `CycleContract` |
| `MCSuperGraph` | its instances for TLC | `SuperGraph` |
| `SuperGraphClaims` | what the documents say and the code does not do | `MCSuperGraph` |
| `SuperGraph_proofs` | theorems about runs: approvals, rows, commands, types | `SuperGraph` |
| `SuperGraphRouting_proofs` | theorems about routes: plans, reruns, remembered failures, counts | extends `SuperGraph_proofs` |
| `SuperGraphContract_proofs` | the refinement, proved | `SuperGraph`, `CycleContract` |
| `SequenceSums_proofs` | lemmas: induction over the naturals, sums over sequences | used by `Telemetry_proofs` |
| `EventBus`, `MCEventBus`, `EventBus_proofs` | both buses, mixed, and Redis, several replicas | |
| `Blackboard`, `MCBlackboard`, `Blackboard_proofs` | searches, relations, commits, cohesion inputs and latest stats of clients that overlap | details of what `SuperGraph` writes |
| `RuntimeLifecycle`, `RuntimeLifecycle_proofs` | lifespan, lazy construction, fallback bus, jobs, shutdown | |
| `Telemetry`, `MCTelemetry`, `Telemetry_proofs` | the stats of cycles: snapshot, levels, scores, triggers, merge, audits, cohesion | numbers that `SuperGraph` leaves out |

An action is the code between two awaits, or several awaits without an effect
of their own. What callers cannot tell apart is abstracted: texts, record ids,
scores (except in `Telemetry`), and which words of an objective matched.

### SuperGraph

`frame[c]` is the point a cycle's task has reached:

| `pc` | Code |
|---|---|
| `idle` | not submitted |
| `boundary` | between two supersteps of LangGraph |
| `context` | `run` awaits `prepare_context` and the alignment checks |
| `work` | in `produce_artifacts` |
| `sandbox` | a sandbox command awaited |
| `effected` | the sandbox command ran, or the relation was merged |
| `approving` | the approval is in the bus' dictionary, `redis.set` awaited |
| `persist` | in `persist_outputs`, `written` artifacts committed |
| `returned`, `raised`, `lost` | over |

`state[c]` is the `GestaltGraphState`, with what routing and properties read:
the plan (`pending_agents` and whether it is set), `next_node`, decisions,
execution reports, approvals, the rows of merged artifacts, whether
`last_error` is a non-empty text, and the reports the summary lists. A report
is `told` when its failure has a text; `run` stores `str(exc)`, which is empty
for some exceptions, and the security audit skips an empty one. `blackboard[c]`
holds the durable rows a cycle wrote, each with the superstep that wrote it.
A superstep that runs again is a different one: record ids are fresh.

`Readings` is what telemetry may show, as the thresholds class it. The metrics
tool in the repository answers with constants; the runs use either those or
every reading. The model's answers (whom the analyzer recommends, whether the
planner wants more) are nondeterministic. The plan is made in the first
superstep of a cycle only, so `not state.execution_reports` always holds there
and the code's default plan of four agents is never used. The monitor can ask
for an audit only on findings of audits in its own state; every plan has it
before them (`MonitorsSeeNoAudit`), so that command is never emitted.

`sandboxes` are the commands whose process has not ended, each named by its
cycle and superstep. `wait_for` cancels `communicate()` at the timeout and
nothing kills the process, so the run fails and the command ends some time
later (`CommandEnds`), as it does after a cancellation; a death of the process
may or may not take the commands along. `Cancel` is the end of a cycle whose
job is cancelled: `run` catches no `CancelledError`, so neither a report nor a
state is left, but rows, tokens and the command are. `RejectReport` has the same
effect on a cycle whose report is refused because the wall clock stepped back
during the run: the report of that failure is refused too, and `run` raises.

LangGraph is outside `src/`; it is modelled by what `graph.py` asks of it:
supersteps in order, the conditional edge on the state the node returned, the
recursion limit, the validation of a pydantic state when a node is called
(`ValidatesNodeInput`, either way), an in-memory checkpointer nobody reads.

### EventBus

`approvals[r]` is the dictionary of replica `r`, `setting[r]` and `adding[r]`
are its calls that await Redis, `keys` and `stream["redis"]` are Redis, and
`stream[r]` the events of a memory bus. `remote[r]` tells which of the two
classes the replica has now: it starts with the configured one, and next to
SQLite `build_runtime` falls back to a memory bus when Redis does not answer
(`FallBack`). `publish` has no caller in the package, only in tests, so events
are offered freely. `issued`, `granted` and `life` are history.
`max_stream_length` is left out: trimming only removes events.

### Blackboard

A client is one use of the blackboard: a run of a specialist, which searches and
writes, or a reader (the API, the orchestrator). `tables` are the committed rows
of SQL in the order of their commits, `links` the relations in Neo4j. What a
step is follows the sessions: one statement or one insert with its commit.

| Action | Code |
|---|---|
| `Query`, then `Relate` | `query_memory`: rows of the window, ranking, limit; then the relations of the best match |
| `Build`, `Commit` | `produce_artifacts`, then `persist_outputs`, one table at a time |
| `Curate`, `LinkEntities` | knowledge: a memory from what its query found, the relation merged before the memory is stored |
| `CountStats`, `ReadAudits`, `ReadCommands` | `compute_cohesion_inputs` |
| `Watch` | `get_latest_stats`, again and again |

A row bears the instant its own object was built: `security_audit.py` stamps the
command, the report and the memory one after the other, the monitor its report
first, and each is committed later. So `draft` has a row for each table of the
run's plan, each with an instant of its own, and the instants are arbitrary:
nothing orders the clocks of replicas, and a clock may be set back within a run.
`AuditsComeWithCommands` therefore compares a missing command with the window by
the command's own instant, not by its audit's. A text is the set of query tokens it contains, the
phrases it contains and the metadata entries it has, which is what
`_score_memory` looks at. `Newest(rows, k)` and `Rankings` are sets: SQL and
`sort` leave the order of equal rows open. `lost` are the relations dropped
without the caller knowing: with SQLite or after a failed start there is no
driver, and the result of `session.run` is not consumed, so an error that Neo4j
reports late goes unseen. Such an error is not far-fetched: `metadata` is a map,
and Neo4j accepts no map as a property. Readers see the error only as missing
lineage, so `LineageIsComplete` excepts what was lost. The failure of a client
is not an action: a client that raises takes no further step, which every
prefix of a behaviour already has; the rows of failed runs are a matter of
`SuperGraph`.

### RuntimeLifecycle

Each task that calls `build_runtime` (the lifespan, or a request) names the
runtime it builds. `AsyncIOScheduler.shutdown` of APScheduler 3 only schedules
the shutdown on the loop, which then cancels running jobs: `stopping` is the
time in between. What a close awaits answers after that, as the loop is first
in, first out; that assumes the closes suspend at least once before the
blackboard is closed. With a memory bus, no graph driver and no idle pooled
connection they would await nothing, and the engine would have nothing to
release. A job ends in one step, cancelled or not. `ShutdownReleasesAll` is about
a shutdown that goes through: a close that raises ends `shutdown_runtime`, and
what comes after it stays open, as in the code (`CloseFails`). The server takes calls only between startup and shutdown of the
lifespan, if it runs one. Nothing makes a job end, so the behaviours include
those in which a cycle hangs for ever.

### Telemetry

One step per run of an agent, one cycle after another, with the numbers of
`stats.py`. `stats` has the five fields `_apply_state_update` takes over; `seen`
is the snapshot of the cycle's last monitor run and `commands` what it emitted;
`audits` are the newest rows of the blackboard, which outlive the cycle. The
optimizer's run keeps the route it proposed in `proposed`. With a mock
(`models.enable_mock_llm`, the default, or a `mock://` model) that is the route
the stats of its own state prefer. A real model is not told of that route and
answers with any text, which is proposed as it is: `ModelRoutes`, with 0 for a
text that names no route. Either kind of process may make any proposal, so what
is said of proposals is said of a mock's. Any
other run only adds a report (`Report`), and reports matter because the monitor
counts them as active cycles; a failed one overwrites the failure marker with
its text, even an empty one. Ratios are in percent and `int()` is `\div`:
compared with the code's floats for every latency up to 12000 ms and every
percentage, they differ only at 29, 57 and 58 percent, by one point, which no
instance uses. `blackboard_consistency` and `collaboration_success_rate` are the
constants the monitor reports. No command is ever stored as failed, so
`failed_commands` is 0. The risk of an audit is the suggested one in mock mode
and otherwise any of `ModelRisks`. That the monitor runs before every audit is
a guard here and an invariant of `SuperGraph` (`MonitorsSeeNoAudit`).

## 3. Runs

| Run | Instance | Shows |
|---|---|---|
| `supergraph_any` | 1 cycle of 8 request shapes, the longest plan (6 agents) included, all readings, 1 fault, Redis bus, validation at nodes | types, the inductive invariant (approvals precede runs, rows durable, orphans explained), unheld tokens were interrupted, END only when finalized or never routed, no audit precedes the monitor, sandbox commands outlive only broken runs, refinement of `CycleContract` |
| `supergraph_pair` | 2 cycles, curation and audit, expiry, 1 fault | the same on shared bus and blackboard; relations name stored memories |
| `supergraph_limit` | short plans, 8 faults, recursion limit 7 | reruns and the limit need orchestrator failures, failures reach audits, two commands of a cycle overlap only after two failures, refinement; with fairness, cycles end |
| `bus_replicas` | 2 replicas configured for one Redis, each of which may fall back, 1 token, 2 agents, pending calls, 1 close or crash each, 2 faults | signals had an unexpired approval of their own bus; a memory bus keeps them between its agents; keys outlive acknowledged approvals; a bus knows only tokens of its present life |
| `blackboard_clients` | 2 runs, 1 reader, 2 memories of earlier runs, 2 queries, windows of 1, clocks of 2 instants, Neo4j with lost relations | a search misses only what window and limit exclude; lineage is complete and acyclic; audits are scored with their commands unless commands at least as new fill the window; the latest stats never go back |
| `runtime_lifespan` | 3 calls, 2 jobs, 2 faults | one runtime, open while used, all released; with fairness, a shutdown that has begun ends |
| `telemetry_cycles` | shipped thresholds, 18 readings below, between and above them and one that is refused, 5 reports a cycle, 2 audits in the window, 2 answers of real models each for risk and route | scores in range; unchanged telemetry is quiet; a cycle's first monitor run always emits OPTIMIZE; nothing improves under worse telemetry; the monitor never emits AUDIT; only audits lower a summary's cohesion; a mocked optimizer proposes more than the low route exactly where its cycle's monitor saw strain |

`CHECK_DEADLOCK FALSE` is used where the system may rest: bus and blackboard are
passive, and the runtime after shutdown does nothing. `SuperGraph` is checked for
deadlock, with `Quiet` for a process whose cycles are all over.

Runs that find a violation. Each states a sentence of the repository:

| Run | Behaviour found |
|---|---|
| `claim_summary` | the first orchestrator run fails, there is no `next_node`, the graph ends and the state without summary is returned |
| `claim_expiry` | a finalized cycle older than an approval's lifetime raises in `model_validate` |
| `claim_optimizer` | the monitor emits OPTIMIZE, nothing routes to the optimizer |
| `claim_scope` | the Redis bus passes a signal between agents its token does not name |
| `claim_single` | without lifespan, two first requests build two runtimes |

*Bounds and why they suffice.* One cycle shows everything that is local to a
cycle; what cycles share (the bus' dictionary, memories to link) needs two.
`supergraph_limit` lets every
run fail, so that every order of failures and reruns of its plans occurs; one
fault suffices where a property is about a single broken run. A plan of six
agents takes 13 supersteps, below LangGraph's default limit of 25. A lifetime and a clock of one step distinguish before and after expiry
for the cycles; the bus has lifetimes shorter than and equal to the key's.
Three calls and two faults let a build fail, be retried and race with another.
Four reports before a monitor run raise the pressure from LOW to MODERATE by
themselves; a latency of 6000 ms with an error ratio of 100 % reaches all caps
at once. The average over two audits differs from a sum and from the newest.
In `blackboard_clients` a limit of 1 makes a window of 3, out of which the two
runs' memories push the best of the earlier ones; two instants for up to six rows
make ties, whose order is the database's, in every table. Two runs are enough for
one to curate what the other stores, for two reports committed in the opposite
order of their instants, and for one run's command between another's command
and report; a window of one command shows both ways an
audit may be covered.

*Fairness.* `SuperGraph`'s `FairSpec` has weak fairness on `Progress(c)`, the steps the event
loop takes for a cycle that has started. asyncio resumes a task whose awaited
call has answered or raised. That calls do answer or raise is an assumption on
the environment: no cycle has a timeout of its own, so a call that hangs stalls
it (listed as a hazard). No fairness is assumed of submission, failures,
crashes or the clock. `CyclesEnd` needs the recursion limit, since nothing else
bounds an orchestrator that keeps failing. `RuntimeLifecycle`'s `FairSpec` has
weak fairness on the scheduler's shutdown, which is on the loop already, and on
the closes, which answer or raise; it has none on the end of a job. Hence
`ShutdownCompletes` holds although jobs may hang.

## 4. Proofs

The theorems of `SuperGraph` hold for every set of cycles, requests and readings,
every limit, lifetime and bound, with the assumptions named in the module. All
come from `Invariance`, that is `Spec => []IInv`, whose two halves are proved
one after the other.

`SuperGraph_proofs` takes `LifecycleInv`, which is inductive alone
(`LifecycleInvariance`), and with it `TypeCorrect`, `RowsDurable`,
`OrphansExplained`, `CommandsExplained` and `ApprovedBeforeRun`. The properties
are not inductive; the invariant adds:

- `TokensInFlight`: while an approval is being registered it is in the bus, is
  the only one of the frame, and names the head of the plan. A route can then
  rely on it when the state takes it over, though other cycles moved meanwhile.
- `RowsInFlight`: what a run has committed is a prefix of what it emitted and
  the blackboard has no other rows of that superstep. The merge then adds only
  durable rows, and a failure leaves rows of its own superstep only.
- `ApprovalsCoverRoutes`: the routed and the active agent have an approval of
  an earlier superstep, even when a failed orchestrator run keeps a stale
  route.

The proof sorts the steps by effect (`StepShapes`: a move, leaving a node, a
write, an issue, a production, a crash), states what each effect changes as a
lemma, and takes each conjunct through these cases. `TypeStep` goes action by
action.

`SuperGraphRouting_proofs` takes `RoutingInv`, with `LifecycleInv` as a fact:

- `RoutesFollowPlans`: decisions and pending agents together are one plan of the
  request, and the graph alternates between the orchestrator and the agent of
  the latest route. It is what every other conjunct leans on, and it gives
  `EndExplained`. A plan has each agent once (`PlanDistinct`), the monitor
  first, which with `RowsComeFromAgents` gives `MonitorsComeFirst`.
- `RowsComeFromAgents`: what is being persisted is what the active agent emits.
  `LinksExplained` needs it, since the memory a relation names is the first
  artifact of the very run that linked it.
- `RerunsFollowFailures` and `CommandsComeFromPlanners`: between two runs of an
  agent the orchestrator failed. They give `OverlapsExplained`.
- `FailuresAreRemembered`: the marker that an audit looks at, for
  `FailuresRemediated`.
- `RunsAddUp`: reports, routes and failures counted against each other, for
  `RerunsBounded` and `LimitExplained`. The counts are cardinalities of sets of
  positions; `CountAppend` and `TallyAppend` say what one more report does.
- `UnheldTokensExplained` is inductive with the approvals of the first half.

`SuperGraphContract_proofs` proves the refinement, `ContractKept`: with `IInv`,
the initial states map to the contract's, and each step of a cycle maps to one of
the contract's actions or to a stutter. `ServedBefore` and `ServedAfter` say how
the count of answers, which the mapping reads off the latest report, moves with
it; a crash maps to `Abandon` for all live cycles at once.

`EventBus_proofs` proves, for any mix of backends and any number of replicas,
closes and crashes: `BusTypes`, `SignalsApproved` and `TokensKnown` from
`BusInv`, that a bus knows only what was registered with it in its present
life, which close, crash and pending calls must keep; `LocalSignalsScoped`, for
which an event must remember the life of its bus, since a crash forgets the
approval and the events together; and `KeysCovered`, by the way of an approval
through a pending `set` to its key, for every lifetime up to the key's.

`Blackboard_proofs` proves, for any clients, texts, queries, windows and clocks:
`LineageDurable`, `LineageFollowed`, `AuditsWithCommands` and `LatestMonotone`,
from `BlackboardInvariant`. The invariant is about order: a run links before it
stores, stores its memory before its command and its command before its report,
whatever instants they bear (`RunsKeepOrder`, `Prepared`), so who sees the later row can see the earlier one, and what a
client has read stays stored (`ReadsAreStored`). `NewestWindow` says what a full
window tells about a row that is not in it. A step of a client that only reads
is settled by `StepOfOne`; linking and committing touch the shared state and are
proved conjunct by conjunct.

`SearchesAreBest` needs a second invariant, `SearchInv`: no memory is stored
twice, so an id names one row (ids are primary keys, and the assumption on
`History` says so), and an answer is the best on the rows stored when it was
computed, which later commits leave in front of theirs (`AnswerKept`). That a
query computes such an answer is `QueryAnswersBest`: a ranking holds every row
of the window once (`RankingOrder`), what scores is a prefix of it (`Prefix`,
`MatchesAreFirst`), and what is outside of a window has a full window before it
(`NewestWindow`).

`RuntimeLifecycle_proofs` proves, for any calls, jobs, settings and failures:
`SingleRuntime` (with the lifespan; `claim_single` shows that it takes one),
`OpenRuntimes` and `ShutdownReleased`. The invariant says for each phase of a
build, a call and a shutdown what its runtime has; that no call is served when
the shutdown begins (`Quiesced`, a promise of the server) keeps the runtime
of a call running. `RuntimeTypes` is its typing.

`Telemetry_proofs` proves, for every reading and every threshold `config.py`
accepts, in whatever order: `NoReliefUnderStress`, `QuietWhenRepeated` and
`NeverIntervenes`, and `AlwaysDrifts` when the low queue threshold is at most 5
(it is 5 as shipped). `ProposalsExplained` needs `ThresholdsOrdered`, that higher
thresholds are not below lower ones: `config.py` does not demand it, the shipped
values have it, and without it a tier may rise while nothing is strained. It says nothing of a
real model's proposals, which no telemetry explains. Each
theorem needs `IInv`: the stats of a cycle are those derived from its last
snapshot, and a mock's proposal and a summary still are what the present stats
and audits give, since no step that changes these follows. Lemmas on the operators
give ranges (`DerivedType`), monotony (`DerivedMonotone`) and when a route is
more than low (`StrainRaisesRoute`).

`TelemetryTypes` and `SummariesReflectAudits` are about an average, a fold over
the audits. `SequenceSums_proofs` bounds such a fold for sequences of any length:
`Induction` is derived, for a set of numbers, from the well-foundedness of the
order of the naturals; by induction on their size the subsets of the sequence's
domain have a sum (`IterExists`), to which the fold unrolls (`FoldIter`), and
which is at most the greatest element times their number (`SumBounds`).

The inductive invariants of `Blackboard`, `RuntimeLifecycle` and `Telemetry` are
proved and not listed with a run; the properties they imply are.

Only model-checked: the liveness properties, `CyclesEnd` and
`ShutdownCompletes`, which need fairness and `ENABLED` and are out of the
prover's reach. Every safety and action property of a passing run has a theorem,
`ProposalsNeedAMonitor` and `FirstRunsDrift` under the named hypothesis on the
thresholds.

## 5. Not modelled

- `utils/retry.py`, the prompt overlays of the blackboard, `promote`, `demote`
  and `adjust` of the stats have no caller. `list_events` is called by tests
  only.
- The tool registry's allowlist and the validation of a payload come before a
  call and depend on the configuration alone: a refused call is one of the calls
  that raise. Timeouts, retries and `requires_approval` of a tool's descriptor
  are read by nobody. The Kubernetes and Prometheus tools answer with constants,
  the HTTP and Redis tools call one service.
- The model gateway: an answer is a choice where it matters (whom the analyzer
  recommends, an audit's risk, the optimizer's route). `select_model` is
  always given the agent's `model_preference`, so the stats' route never
  reaches it, and nothing reads the downgrade and guardrail flags of
  `derive_model_policy`.
- Settings parsing, logging, tracing, ids and the HTTP surface (authentication,
  response bodies) hold no state.
- Caller-supplied `metadata` may contain control keys (`scheduled_agent`,
  `force_audit` are modelled; a caller's own `pending_agents` or `next_node`
  are not).
- Approvals and a wall clock that steps back: the clock of expiry in `SuperGraph`
  and `EventBus` only goes forward. What such a clock does to a report is
  modelled, and the instants of `Blackboard` are arbitrary.

## 6. Plan

1. The composition of `RuntimeLifecycle` with `SuperGraph`, so that jobs are
   cycles; today `Cancel` stands for a stopping scheduler.
2. Proofs: for `CyclesEnd`, the safety part of its argument, that a cycle's
   supersteps and the steps within one decrease towards its end.
