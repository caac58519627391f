---------------------------- MODULE RuntimeLifecycle ----------------------------
(***************************************************************************)
(* The runtimes of one process: the server's lifespan builds one and shuts *)
(* it down, a request that finds none builds one itself, and the scheduler *)
(* of each runtime runs the four periodic jobs.  A step ends at an await;  *)
(* what build_runtime does after its last await, up to the assignment of   *)
(* app.state.runtime by its caller, is one step.                           *)
(*                                                                         *)
(* A runtime is named by the task that built it: no task builds two.       *)
(***************************************************************************)
EXTENDS Naturals, FiniteSets

CONSTANTS
  Calls,      (* requests to the API that need the runtime                  *)
  Jobs,       (* ids of the periodic jobs                                   *)
  None,       (* no runtime                                                 *)
  Lifespan,   (* the server runs the application's lifespan                 *)
  Redis,      (* the configured bus is Redis                                *)
  Sqlite,     (* the blackboard is SQLite                                   *)
  MaxFaults   (* bound: failed awaits                                       *)

Builders == Calls \union {"lifespan"}

ASSUME SettingsAssumption == Lifespan \in BOOLEAN /\ Redis \in BOOLEAN /\ Sqlite \in BOOLEAN
ASSUME NamesAssumption == None \notin Builders /\ "lifespan" \notin Calls
ASSUME FaultsAssumption == MaxFaults \in Nat

VARIABLES
  app,        (* app.state.runtime                                          *)
  task,       (* how far each task is                                       *)
  uses,       (* the runtime Depends(get_runtime) gave to each call         *)
  board,      (* the blackboard of each runtime: its engine and graph store *)
  bus,        (* the event bus of each runtime                              *)
  scheduler,  (* the scheduler of each runtime                              *)
  running,    (* jobs of each runtime with an instance running              *)
  faults

vars == <<app, task, uses, board, bus, scheduler, running, faults>>

Building == {"board", "bus", "fallback"}
Closing == {"closing_bus", "closing_board"}

TypeOK ==
  /\ app \in Builders \union {None}
  /\ task \in [Builders -> {"idle", "serving", "done", "failed"} \union Building \union Closing]
  /\ uses \in [Calls -> Builders \union {None}]
  /\ board \in [Builders -> {"none", "open", "closed"}]
  /\ bus \in [Builders -> {"none", "redis", "memory", "cleared", "closed"}]
  /\ scheduler \in [Builders -> {"none", "running", "stopping", "stopped"}]
  /\ running \in [Builders -> SUBSET Jobs]
  /\ faults \in 0 .. MaxFaults

Init ==
  /\ app = None
  /\ task = [b \in Builders |-> "idle"]
  /\ uses = [r \in Calls |-> None]
  /\ board = [b \in Builders |-> "none"]
  /\ bus = [b \in Builders |-> "none"]
  /\ scheduler = [b \in Builders |-> "none"]
  /\ running = [b \in Builders |-> {}]
  /\ faults = 0

Goto(b, pc) == task' = [task EXCEPT ![b] = pc]

Fault == faults < MaxFaults /\ faults' = faults + 1

-------------------------------------------------------------------------------
(* build_runtime.                                                          *)

(* The blackboard is created, its initialize awaited.                      *)
BeginBuild(b) ==
  /\ Goto(b, "board")
  /\ board' = [board EXCEPT ![b] = "open"]
  /\ UNCHANGED <<app, uses, bus, scheduler, running, faults>>

(* After the last await: the scheduler is started, and the caller puts the *)
(* runtime into app.state over whatever is there.                          *)
Finish(b, kind) ==
  /\ Goto(b, "serving")
  /\ bus' = [bus EXCEPT ![b] = kind]
  /\ scheduler' = [scheduler EXCEPT ![b] = "running"]
  /\ app' = b
  /\ uses' = IF b \in Calls THEN [uses EXCEPT ![b] = b] ELSE uses
  /\ UNCHANGED <<board, running, faults>>

(* A memory bus has nothing to await.                                      *)
BoardReady(b) ==
  /\ task[b] = "board"
  /\ IF Redis
     THEN /\ Goto(b, "bus")
          /\ bus' = [bus EXCEPT ![b] = "redis"]
          /\ UNCHANGED <<app, uses, board, scheduler, running, faults>>
     ELSE Finish(b, "memory")

BusReady(b) == task[b] = "bus" /\ Finish(b, "redis")

(* Only next to SQLite does the process go on without Redis: it closes the *)
(* bus, ignoring errors, and takes a memory bus.                           *)
BusFails(b) ==
  /\ task[b] = "bus"
  /\ Fault
  /\ Goto(b, IF Sqlite THEN "fallback" ELSE "failed")
  /\ UNCHANGED <<app, uses, board, bus, scheduler, running>>

FallBack(b) == task[b] = "fallback" /\ Finish(b, "memory")

(* blackboard.initialize raises: nobody closes what has been opened.       *)
BoardFails(b) ==
  /\ task[b] = "board"
  /\ Fault
  /\ Goto(b, "failed")
  /\ UNCHANGED <<app, uses, board, bus, scheduler, running>>

-------------------------------------------------------------------------------
(* The server.                                                             *)

StartLifespan ==
  /\ Lifespan
  /\ task["lifespan"] = "idle"
  /\ BeginBuild("lifespan")

GetRuntimeBuilding(r) ==  \* mistake: app.state.runtime is not looked at
  BeginBuild(r)

(* get_runtime: look at app.state, build when there is nothing.            *)
GetRuntime(r) ==
  IF app # None
  THEN /\ Goto(r, "serving")
       /\ uses' = [uses EXCEPT ![r] = app]
       /\ UNCHANGED <<app, board, bus, scheduler, running, faults>>
  ELSE BeginBuild(r)

(* A server that runs the lifespan takes calls from the end of its startup *)
(* to the beginning of its shutdown only.                                  *)
Call(r) ==
  /\ task[r] = "idle"
  /\ Lifespan => task["lifespan"] = "serving"
  /\ GetRuntime(r)

Respond(r) ==
  /\ task[r] = "serving"
  /\ Goto(r, "done")
  /\ UNCHANGED <<app, uses, board, bus, scheduler, running, faults>>

-------------------------------------------------------------------------------
(* shutdown_runtime, for the runtime the lifespan built.                   *)

Quiesced == \A r \in Calls : task[r] \notin Building \union {"serving"}

StopSchedulerLast(b) ==  \* mistake: the scheduler is not shut down before the rest
  UNCHANGED scheduler

StopSchedulerDropped(b) ==  \* mistake: the reference is reset, the scheduler goes on
  scheduler' = [scheduler EXCEPT ![b] = None]

(* AsyncIOScheduler.shutdown only puts the shutdown on the event loop.     *)
StopScheduler(b) == scheduler' = [scheduler EXCEPT ![b] = "stopping"]

(* The server has answered every call before it ends the lifespan.  The    *)
(* close of a memory bus has no await: it is over at once.                 *)
Shutdown ==
  /\ task["lifespan"] = "serving"
  /\ Quiesced
  /\ StopScheduler("lifespan")
  /\ IF bus["lifespan"] = "memory"
     THEN bus' = [bus EXCEPT !["lifespan"] = "cleared"] /\ Goto("lifespan", "closing_board")
     ELSE UNCHANGED bus /\ Goto("lifespan", "closing_bus")
  /\ UNCHANGED <<app, uses, board, running, faults>>

(* The scheduler stops, and cancels the jobs that are running.             *)
SchedulerStops(b) ==
  /\ scheduler[b] = "stopping"
  /\ scheduler' = [scheduler EXCEPT ![b] = "stopped"]
  /\ running' = [running EXCEPT ![b] = {}]
  /\ UNCHANGED <<app, task, uses, board, bus, faults>>

(* What close awaits answers after what the loop had to do before: the     *)
(* model assumes that the closes suspend once before the blackboard is      *)
(* closed.  A memory bus, no graph driver and no idle pooled connection     *)
(* would leave them nothing to await, and the engine nothing to release.    *)
BusCloses ==
  /\ task["lifespan"] = "closing_bus"
  /\ scheduler["lifespan"] # "stopping"
  /\ bus' = [bus EXCEPT !["lifespan"] = "closed"]
  /\ Goto("lifespan", "closing_board")
  /\ UNCHANGED <<app, uses, board, scheduler, running, faults>>

BoardCloses ==
  /\ task["lifespan"] = "closing_board"
  /\ scheduler["lifespan"] # "stopping"
  /\ board' = [board EXCEPT !["lifespan"] = "closed"]
  /\ Goto("lifespan", "done")
  /\ UNCHANGED <<app, uses, bus, scheduler, running, faults>>

(* A close that raises ends the shutdown there.                            *)
CloseFails ==
  /\ task["lifespan"] \in Closing
  /\ Fault
  /\ Goto("lifespan", "failed")
  /\ UNCHANGED <<app, uses, board, bus, scheduler, running>>

-------------------------------------------------------------------------------
(* The jobs: run_cycle with the runtime of the scheduler.  A job that is   *)
(* due while an instance of it runs is skipped (max_instances=1).          *)
JobStarts(b, j) ==
  /\ scheduler[b] \in {"running", "stopping"}
  /\ j \notin running[b]
  /\ running' = [running EXCEPT ![b] = @ \union {j}]
  /\ UNCHANGED <<app, task, uses, board, bus, scheduler, faults>>

JobEnds(b, j) ==
  /\ j \in running[b]
  /\ running' = [running EXCEPT ![b] = @ \ {j}]
  /\ UNCHANGED <<app, task, uses, board, bus, scheduler, faults>>

Build(b) == BoardReady(b) \/ BusReady(b) \/ BusFails(b) \/ FallBack(b) \/ BoardFails(b)

Next ==
  \/ StartLifespan
  \/ \E b \in Builders : Build(b) \/ SchedulerStops(b)
  \/ \E r \in Calls : Call(r) \/ Respond(r)
  \/ Shutdown \/ BusCloses \/ BoardCloses \/ CloseFails
  \/ \E b \in Builders, j \in Jobs : JobStarts(b, j) \/ JobEnds(b, j)

Spec == Init /\ [][Next]_vars

(* The loop runs what it was handed, and what close awaits answers or      *)
(* raises.  Nothing makes a job end: its cycle has no timeout, and an      *)
(* awaited call in it may never answer.                                    *)
Fairness ==
  /\ WF_vars(SchedulerStops("lifespan"))
  /\ WF_vars(BusCloses \/ CloseFails)
  /\ WF_vars(BoardCloses \/ CloseFails)

FairSpec == Spec /\ Fairness

-------------------------------------------------------------------------------
(* The process has one runtime: all that ever schedules jobs is the one    *)
(* that requests find in app.state, so no job id has two instances.        *)
OneRuntime == \A b \in Builders : scheduler[b] # "none" => app = b

(* Whoever runs cycles, a call or a job, does so on an open blackboard and *)
(* a bus that is open, or a memory bus, which close only empties: nothing  *)
(* is handed out before it is ready, nothing is closed under a cycle.      *)
Usable(b) == board[b] = "open" /\ bus[b] \in {"redis", "memory", "cleared"}

CyclesRunOnOpenRuntimes ==
  /\ \A r \in Calls : task[r] = "serving" => uses[r] # None /\ Usable(uses[r])
  /\ \A b \in Builders : running[b] # {} => Usable(b)

(* A shutdown that went through leaves nothing behind: no scheduler runs   *)
(* and no bus or blackboard of any runtime of the process is open.         *)
ShutdownReleasesAll ==
  task["lifespan"] = "done" =>
    \A b \in Builders : /\ scheduler[b] \in {"none", "stopped"}
                        /\ board[b] # "open"
                        /\ bus[b] \in {"none", "cleared", "closed"}

(* A shutdown that has begun ends, and every job with it: a cycle that     *)
(* hangs starves its own job for as long as the scheduler runs, but it is  *)
(* cancelled and does not hold the process up.                             *)
ShutdownCompletes ==
  task["lifespan"] \in Closing
    ~> task["lifespan"] \in {"done", "failed"} /\ running["lifespan"] = {}

-------------------------------------------------------------------------------
(* The inductive invariant.                                                *)
Live == {"running", "stopping"}

(* Where a builder is tells what its runtime has.                          *)
BuildersKeepOrder(b) ==
  /\ task[b] \in {"idle"} \union Building => scheduler[b] = "none"
  /\ task[b] \in Building => board[b] = "open"
  /\ scheduler[b] \in Live => Usable(b)
  /\ running[b] # {} => scheduler[b] \in Live

LifespanKeepsOrder ==
  /\ task["lifespan"] # "idle" => Lifespan
  /\ task["lifespan"] = "serving" => scheduler["lifespan"] = "running"
  /\ task["lifespan"] \in Closing => scheduler["lifespan"] \in {"stopping", "stopped"}
  /\ task["lifespan"] = "closing_board" => bus["lifespan"] \in {"cleared", "closed"}
  /\ task["lifespan"] = "done" => /\ scheduler["lifespan"] = "stopped"
                                  /\ board["lifespan"] = "closed"
                                  /\ bus["lifespan"] \in {"cleared", "closed"}

(* What requests are given is running; it is shut down when none is left.  *)
CallsKeepOrder(r) ==
  /\ scheduler[r] \in {"none", "running"}
  /\ task[r] = "serving" => uses[r] \in Builders /\ scheduler[uses[r]] = "running"
  /\ Lifespan => /\ task[r] \notin Building
                 /\ scheduler[r] = "none" /\ board[r] = "none" /\ bus[r] = "none"

IInv ==
  /\ TypeOK
  /\ \A b \in Builders : BuildersKeepOrder(b)
  /\ LifespanKeepsOrder
  /\ \A r \in Calls : CallsKeepOrder(r)
  /\ app # None => scheduler[app] # "none"
  /\ Lifespan => OneRuntime

===============================================================================
