------------------------ MODULE RuntimeLifecycle_proofs ------------------------
(***************************************************************************)
(* Theorems about RuntimeLifecycle, for any calls, jobs, settings and      *)
(* failures, and their proofs.                                             *)
(***************************************************************************)
EXTENDS RuntimeLifecycle, TLAPS

USE DEF Builders, Building, Closing, Live, Goto

LEMMA InitInvariant == Init => IInv
<1> SUFFICES ASSUME Init PROVE IInv
  OBVIOUS
<1>1. TypeOK
  BY FaultsAssumption DEF Init, TypeOK
<1>2. \A b \in Builders : BuildersKeepOrder(b)
  BY DEF Init, BuildersKeepOrder
<1>3. LifespanKeepsOrder /\ \A r \in Calls : CallsKeepOrder(r)
  BY DEF Init, LifespanKeepsOrder, CallsKeepOrder
<1> QED BY <1>1, <1>2, <1>3 DEF Init, IInv, OneRuntime

(* Where the invariant puts one builder.                                   *)
LEMMA Parts ==
  ASSUME IInv
  PROVE  /\ TypeOK /\ LifespanKeepsOrder
         /\ \A b \in Builders : BuildersKeepOrder(b)
         /\ \A r \in Calls : CallsKeepOrder(r)
         /\ "lifespan" \in Builders /\ "lifespan" \notin Calls
         /\ app # None => app \in Builders /\ scheduler[app] # "none"
         /\ Lifespan => OneRuntime
BY NamesAssumption DEF IInv, TypeOK

(* A builder that begins has nothing yet, and a server that runs the       *)
(* lifespan has no other builder.                                          *)
LEMMA BeginBuildStep ==
  ASSUME IInv, NEW b \in Builders, task[b] = "idle", BeginBuild(b),
         IF b = "lifespan" THEN Lifespan ELSE ~Lifespan
  PROVE  IInv'
<1> USE Parts
<1>1. TypeOK'
  BY DEF BeginBuild, TypeOK
<1>2. \A c \in Builders : BuildersKeepOrder(c)'
  BY DEF BeginBuild, TypeOK, BuildersKeepOrder, Usable
<1>3. LifespanKeepsOrder'
  BY DEF BeginBuild, TypeOK, LifespanKeepsOrder
<1>4. \A r \in Calls : CallsKeepOrder(r)'
  BY DEF BeginBuild, TypeOK, CallsKeepOrder
<1>5. (app # None => scheduler[app] # "none")' /\ (Lifespan => OneRuntime)'
  BY DEF BeginBuild, OneRuntime
<1> QED BY <1>1, <1>2, <1>3, <1>4, <1>5 DEF IInv

(* A runtime is handed out complete.                                       *)
LEMMA FinishStep ==
  ASSUME IInv, NEW b \in Builders, task[b] \in Building,
         NEW kind \in {"redis", "memory"}, Finish(b, kind)
  PROVE  IInv'
<1> USE Parts
<1>1. b = "lifespan" \/ (b \in Calls /\ ~Lifespan)
  BY DEF CallsKeepOrder
<1>2. TypeOK'
  BY DEF Finish, TypeOK
<1>3. \A c \in Builders : BuildersKeepOrder(c)'
  BY DEF Finish, TypeOK, BuildersKeepOrder, Usable
<1>4. LifespanKeepsOrder'
  BY <1>1 DEF Finish, TypeOK, LifespanKeepsOrder
<1>5. \A r \in Calls : CallsKeepOrder(r)'
  BY <1>1 DEF Finish, TypeOK, CallsKeepOrder, BuildersKeepOrder
<1>6. (app # None => scheduler[app] # "none")'
  BY DEF Finish, TypeOK
<1>7. (Lifespan => OneRuntime)'
  BY <1>1, <1>5 DEF Finish, TypeOK, OneRuntime, CallsKeepOrder
<1> QED BY <1>2, <1>3, <1>4, <1>5, <1>6, <1>7 DEF IInv

LEMMA BuildStep ==
  ASSUME IInv, NEW b \in Builders, Build(b)
  PROVE  IInv'
<1> USE Parts
<1>1. CASE BoardReady(b) /\ ~Redis
  BY <1>1, FinishStep DEF BoardReady
<1>2. CASE BusReady(b) \/ FallBack(b)
  BY <1>2, FinishStep DEF BusReady, FallBack
<1>3. CASE \/ BoardReady(b) /\ Redis
           \/ BusFails(b) \/ BoardFails(b)
  <2>1. /\ task[b] \in Building
        /\ \E pc \in Building \union {"failed"} : task' = [task EXCEPT ![b] = pc]
        /\ bus' = bus \/ bus' = [bus EXCEPT ![b] = "redis"]
        /\ UNCHANGED <<app, uses, board, scheduler, running>>
        /\ faults' \in 0 .. MaxFaults
    BY <1>3, FaultsAssumption DEF BoardReady, BusFails, BoardFails, Fault, TypeOK
  <2>2. b \in Calls => ~Lifespan
    BY <2>1 DEF CallsKeepOrder
  <2>3. TypeOK'
    BY <2>1 DEF TypeOK
  <2>4. \A c \in Builders : BuildersKeepOrder(c)'
    BY <2>1 DEF TypeOK, BuildersKeepOrder, Usable
  <2>5. LifespanKeepsOrder'
    BY <2>1, <2>2 DEF TypeOK, LifespanKeepsOrder
  <2>6. \A r \in Calls : CallsKeepOrder(r)'
    BY <2>1, <2>2 DEF TypeOK, CallsKeepOrder
  <2>7. (app # None => scheduler[app] # "none")' /\ (Lifespan => OneRuntime)'
    BY <2>1 DEF OneRuntime
  <2> QED BY <2>3, <2>4, <2>5, <2>6, <2>7 DEF IInv
<1> QED BY <1>1, <1>2, <1>3 DEF Build, BoardReady

(* What a request finds in app.state is running.                           *)
LEMMA CallStep ==
  ASSUME IInv, NEW r \in Calls, Call(r)
  PROVE  IInv'
<1> USE Parts
<1>1. CASE app = None
  <2>1. ~Lifespan
    BY <1>1, NamesAssumption DEF Call, LifespanKeepsOrder, OneRuntime
  <2> QED BY <1>1, <2>1, BeginBuildStep DEF Call, GetRuntime
<1>2. CASE app # None
  <2>1. /\ task[r] = "idle"
        /\ task' = [task EXCEPT ![r] = "serving"] /\ uses' = [uses EXCEPT ![r] = app]
        /\ UNCHANGED <<app, board, bus, scheduler, running, faults>>
    BY <1>2 DEF Call, GetRuntime
  <2>2. scheduler[app] = "running"
    <3>1. CASE app \in Calls
      BY <1>2, <3>1 DEF CallsKeepOrder
    <3>2. CASE app = "lifespan"
      BY <1>2, <3>2 DEF Call, BuildersKeepOrder, LifespanKeepsOrder
    <3> QED BY <1>2, <3>1, <3>2
  <2>3. TypeOK'
    BY <1>2, <2>1 DEF TypeOK
  <2>4. \A c \in Builders : BuildersKeepOrder(c)'
    BY <2>1 DEF TypeOK, BuildersKeepOrder, Usable
  <2>5. LifespanKeepsOrder'
    BY <2>1 DEF TypeOK, LifespanKeepsOrder
  <2>6. \A q \in Calls : CallsKeepOrder(q)'
    BY <1>2, <2>1, <2>2 DEF TypeOK, CallsKeepOrder
  <2>7. (app # None => scheduler[app] # "none")' /\ (Lifespan => OneRuntime)'
    BY <2>1 DEF OneRuntime
  <2> QED BY <2>3, <2>4, <2>5, <2>6, <2>7 DEF IInv
<1> QED BY <1>1, <1>2

LEMMA RespondStep ==
  ASSUME IInv, NEW r \in Calls, Respond(r)
  PROVE  IInv'
<1> USE Parts
<1>1. TypeOK'
  BY DEF Respond, TypeOK
<1>2. \A c \in Builders : BuildersKeepOrder(c)'
  BY DEF Respond, TypeOK, BuildersKeepOrder, Usable
<1>3. LifespanKeepsOrder'
  BY DEF Respond, TypeOK, LifespanKeepsOrder
<1>4. \A q \in Calls : CallsKeepOrder(q)'
  BY DEF Respond, TypeOK, CallsKeepOrder
<1>5. (app # None => scheduler[app] # "none")' /\ (Lifespan => OneRuntime)'
  BY DEF Respond, OneRuntime
<1> QED BY <1>1, <1>2, <1>3, <1>4, <1>5 DEF IInv

(* No call is being served when the shutdown begins.                       *)
LEMMA ShutdownStep ==
  ASSUME IInv, Shutdown
  PROVE  IInv'
<1> USE Parts
<1>1. /\ task["lifespan"] = "serving" /\ scheduler["lifespan"] = "running"
      /\ board["lifespan"] = "open" /\ bus["lifespan"] \in {"redis", "memory", "cleared"}
      /\ Lifespan
  BY DEF Shutdown, LifespanKeepsOrder, BuildersKeepOrder, Usable
<1>2. /\ scheduler' = [scheduler EXCEPT !["lifespan"] = "stopping"]
      /\ \/ /\ bus' = [bus EXCEPT !["lifespan"] = "cleared"]
            /\ task' = [task EXCEPT !["lifespan"] = "closing_board"]
         \/ bus' = bus /\ task' = [task EXCEPT !["lifespan"] = "closing_bus"]
      /\ UNCHANGED <<app, uses, board, running, faults>>
  BY DEF Shutdown, StopScheduler
<1>3. TypeOK'
  BY <1>2 DEF TypeOK
<1>4. \A c \in Builders : BuildersKeepOrder(c)'
  BY <1>1, <1>2 DEF TypeOK, BuildersKeepOrder, Usable
<1>5. LifespanKeepsOrder'
  BY <1>1, <1>2 DEF TypeOK, LifespanKeepsOrder
<1>6. \A q \in Calls : CallsKeepOrder(q)'
  <2>1. \A q \in Calls : task[q] # "serving"
    BY DEF Shutdown, Quiesced
  <2> QED BY <1>1, <1>2, <2>1 DEF TypeOK, CallsKeepOrder
<1>7. (app # None => scheduler[app] # "none")' /\ (Lifespan => OneRuntime)'
  BY <1>1, <1>2 DEF TypeOK, OneRuntime
<1> QED BY <1>3, <1>4, <1>5, <1>6, <1>7 DEF IInv

(* A stopped scheduler has no running jobs.                                *)
LEMMA SchedulerStopsStep ==
  ASSUME IInv, NEW b \in Builders, SchedulerStops(b)
  PROVE  IInv'
<1> USE Parts
<1>1. b = "lifespan"
  BY DEF SchedulerStops, CallsKeepOrder
<1>2. TypeOK'
  BY DEF SchedulerStops, TypeOK
<1>3. \A c \in Builders : BuildersKeepOrder(c)'
  BY DEF SchedulerStops, TypeOK, BuildersKeepOrder, Usable
<1>4. LifespanKeepsOrder'
  BY DEF SchedulerStops, TypeOK, LifespanKeepsOrder
<1>5. \A q \in Calls : CallsKeepOrder(q)'
  BY <1>1 DEF SchedulerStops, TypeOK, CallsKeepOrder
<1>6. (app # None => scheduler[app] # "none")' /\ (Lifespan => OneRuntime)'
  BY DEF SchedulerStops, TypeOK, OneRuntime
<1> QED BY <1>2, <1>3, <1>4, <1>5, <1>6 DEF IInv

(* What is closed belongs to a runtime whose scheduler has stopped.        *)
LEMMA CloseStep ==
  ASSUME IInv, BusCloses \/ BoardCloses \/ CloseFails
  PROVE  IInv'
<1> USE Parts
<1>1. /\ task["lifespan"] \in Closing
      /\ \E pc \in {"closing_board", "done", "failed"} :
           task' = [task EXCEPT !["lifespan"] = pc]
      /\ UNCHANGED <<app, uses, scheduler, running>>
      /\ faults' \in 0 .. MaxFaults
  BY FaultsAssumption DEF BusCloses, BoardCloses, CloseFails, Fault, TypeOK
<1>2. /\ \/ bus' = bus /\ board' = board
         \/ /\ scheduler["lifespan"] = "stopped" /\ running["lifespan"] = {}
            /\ \/ bus' = [bus EXCEPT !["lifespan"] = "closed"] /\ board' = board
               \/ board' = [board EXCEPT !["lifespan"] = "closed"] /\ bus' = bus
  BY <1>1 DEF BusCloses, BoardCloses, CloseFails, LifespanKeepsOrder, BuildersKeepOrder
<1>3. TypeOK'
  BY <1>1, <1>2 DEF TypeOK
<1>4. \A c \in Builders : BuildersKeepOrder(c)'
  BY <1>1, <1>2 DEF TypeOK, BuildersKeepOrder, Usable
<1>5. LifespanKeepsOrder'
  BY <1>1 DEF BusCloses, BoardCloses, CloseFails, TypeOK, LifespanKeepsOrder
<1>6. \A q \in Calls : CallsKeepOrder(q)'
  BY <1>1, <1>2 DEF TypeOK, CallsKeepOrder
<1>7. (app # None => scheduler[app] # "none")' /\ (Lifespan => OneRuntime)'
  BY <1>1 DEF OneRuntime
<1> QED BY <1>3, <1>4, <1>5, <1>6, <1>7 DEF IInv

(* Jobs run on a scheduler that has not stopped.                           *)
LEMMA JobStep ==
  ASSUME IInv, NEW b \in Builders, NEW j \in Jobs, JobStarts(b, j) \/ JobEnds(b, j)
  PROVE  IInv'
<1> USE Parts
<1>1. UNCHANGED <<app, task, uses, board, bus, scheduler, faults>>
  BY DEF JobStarts, JobEnds
<1>2. TypeOK'
  BY DEF JobStarts, JobEnds, TypeOK
<1>3. \A c \in Builders : BuildersKeepOrder(c)'
  BY DEF JobStarts, JobEnds, TypeOK, BuildersKeepOrder, Usable
<1>4. LifespanKeepsOrder' /\ \A q \in Calls : CallsKeepOrder(q)'
  BY <1>1 DEF LifespanKeepsOrder, CallsKeepOrder
<1>5. (app # None => scheduler[app] # "none")' /\ (Lifespan => OneRuntime)'
  BY <1>1 DEF OneRuntime
<1> QED BY <1>2, <1>3, <1>4, <1>5 DEF IInv

LEMMA StepInvariant ==
  ASSUME IInv, [Next]_vars
  PROVE  IInv'
<1>1. CASE UNCHANGED vars
  BY <1>1 DEF vars, IInv, TypeOK, BuildersKeepOrder, LifespanKeepsOrder, CallsKeepOrder,
              Usable, OneRuntime
<1>2. CASE StartLifespan
  BY <1>2, BeginBuildStep DEF StartLifespan
<1>3. CASE \E b \in Builders : Build(b) \/ SchedulerStops(b)
  BY <1>3, BuildStep, SchedulerStopsStep
<1>4. CASE \E r \in Calls : Call(r) \/ Respond(r)
  BY <1>4, CallStep, RespondStep
<1>5. CASE Shutdown \/ BusCloses \/ BoardCloses \/ CloseFails
  BY <1>5, ShutdownStep, CloseStep
<1>6. CASE \E b \in Builders, j \in Jobs : JobStarts(b, j) \/ JobEnds(b, j)
  BY <1>6, JobStep
<1> QED BY <1>1, <1>2, <1>3, <1>4, <1>5, <1>6 DEF Next

-------------------------------------------------------------------------------
(* The inductive invariant holds, with and without the lifespan.           *)
THEOREM RuntimeInvariant == Spec => []IInv
<1> QED BY InitInvariant, StepInvariant, PTL DEF Spec

(* Every variable keeps its type.                                          *)
THEOREM RuntimeTypes == Spec => []TypeOK
<1>1. IInv => TypeOK
  BY DEF IInv
<1> QED BY <1>1, RuntimeInvariant, PTL

(* A server that runs the lifespan never has a second runtime, however     *)
(* many calls come in.                                                     *)
THEOREM SingleRuntime == Spec => [](Lifespan => OneRuntime)
<1>1. IInv => (Lifespan => OneRuntime)
  BY DEF IInv
<1> QED BY <1>1, RuntimeInvariant, PTL

(* With and without the lifespan, calls and jobs only run on an open       *)
(* blackboard and a usable bus.                                            *)
THEOREM OpenRuntimes == Spec => []CyclesRunOnOpenRuntimes
<1>1. IInv => CyclesRunOnOpenRuntimes
  BY Parts, NamesAssumption DEF CyclesRunOnOpenRuntimes, BuildersKeepOrder, CallsKeepOrder
<1> QED BY <1>1, RuntimeInvariant, PTL

(* A shutdown that went through leaves nothing open.                       *)
THEOREM ShutdownReleased == Spec => []ShutdownReleasesAll
<1>1. IInv => ShutdownReleasesAll
  BY Parts DEF ShutdownReleasesAll, LifespanKeepsOrder, CallsKeepOrder
<1> QED BY <1>1, RuntimeInvariant, PTL

================================================================================
