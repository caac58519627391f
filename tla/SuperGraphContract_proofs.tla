----------------------- MODULE SuperGraphContract_proofs -----------------------
(***************************************************************************)
(* The super-graph keeps the contract of a cycle: every behaviour of       *)
(* SuperGraph, seen through the mapping at its end, is one of              *)
(* CycleContract, for every set of cycles, requests and readings and every *)
(* bound.                                                                  *)
(***************************************************************************)
EXTENDS SuperGraphRouting_proofs

(* The agents a cycle is committed to: those routed to and those pending.    *)
PlanOf(c) == SubSeq(state[c].decisions, 1, RoutedCount(c)) \o state[c].pending

(* The variables of the contract.                                            *)
PhaseMap == [c \in Cycles |-> Phase(c)]
PlanMap == [c \in Cycles |-> PlanOf(c)]
RoutedMap == [c \in Cycles |-> RoutedCount(c)]
ServedMap == [c \in Cycles |-> ServedCount(c)]

-------------------------------------------------------------------------------
(* The mapping in the states that matter.                                    *)

(* Before the summary, every decision is a route.                            *)
LEMMA OpenPlan ==
  ASSUME NEW D, NEW P, NEW S, D \in Seq(S), P \in Seq(S)
  PROVE  /\ SubSeq(D, 1, Len(D)) \o P = D \o P
         /\ \A x \in S : SubSeq(Append(D, x), 1, Len(D)) \o P = D \o P
         /\ D \o <<>> = D
<1>1. Len(D) \in Nat
  OBVIOUS
<1>2. SubSeq(D, 1, Len(D)) = D
  OBVIOUS
<1>3. ASSUME NEW x \in S
      PROVE  SubSeq(Append(D, x), 1, Len(D)) = D
  OBVIOUS
<1>4. D \o <<>> = D
  OBVIOUS
<1> QED BY <1>2, <1>3, <1>4

(* The decision that concludes is none of the plan's.                        *)
LEMMA DecisionAfterPlan ==
  ASSUME NEW S, NEW q \in Seq(S), NEW r \in Seq(S), NEW x \in S
  PROVE  SubSeq(Append(q, x), 1, Len(q)) \o r = q \o r
<1>1. SubSeq(Append(q, x), 1, Len(q)) = q
  OBVIOUS
<1> QED BY <1>1

(* The orchestrator is active only when every agent routed to has answered,  *)
(* a specialist when at most the latest has not.                             *)
LEMMA ServedBefore ==
  ASSUME TypeOK, RoutesFollowPlans, NEW c \in Cycles, frame[c].node \in Nodes
  PROVE  /\ state[c].summary = <<>>
         /\ RoutedCount(c) = Len(state[c].decisions) /\ Len(state[c].decisions) \in Nat
         /\ frame[c].node = "orchestrator" => ServedCount(c) = RoutedCount(c)
         /\ frame[c].node \in Specialists =>
              /\ RoutedCount(c) \in Nat \ {0}
              /\ ServedCount(c) \in {RoutedCount(c), RoutedCount(c) - 1}
<1>1. /\ "orchestrator" \notin Specialists /\ "__end__" \notin Specialists
      /\ frame[c].node \in Specialists \/ frame[c].node = "orchestrator"
  BY DEF Specialists, Nodes
<1>2. state[c].summary = <<>>
  BY <1>1, StateType DEF RoutesFollowPlans, GraphState
<1>3. state[c].decisions \in Seq(Specialists \union {"finalize"})
  BY StateType DEF GraphState
<1>4. RoutedCount(c) = Len(state[c].decisions) /\ Len(state[c].decisions) \in Nat
  BY <1>2, <1>3 DEF RoutedCount
<1>5. CASE frame[c].node = "orchestrator"
  <2>1. state[c].reports = <<>> \/ state[c].reports[Len(state[c].reports)].agent \in Specialists
    BY <1>1, <1>2, <1>5, StateType DEF RoutesFollowPlans, GraphState
  <2>2. ServedCount(c) = RoutedCount(c)
    BY <1>1, <2>1 DEF ServedCount
  <2> QED BY <1>1, <1>2, <1>4, <1>5, <2>2
<1>6. CASE frame[c].node \in Specialists
  <2>1. state[c].planned
    BY <1>6, ActiveIsRouted
  <2>2. Len(state[c].decisions) \in Nat \ {0}
    BY <1>2, <2>1, DecisionsStartPlan
  <2>3. ServedCount(c) \in {RoutedCount(c), RoutedCount(c) - 1}
    BY DEF ServedCount
  <2> QED BY <1>1, <1>2, <1>4, <1>6, <2>2, <2>3
<1> QED BY <1>1, <1>5, <1>6

(* A report is appended: the latest route is answered unless the report is   *)
(* the route's own.                                                          *)
LEMMA ServedAfter ==
  ASSUME TypeOK, TokensInFlight, NEW c \in Cycles, Leaves(c)
  PROVE  /\ state'[c].summary # <<>> => ServedCount(c)' = RoutedCount(c)'
         /\ frame[c].node # "orchestrator" => ServedCount(c)' = RoutedCount(c)'
         /\ state'[c].reports[Run(c)].status # "completed" => ServedCount(c)' = RoutedCount(c)'
         /\ ( /\ state'[c].summary = <<>> /\ frame[c].node = "orchestrator"
              /\ state'[c].reports[Run(c)].status = "completed" )
              => ServedCount(c)' = RoutedCount(c)' - 1
<1>1. /\ Len(state'[c].reports) = Run(c) /\ Run(c) \in Nat \ {0}
      /\ state'[c].reports[Run(c)].agent = frame[c].node
  BY EarlierReports
<1>2. state'[c].reports # <<>>
  BY <1>1
<1> QED BY <1>1, <1>2 DEF ServedCount

(* A cycle is live while its task runs.                                      *)
LEMMA PhaseOfTask ==
  \A c \in Cycles :
    /\ frame[c].pc = "idle" => Phase(c) = "waiting"
    /\ frame[c].pc \in Running =>
         Phase(c) = IF state[c].summary = <<>> THEN "open" ELSE "concluded"
    /\ frame[c].pc \in Over =>
         Phase(c) = IF frame[c].pc = "returned" /\ state[c].summary # <<>>
                    THEN "ended" ELSE "abandoned"
<1>1. "idle" \notin Running /\ "idle" \notin Over /\ Running \intersect Over = {}
  BY DEF Running, Over
<1> QED BY <1>1 DEF Phase

(* What the mapping makes of the cycles a step does not touch, and of one    *)
(* that it does.                                                             *)
LEMMA OneCycle ==
  ASSUME NEW c \in Cycles, \A d \in Cycles \ {c} : state'[d] = state[d] /\ frame'[d] = frame[d]
  PROVE  /\ PhaseMap' = [PhaseMap EXCEPT ![c] = Phase(c)']
         /\ PlanMap' = [PlanMap EXCEPT ![c] = PlanOf(c)']
         /\ RoutedMap' = [RoutedMap EXCEPT ![c] = RoutedCount(c)']
         /\ ServedMap' = [ServedMap EXCEPT ![c] = ServedCount(c)']
<1>1. ASSUME NEW d \in Cycles, d # c
      PROVE  /\ Phase(d)' = Phase(d) /\ RoutedCount(d)' = RoutedCount(d)
             /\ ServedCount(d)' = ServedCount(d)
  BY <1>1 DEF Phase, RoutedCount, ServedCount
<1>2. ASSUME NEW d \in Cycles, d # c
      PROVE  PlanOf(d)' = PlanOf(d)
  BY <1>1, <1>2 DEF PlanOf
<1> QED BY <1>1, <1>2 DEF PhaseMap, PlanMap, RoutedMap, ServedMap

LEMMA SameStates ==
  ASSUME state' = state
  PROVE  PlanMap' = PlanMap /\ RoutedMap' = RoutedMap /\ ServedMap' = ServedMap
BY DEF PlanMap, RoutedMap, ServedMap, PlanOf, RoutedCount, ServedCount

-------------------------------------------------------------------------------
(* Steps.                                                                    *)

(* A step of one cycle, as what it makes of the cycle's four variables.      *)
LEMMA StepOfOne ==
  ASSUME NEW c \in Cycles, \A d \in Cycles \ {c} : state'[d] = state[d] /\ frame'[d] = frame[d]
  PROVE  /\ ( /\ Phase(c)' = Phase(c) /\ PlanOf(c)' = PlanOf(c)
              /\ RoutedCount(c)' = RoutedCount(c) /\ ServedCount(c)' = ServedCount(c) )
              => UNCHANGED Contract!vars
         /\ ( /\ Phase(c) = "waiting" /\ Phase(c)' = "open" /\ PlanOf(c)' = PlanOf(c)
              /\ RoutedCount(c)' = RoutedCount(c) /\ ServedCount(c)' = ServedCount(c) )
              => Contract!Start(c)
         /\ ( /\ Phase(c) = "open" /\ Phase(c)' = "open"
              /\ PlanOf(c) = <<>> /\ PlanOf(c)' \in Plans
              /\ RoutedCount(c)' = 1 /\ ServedCount(c)' = ServedCount(c) )
              => Contract!Commit(c)
         /\ ( /\ Phase(c) = "open" /\ Phase(c)' = "open" /\ PlanOf(c)' = PlanOf(c)
              /\ ServedCount(c) = RoutedCount(c) /\ RoutedCount(c) < Len(PlanOf(c))
              /\ RoutedCount(c)' = RoutedCount(c) + 1 /\ ServedCount(c)' = ServedCount(c) )
              => Contract!Activate(c)
         /\ ( /\ Phase(c) = "open" /\ Phase(c)' = "open" /\ PlanOf(c)' = PlanOf(c)
              /\ ServedCount(c) < RoutedCount(c)
              /\ RoutedCount(c)' = RoutedCount(c) /\ ServedCount(c)' = ServedCount(c) + 1 )
              => Contract!Answer(c)
         /\ ( /\ Phase(c) = "open" /\ Phase(c)' = "concluded"
              /\ PlanOf(c) # <<>> /\ PlanOf(c)' = PlanOf(c)
              /\ ServedCount(c) = RoutedCount(c) /\ RoutedCount(c) = Len(PlanOf(c))
              /\ RoutedCount(c)' = RoutedCount(c) /\ ServedCount(c)' = ServedCount(c) )
              => Contract!Conclude(c)
         /\ ( /\ Phase(c) = "concluded" /\ Phase(c)' = "ended" /\ PlanOf(c)' = PlanOf(c)
              /\ RoutedCount(c)' = RoutedCount(c) /\ ServedCount(c)' = ServedCount(c) )
              => Contract!End(c)
<1>1. /\ PhaseMap[c] = Phase(c) /\ PlanMap[c] = PlanOf(c)
      /\ RoutedMap[c] = RoutedCount(c) /\ ServedMap[c] = ServedCount(c)
  BY DEF PhaseMap, PlanMap, RoutedMap, ServedMap
<1>2. /\ PhaseMap' = [PhaseMap EXCEPT ![c] = Phase(c)']
      /\ PlanMap' = [PlanMap EXCEPT ![c] = PlanOf(c)']
      /\ RoutedMap' = [RoutedMap EXCEPT ![c] = RoutedCount(c)']
      /\ ServedMap' = [ServedMap EXCEPT ![c] = ServedCount(c)']
  BY OneCycle
<1>3. /\ Phase(c)' = Phase(c) => PhaseMap' = PhaseMap
      /\ PlanOf(c)' = PlanOf(c) => PlanMap' = PlanMap
      /\ RoutedCount(c)' = RoutedCount(c) => RoutedMap' = RoutedMap
      /\ ServedCount(c)' = ServedCount(c) => ServedMap' = ServedMap
  BY <1>1, <1>2 DEF PhaseMap, PlanMap, RoutedMap, ServedMap
<1>4. ASSUME Phase(c)' = Phase(c), PlanOf(c)' = PlanOf(c), RoutedCount(c)' = RoutedCount(c),
             ServedCount(c)' = ServedCount(c)
      PROVE  UNCHANGED Contract!vars
  <2>1. UNCHANGED <<PhaseMap, PlanMap, RoutedMap, ServedMap>>
    BY <1>3, <1>4
  <2> QED BY <2>1 DEF Contract!vars, PhaseMap, PlanMap, RoutedMap, ServedMap, PlanOf
<1>5. /\ ( /\ PhaseMap[c] = "waiting" /\ PhaseMap' = [PhaseMap EXCEPT ![c] = "open"]
           /\ PlanMap' = PlanMap /\ RoutedMap' = RoutedMap /\ ServedMap' = ServedMap )
           => Contract!Start(c)
      /\ ( /\ PhaseMap[c] = "concluded" /\ PhaseMap' = [PhaseMap EXCEPT ![c] = "ended"]
           /\ PlanMap' = PlanMap /\ RoutedMap' = RoutedMap /\ ServedMap' = ServedMap )
           => Contract!End(c)
  BY DEF Contract!Start, Contract!End, PhaseMap, PlanMap, RoutedMap, ServedMap, PlanOf
<1>6. ASSUME PhaseMap[c] = "open", PlanMap[c] = <<>>, PlanOf(c)' \in Plans,
             PlanMap' = [PlanMap EXCEPT ![c] = PlanOf(c)'],
             RoutedMap' = [RoutedMap EXCEPT ![c] = 1],
             PhaseMap' = PhaseMap, ServedMap' = ServedMap
      PROVE  Contract!Commit(c)
  <2>1. \E p \in Plans : PlanMap' = [PlanMap EXCEPT ![c] = p]
    BY <1>6
  <2> QED BY <1>6, <2>1 DEF Contract!Commit, PhaseMap, PlanMap, RoutedMap, ServedMap, PlanOf
<1>7. ASSUME PhaseMap[c] = "open", ServedMap[c] = RoutedMap[c], RoutedMap[c] < Len(PlanMap[c]),
             RoutedMap' = [RoutedMap EXCEPT ![c] = RoutedMap[c] + 1],
             PhaseMap' = PhaseMap, PlanMap' = PlanMap, ServedMap' = ServedMap
      PROVE  Contract!Activate(c)
  BY <1>7 DEF Contract!Activate, PhaseMap, PlanMap, RoutedMap, ServedMap, PlanOf
<1>8. ASSUME PhaseMap[c] = "open", ServedMap[c] < RoutedMap[c],
             ServedMap' = [ServedMap EXCEPT ![c] = ServedMap[c] + 1],
             PhaseMap' = PhaseMap, PlanMap' = PlanMap, RoutedMap' = RoutedMap
      PROVE  Contract!Answer(c)
  BY <1>8 DEF Contract!Answer, PhaseMap, PlanMap, RoutedMap, ServedMap, PlanOf
<1>9. ASSUME PhaseMap[c] = "open", PlanMap[c] # <<>>, ServedMap[c] = RoutedMap[c],
             RoutedMap[c] = Len(PlanMap[c]), PhaseMap' = [PhaseMap EXCEPT ![c] = "concluded"],
             PlanMap' = PlanMap, RoutedMap' = RoutedMap, ServedMap' = ServedMap
      PROVE  Contract!Conclude(c)
  BY <1>9 DEF Contract!Conclude, PhaseMap, PlanMap, RoutedMap, ServedMap, PlanOf
<1>10. /\ ( /\ Phase(c) = "waiting" /\ Phase(c)' = "open" /\ PlanOf(c)' = PlanOf(c)
            /\ RoutedCount(c)' = RoutedCount(c) /\ ServedCount(c)' = ServedCount(c) )
            => Contract!Start(c)
       /\ ( /\ Phase(c) = "concluded" /\ Phase(c)' = "ended" /\ PlanOf(c)' = PlanOf(c)
            /\ RoutedCount(c)' = RoutedCount(c) /\ ServedCount(c)' = ServedCount(c) )
            => Contract!End(c)
  BY <1>1, <1>2, <1>3, <1>5
<1>11. ( /\ Phase(c) = "open" /\ Phase(c)' = "open"
         /\ PlanOf(c) = <<>> /\ PlanOf(c)' \in Plans
         /\ RoutedCount(c)' = 1 /\ ServedCount(c)' = ServedCount(c) )
         => Contract!Commit(c)
  BY <1>1, <1>2, <1>3, <1>6
<1>12. /\ ( /\ Phase(c) = "open" /\ Phase(c)' = "open" /\ PlanOf(c)' = PlanOf(c)
            /\ ServedCount(c) = RoutedCount(c) /\ RoutedCount(c) < Len(PlanOf(c))
            /\ RoutedCount(c)' = RoutedCount(c) + 1 /\ ServedCount(c)' = ServedCount(c) )
            => Contract!Activate(c)
       /\ ( /\ Phase(c) = "open" /\ Phase(c)' = "open" /\ PlanOf(c)' = PlanOf(c)
            /\ ServedCount(c) < RoutedCount(c)
            /\ RoutedCount(c)' = RoutedCount(c) /\ ServedCount(c)' = ServedCount(c) + 1 )
            => Contract!Answer(c)
  BY <1>1, <1>2, <1>3, <1>7, <1>8
<1>13. ( /\ Phase(c) = "open" /\ Phase(c)' = "concluded"
         /\ PlanOf(c) # <<>> /\ PlanOf(c)' = PlanOf(c)
         /\ ServedCount(c) = RoutedCount(c) /\ RoutedCount(c) = Len(PlanOf(c))
         /\ RoutedCount(c)' = RoutedCount(c) /\ ServedCount(c)' = ServedCount(c) )
         => Contract!Conclude(c)
  BY <1>1, <1>2, <1>3, <1>9
<1> QED BY <1>4, <1>10, <1>11, <1>12, <1>13

(* Leaving a node: a route commits or activates, the summary concludes, the  *)
(* first report of the active agent answers, every other failure stutters.   *)
LEMMA LeavesContract ==
  ASSUME TypeOK, TokensInFlight, RowsInFlight, RoutesFollowPlans, NEW c \in Cycles, Leaves(c)
  PROVE  \/ UNCHANGED Contract!vars
         \/ Contract!Commit(c) \/ Contract!Activate(c) \/ Contract!Answer(c)
         \/ Contract!Conclude(c)
<1> DEFINE D == state[c].decisions
           P == state[c].pending
<1>1. \A d \in Cycles \ {c} : state'[d] = state[d] /\ frame'[d] = frame[d]
  BY LeavesEffect
<1>2. /\ frame[c].node \in Nodes /\ frame[c].pc \in Running
      /\ frame'[c].pc = "boundary" /\ "boundary" \in Running
  BY LeavesFrame DEF Running
<1>3. /\ state[c].summary = <<>> /\ RoutedCount(c) = Len(D) /\ Len(D) \in Nat
      /\ frame[c].node = "orchestrator" => ServedCount(c) = RoutedCount(c)
      /\ frame[c].node \in Specialists =>
           /\ RoutedCount(c) \in Nat \ {0}
           /\ ServedCount(c) \in {RoutedCount(c), RoutedCount(c) - 1}
  BY <1>2, ServedBefore
<1>4. Phase(c) = "open"
  BY <1>2, <1>3, PhaseOfTask
<1>5. Phase(c)' = IF state'[c].summary = <<>> THEN "open" ELSE "concluded"
  <2>1. PhaseOfTask'
    BY PhaseOfTask, PTL
  <2> QED BY <1>2, <2>1 DEF PhaseOfTask, Running
<1>6. D \in Seq(Specialists \union {"finalize"}) /\ P \in Seq(Specialists \union {"finalize"})
  BY StateType DEF GraphState
<1>7. PlanOf(c) = D \o P
  <2>1. SubSeq(D, 1, Len(D)) \o P = D \o P
    BY <1>6, OpenPlan
  <2> QED BY <1>3, <2>1 DEF PlanOf
<1>8. frame[c].node \in Specialists \/ frame[c].node = "orchestrator"
  BY <1>2 DEF Nodes
<1>9. "orchestrator" \notin Specialists
  BY DEF Specialists
<1>10. ASSUME state'[c].decisions = D, state'[c].pending = P,
              state'[c].summary = state[c].summary,
              frame[c].node \in Specialists \/ state'[c].reports[Run(c)].status = "failed"
       PROVE  UNCHANGED Contract!vars \/ Contract!Answer(c)
  <2>1. RoutedCount(c)' = RoutedCount(c) /\ PlanOf(c)' = PlanOf(c) /\ Phase(c)' = Phase(c)
    BY <1>3, <1>4, <1>5, <1>10 DEF RoutedCount, PlanOf
  <2>2. ServedCount(c)' = RoutedCount(c)'
    BY <1>9, <1>10, ServedAfter
  <2>3. CASE ServedCount(c) = RoutedCount(c)
    BY <1>1, <2>1, <2>2, <2>3, StepOfOne
  <2>4. CASE frame[c].node \in Specialists /\ ServedCount(c) = RoutedCount(c) - 1
    <3>1. ServedCount(c) < RoutedCount(c) /\ ServedCount(c)' = ServedCount(c) + 1
      BY <1>3, <2>1, <2>2, <2>4
    <3> QED BY <1>1, <1>4, <2>1, <3>1, StepOfOne
  <2> QED BY <1>3, <1>8, <2>3, <2>4
<1>11. CASE Failed(c)
  <2>1. state'[c].reports[Run(c)].status = "failed"
    BY <1>11, ReportedFields DEF Failed
  <2> QED BY <1>10, <1>11, <2>1 DEF Failed
<1>12. CASE CompleteRun(c)
  <2>1. frame[c].node \in Specialists
    BY <1>12 DEF RowsInFlight, CompleteRun, InNode
  <2> QED BY <1>10, <1>12, <2>1, CompleteFields
<1>13. CASE Route(c)
  <2> DEFINE h == Head(PendingAgents(c))
             rest == Tail(PendingAgents(c))
  <2>1. /\ frame[c].node = "orchestrator" /\ PendingAgents(c) # <<>> /\ h \in Specialists
        /\ state'[c].pending = rest /\ state'[c].decisions = Append(D, h)
        /\ state'[c].summary = <<>>
    BY <1>3, <1>13, RouteFields
  <2>2. state'[c].reports[Run(c)].status = "completed"
    <3>1. PICK told \in BOOLEAN : state'[c].reports = Reported(c, "completed", told)
      BY <1>13, RouteFields
    <3> QED BY <3>1, ReportedFields
  <2>3. /\ PendingAgents(c) = <<h>> \o rest
        /\ PendingAgents(c) \in Seq(Specialists \union {"finalize", "unlisted"})
        /\ rest \in Seq(Specialists \union {"finalize", "unlisted"})
    <3>1. PendingAgents(c) \in Seq(Specialists \union {"finalize", "unlisted"})
      <4>1. \/ PendingAgents(c) \in Plans \/ PendingAgents(c) = P
        BY <2>1, PendingIsPlanned
      <4>2. \A p \in Plans : p \in Seq(Specialists \union {"unlisted"})
        BY PlansType
      <4> QED BY <1>6, <4>1, <4>2
    <3> QED BY <2>1, <3>1, HeadThenTail, HeadTailProperties
  <2> HIDE DEF h, rest
  <2>4. RoutedCount(c)' = Len(D) + 1
    BY <1>6, <2>1 DEF RoutedCount
  <2>5. ServedCount(c)' = RoutedCount(c)' - 1
    BY <2>1, <2>2, ServedAfter
  <2>6. PlanOf(c)' = D \o PendingAgents(c)
    <3> DEFINE T == Specialists \union {"finalize", "unlisted"}
               E == Append(D, h)
    <3>1. D \in Seq(T) /\ h \in T /\ rest \in Seq(T)
      BY <1>6, <2>1, <2>3
    <3>2. E \in Seq(T) /\ Len(E) = Len(D) + 1
      BY <3>1
    <3>3. SubSeq(E, 1, Len(E)) \o rest = E \o rest
      BY <3>1, <3>2, OpenPlan
    <3>4. E \o rest = D \o (<<h>> \o rest)
      <4>1. \A q, r \in Seq(T), x \in T : Append(q, x) \o r = q \o (<<x>> \o r)
        <5> HIDE DEF T
        <5> SUFFICES ASSUME NEW q \in Seq(T), NEW r \in Seq(T), NEW x \in T
                     PROVE  Append(q, x) \o r = q \o (<<x>> \o r)
          OBVIOUS
        <5> QED BY AppendThenRest
      <4> HIDE DEF D, T
      <4> QED BY <3>1, <4>1
    <3>5. PlanOf(c)' = SubSeq(E, 1, Len(E)) \o rest
      BY <2>1, <2>4, <3>2 DEF PlanOf
    <3> QED BY <2>3, <3>3, <3>4, <3>5
  <2>7. CASE ~state[c].planned
    <3>1. D = <<>> /\ P = <<>> /\ PendingAgents(c) \in Plans
      BY <2>1, <2>7, PendingIsPlanned DEF RoutesFollowPlans
    <3>2. PlanOf(c) = <<>> /\ RoutedCount(c) = 0
      BY <1>3, <1>7, <3>1
    <3>3. PlanOf(c)' = PendingAgents(c)
      BY <2>3, <2>6, <3>1
    <3> QED BY <1>1, <1>3, <1>4, <1>5, <2>1, <2>4, <2>5, <3>1, <3>2, <3>3, StepOfOne
  <2>8. CASE state[c].planned
    <3>1. PendingAgents(c) = P
      BY <2>8 DEF PendingAgents
    <3>2. PlanOf(c)' = PlanOf(c)
      BY <1>7, <2>6, <3>1
    <3>3. RoutedCount(c) < Len(PlanOf(c))
      <4>1. \A S : \A q, r \in Seq(S) : r # <<>> => Len(q) < Len(q \o r)
        OBVIOUS
      <4>2. P # <<>>
        BY <2>1, <3>1
      <4> HIDE DEF D, P
      <4> QED BY <1>3, <1>6, <1>7, <4>1, <4>2
    <3> QED BY <1>1, <1>3, <1>4, <1>5, <2>1, <2>4, <2>5, <3>2, <3>3, StepOfOne
  <2> QED BY <2>7, <2>8
<1>14. CASE Finalize(c)
  <2>1. /\ frame[c].node = "orchestrator" /\ PendingAgents(c) = <<>>
        /\ state'[c].pending = <<>> /\ state'[c].summary = state[c].reports
        /\ state'[c].decisions = Append(D, "finalize")
    BY <1>14, FinalizeFields
  <2>2. /\ state[c].planned /\ D # <<>> /\ P = <<>> /\ state[c].reports # <<>>
    <3>1. state[c].planned
      BY <2>1, PendingIsPlanned, PlansType
    <3> QED BY <1>3, <2>1, <3>1 DEF RoutesFollowPlans, PendingAgents
  <2>3. RoutedCount(c)' = RoutedCount(c)
    BY <1>3, <1>6, <2>1, <2>2 DEF RoutedCount
  <2>4. ServedCount(c)' = RoutedCount(c)'
    BY <2>1, <2>2, ServedAfter
  <2>5. PlanOf(c) = D
    BY <1>6, <1>7, <2>2, OpenPlan
  <2>6. PlanOf(c)' = SubSeq(Append(D, "finalize"), 1, Len(D)) \o <<>>
    BY <1>3, <2>1, <2>3 DEF PlanOf
  <2>7. SubSeq(Append(D, "finalize"), 1, Len(D)) \o P = D \o P
    <3> DEFINE T == Specialists \union {"finalize"}
    <3>1. "finalize" \in T
      OBVIOUS
    <3> HIDE DEF D, P, T
    <3>2. D \in Seq(T) /\ P \in Seq(T)
      BY <1>6 DEF T
    <3> QED BY <3>1, <3>2, DecisionAfterPlan
  <2>8. PlanOf(c)' = PlanOf(c)
    BY <1>7, <2>2, <2>6, <2>7
  <2> QED BY <1>1, <1>3, <1>4, <1>5, <2>1, <2>2, <2>3, <2>4, <2>5, <2>8, StepOfOne
<1> QED BY <1>11, <1>12, <1>13, <1>14, LeaveCases

(* Giving up: the cycles whose phase changes were live and are abandoned.    *)
LEMMA Abandons ==
  ASSUME state' = state,
         NEW gone \in SUBSET Cycles,
         \A d \in gone : Phase(d) \in {"open", "concluded"} /\ Phase(d)' = "abandoned",
         \A d \in Cycles \ gone : Phase(d)' = Phase(d)
  PROVE  Contract!Abandon
<1>1. gone \in SUBSET {d \in Cycles : PhaseMap[d] \in {"open", "concluded"}}
  BY DEF PhaseMap
<1>2. PhaseMap' = [d \in Cycles |-> IF d \in gone THEN "abandoned" ELSE PhaseMap[d]]
  BY DEF PhaseMap
<1>3. PlanMap' = PlanMap /\ RoutedMap' = RoutedMap /\ ServedMap' = ServedMap
  BY SameStates
<1>4. \E g \in SUBSET {d \in Cycles : PhaseMap[d] \in {"open", "concluded"}} :
        PhaseMap' = [d \in Cycles |-> IF d \in g THEN "abandoned" ELSE PhaseMap[d]]
  BY <1>1, <1>2
<1> QED
  BY <1>3, <1>4
  DEF Contract!Abandon, Contract!Live, PhaseMap, PlanMap, RoutedMap, ServedMap, PlanOf

(* A task that goes on in its node, starts or ends: the contract starts,     *)
(* ends or abandons the cycle, or does nothing.                              *)
LEMMA StaysContract ==
  ASSUME TypeOK, TokensInFlight, RowsInFlight, RoutesFollowPlans, NEW c \in Cycles,
         Moves(c) \/ Writes(c) \/ IssueApproval(c) \/ Produce(c)
  PROVE  \/ UNCHANGED Contract!vars
         \/ Contract!Start(c) \/ Contract!End(c) \/ Contract!Abandon
<1> DEFINE pc == frame[c].pc
<1>1. /\ state' = state
      /\ \A d \in Cycles \ {c} : frame'[d] = frame[d]
      /\ \/ pc \in Running /\ frame'[c].pc \in Running
         \/ pc = "idle" /\ frame'[c].pc = "boundary"
         \/ Return(c)
         \/ pc \in Running /\ frame'[c].pc \in {"raised", "lost"}
  <2>1. CASE Moves(c)
    <3>1. CASE Submit(c)
      BY <3>1, StateType DEF Submit, Enter, Frame, TypeOK
    <3>2. CASE Return(c)
      BY <3>2, StateType DEF Return, Enter, Frame, TypeOK
    <3>3. CASE Dispatch(c) \/ PrepareContext(c) \/ SandboxAnswers(c)
      BY <3>3, StateType DEF Dispatch, PrepareContext, SandboxAnswers, InNode, Enter, Frame,
         TypeOK, Running
    <3>4. CASE Raise(c) \/ Cancel(c) \/ RejectReport(c)
      BY <3>4, StateType DEF Raise, Cancel, RejectReport, InNode, Enter, Frame, TypeOK, Running
    <3> QED BY <2>1, <3>1, <3>2, <3>3, <3>4 DEF Moves
  <2>2. CASE Writes(c)
    BY <2>2, StateType DEF Writes, StartSandbox, LinkKnowledge, PersistNext, InNode, Enter, Frame,
       TypeOK, Running
  <2>3. CASE IssueApproval(c)
    BY <2>3, IssueEffect, StateType DEF Frame, Running
  <2>4. CASE Produce(c)
    BY <2>4, ProduceEffect, StateType DEF Frame, Running
  <2> QED BY <2>1, <2>2, <2>3, <2>4
<1>2. \A d \in Cycles \ {c} : state'[d] = state[d] /\ frame'[d] = frame[d]
  BY <1>1
<1>3. /\ PlanOf(c)' = PlanOf(c) /\ RoutedCount(c)' = RoutedCount(c)
      /\ ServedCount(c)' = ServedCount(c)
  BY <1>1 DEF PlanOf, RoutedCount, ServedCount
<1>4. /\ \A d \in Cycles \ {c} : Phase(d)' = Phase(d)
  BY <1>2 DEF Phase
<1>5. /\ pc = "idle" => Phase(c) = "waiting"
      /\ pc \in Running => Phase(c) = IF state[c].summary = <<>> THEN "open" ELSE "concluded"
  BY PhaseOfTask
<1>6. /\ frame'[c].pc \in Running =>
           Phase(c)' = IF state'[c].summary = <<>> THEN "open" ELSE "concluded"
      /\ frame'[c].pc \in Over =>
           Phase(c)' = IF frame'[c].pc = "returned" /\ state'[c].summary # <<>>
                       THEN "ended" ELSE "abandoned"
  <2>1. PhaseOfTask'
    BY PhaseOfTask, PTL
  <2> QED BY <2>1 DEF PhaseOfTask
<1>7. ASSUME Phase(c) \in {"open", "concluded"}, Phase(c)' = "abandoned"
      PROVE  Contract!Abandon
  <2> DEFINE gone == {c}
  <2>1. gone \in SUBSET Cycles
    OBVIOUS
  <2>2. \A d \in gone : Phase(d) \in {"open", "concluded"} /\ Phase(d)' = "abandoned"
    BY <1>7
  <2>3. \A d \in Cycles \ gone : Phase(d)' = Phase(d)
    BY <1>4
  <2> HIDE DEF gone
  <2> QED BY <1>1, <2>1, <2>2, <2>3, Abandons
<1>8. CASE pc \in Running /\ frame'[c].pc \in Running
  BY <1>1, <1>2, <1>3, <1>5, <1>6, <1>8, StepOfOne
<1>9. CASE pc = "idle" /\ frame'[c].pc = "boundary"
  <2>1. state[c].summary = <<>>
    BY <1>9 DEF RoutesFollowPlans
  <2>2. Phase(c)' = "open"
    BY <1>1, <1>6, <1>9, <2>1 DEF Running
  <2> QED BY <1>2, <1>3, <1>5, <1>9, <2>2, StepOfOne
<1>10. CASE Return(c)
  <2>1. pc = "boundary" /\ frame'[c].pc = "returned"
    BY <1>10, StateType DEF Return, Enter, Frame, TypeOK
  <2>2. pc \in Running /\ frame'[c].pc \in Over
    BY <2>1 DEF Running, Over
  <2>3. CASE state[c].summary = <<>>
    BY <1>1, <1>5, <1>6, <1>7, <2>1, <2>2, <2>3
  <2>4. CASE state[c].summary # <<>>
    BY <1>1, <1>2, <1>3, <1>5, <1>6, <2>1, <2>2, <2>4, StepOfOne
  <2> QED BY <2>3, <2>4
<1>11. CASE pc \in Running /\ frame'[c].pc \in {"raised", "lost"}
  <2>1. Phase(c)' = "abandoned"
    BY <1>6, <1>11 DEF Over
  <2> QED BY <1>5, <1>7, <1>11, <2>1
<1> QED BY <1>1, <1>8, <1>9, <1>10, <1>11

(* The process dies: every live cycle is abandoned.                          *)
LEMMA CrashContract ==
  ASSUME TypeOK, Crash
  PROVE  Contract!Abandon
<1> DEFINE gone == {d \in Cycles : frame[d].pc \in Running}
<1>1. gone \in SUBSET Cycles /\ state' = state
  BY DEF Crash
<1>2. PhaseOfTask'
  BY PhaseOfTask, PTL
<1>3. ASSUME NEW d \in gone
      PROVE  Phase(d) \in {"open", "concluded"} /\ Phase(d)' = "abandoned"
  <2>1. d \in Cycles /\ frame[d].pc \in Running
    BY <1>3
  <2>2. frame'[d] = [frame[d] EXCEPT !.pc = "lost"]
    BY <2>1 DEF Crash
  <2>3. frame'[d].pc = "lost"
    BY <2>1, <2>2, StateType DEF Frame
  <2> QED BY <1>2, <2>1, <2>3, PhaseOfTask DEF PhaseOfTask, Over
<1>4. ASSUME NEW d \in Cycles \ gone
      PROVE  Phase(d)' = Phase(d)
  <2>1. frame'[d] = frame[d] /\ state'[d] = state[d]
    BY DEF Crash
  <2> QED BY <2>1 DEF Phase
<1> HIDE DEF gone
<1> QED BY <1>1, <1>3, <1>4, Abandons

-------------------------------------------------------------------------------
(* The refinement.                                                           *)

(* The initial states are initial states of the contract.                    *)
LEMMA ContractInit ==
  ASSUME Init
  PROVE  Contract!Init
<1>1. \A c \in Cycles : /\ state[c].summary = <<>> /\ state[c].decisions = <<>>
                        /\ state[c].pending = <<>> /\ state[c].reports = <<>>
                        /\ frame[c].pc = "idle"
  BY DEF Init, EmptyState, AtNode
<1>2. ASSUME NEW c \in Cycles
      PROVE  Phase(c) = "waiting" /\ RoutedCount(c) = 0 /\ ServedCount(c) = 0 /\ PlanOf(c) = <<>>
  <2>1. RoutedCount(c) = 0
    BY <1>1 DEF RoutedCount
  <2>2. ServedCount(c) = 0
    BY <1>1, <2>1 DEF ServedCount
  <2>3. PlanOf(c) = <<>>
    BY <1>1, <2>1 DEF PlanOf
  <2> QED BY <1>1, <2>1, <2>2, <2>3 DEF Phase
<1>3. /\ PhaseMap = [c \in Cycles |-> "waiting"] /\ PlanMap = [c \in Cycles |-> <<>>]
      /\ RoutedMap = [c \in Cycles |-> 0] /\ ServedMap = [c \in Cycles |-> 0]
  BY <1>2 DEF PhaseMap, PlanMap, RoutedMap, ServedMap
<1> QED BY <1>3 DEF Contract!Init, PhaseMap, PlanMap, RoutedMap, ServedMap, PlanOf

(* Every step is a step of the contract or none.                             *)
LEMMA ContractStep ==
  ASSUME IInv, [Next]_vars
  PROVE  [Contract!Next]_Contract!vars
<1>1. TypeOK /\ TokensInFlight /\ RowsInFlight /\ RoutesFollowPlans
  BY DEF IInv, LifecycleInv, RoutingInv
<1>2. CASE UNCHANGED <<request, state, frame, blackboard, approved>>
  BY <1>2 DEF Contract!vars, Phase, RoutedCount, ServedCount
<1>3. CASE Crash
  BY <1>1, <1>3, CrashContract DEF Contract!Next
<1>4. ASSUME NEW c \in Cycles, Leaves(c)
      PROVE  [Contract!Next]_Contract!vars
  BY <1>1, <1>4, LeavesContract DEF Contract!Next
<1>5. ASSUME NEW c \in Cycles, Moves(c) \/ Writes(c) \/ IssueApproval(c) \/ Produce(c)
      PROVE  [Contract!Next]_Contract!vars
  BY <1>1, <1>5, StaysContract DEF Contract!Next
<1> QED BY <1>2, <1>3, <1>4, <1>5, StepShapes

(* The super-graph keeps the contract of CycleContract: one plan per cycle,  *)
(* committed to at the first route, its agents activated one at a time and   *)
(* in order, each only when the one before has answered, and a summary only  *)
(* when all have.                                                            *)
THEOREM ContractKept == Spec => KeepsContract
<1>1. Init => Contract!Init
  BY ContractInit
<1>2. IInv /\ [Next]_vars => [Contract!Next]_Contract!vars
  BY ContractStep
<1> QED BY <1>1, <1>2, Invariance, PTL DEF Spec, KeepsContract, Contract!Spec

===============================================================================
