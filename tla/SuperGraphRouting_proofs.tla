------------------------ MODULE SuperGraphRouting_proofs ------------------------
(***************************************************************************)
(* Theorems about the route a cycle of SuperGraph takes through its        *)
(* agents: plans, reruns, remembered failures and the number of            *)
(* supersteps, for every set of cycles, requests and readings and every    *)
(* bound, and their proofs.                                                *)
(***************************************************************************)
EXTENDS SuperGraph_proofs, FiniteSetTheorems, SequenceTheorems

(* The request of a cycle never changes.                                     *)
LEMMA RequestsStay ==
  ASSUME [Next]_vars
  PROVE  request' = request
BY DEF Next, Progress, vars, Submit, Dispatch, Return, Raise, PrepareContext, RejectBlankObjective,
       FailRun, IssueApproval, Route, RejectUnlisted, Finalize, StartSandbox, SandboxAnswers,
       SandboxTimesOut, LinkKnowledge, Produce, PersistNext, CompleteRun, CommandEnds, Crash,
       Cancel, RejectReport, Tick, Quiet

(* A route takes the head of what is pending.                                *)
LEMMA RouteFields ==
  ASSUME TypeOK, TokensInFlight, NEW c \in Cycles, Route(c)
  PROVE  /\ frame[c].node = "orchestrator"
         /\ PendingAgents(c) # <<>> /\ Head(PendingAgents(c)) \in Specialists
         /\ state'[c].reports = Reported(c, "completed", TRUE)
         /\ state'[c].planned = TRUE /\ state'[c].pending = Tail(PendingAgents(c))
         /\ state'[c].next = Head(PendingAgents(c))
         /\ state'[c].decisions = Append(state[c].decisions, Head(PendingAgents(c)))
         /\ state'[c].rows = state[c].rows /\ state'[c].summary = state[c].summary
         /\ state'[c].lastError = state[c].lastError
         /\ state'[c].approvals = state[c].approvals \union frame[c].token
<1> DEFINE st == RoutedState(c)
           head == Head(PendingAgents(c))
           tail == Tail(PendingAgents(c))
<1>1. Leave(c, st) /\ frame[c].pc = "approving" /\ head \in Specialists
  BY DEF Route, InNode
<1>2. frame[c].node = "orchestrator" /\ PendingAgents(c) # <<>>
  BY <1>1 DEF TokensInFlight
<1>3. st = [state[c] EXCEPT
        !.planned = TRUE, !.pending = tail, !.next = head, !.decisions = Append(@, head),
        !.reports = Reported(c, "completed", TRUE), !.approvals = @ \union frame[c].token]
  BY DEF RoutedState
<1> HIDE DEF st, head, tail
<1>4. /\ st.reports = Reported(c, "completed", TRUE) /\ st.lastError = state[c].lastError
      /\ st.planned = TRUE /\ st.pending = tail
      /\ st.approvals = state[c].approvals \union frame[c].token
      /\ st.next = head /\ st.decisions = Append(state[c].decisions, head)
      /\ st.rows = state[c].rows /\ st.summary = state[c].summary
  BY <1>3, StateType DEF GraphState
<1>5. state'[c] = st
  BY <1>1, LeaveEffect
<1> QED BY <1>1, <1>2, <1>4, <1>5 DEF head, tail

(* The summary lists the reports there are when nothing is pending.          *)
LEMMA FinalizeFields ==
  ASSUME TypeOK, NEW c \in Cycles, Finalize(c)
  PROVE  /\ frame[c].node = "orchestrator" /\ PendingAgents(c) = <<>>
         /\ state'[c].reports = Reported(c, "completed", TRUE)
         /\ state'[c].planned = TRUE /\ state'[c].pending = <<>>
         /\ state'[c].next = "__end__"
         /\ state'[c].decisions = Append(state[c].decisions, "finalize")
         /\ state'[c].rows = state[c].rows /\ state'[c].summary = state[c].reports
         /\ state'[c].lastError = state[c].lastError
<1> DEFINE st == [state[c] EXCEPT
                    !.planned = TRUE, !.pending = <<>>, !.next = "__end__",
                    !.decisions = Append(@, "finalize"),
                    !.reports = Reported(c, "completed", TRUE), !.summary = state[c].reports]
<1>1. Leave(c, st) /\ frame[c].node = "orchestrator" /\ PendingAgents(c) = <<>>
  BY DEF Finalize, InNode
<1>2. /\ st.reports = Reported(c, "completed", TRUE) /\ st.lastError = state[c].lastError
      /\ st.planned = TRUE /\ st.pending = <<>>
      /\ st.next = "__end__" /\ st.decisions = Append(state[c].decisions, "finalize")
      /\ st.rows = state[c].rows /\ st.summary = state[c].reports
  BY StateType DEF GraphState
<1> HIDE DEF st
<1>3. state'[c] = st
  BY <1>1, LeaveEffect
<1> QED BY <1>1, <1>2, <1>3

(* A specialist that completes adds what it has stored to the state.         *)
LEMMA CompleteFields ==
  ASSUME TypeOK, NEW c \in Cycles, CompleteRun(c)
  PROVE  /\ state'[c].reports = Reported(c, "completed", TRUE)
         /\ state'[c].planned = state[c].planned /\ state'[c].pending = state[c].pending
         /\ state'[c].next = state[c].next /\ state'[c].decisions = state[c].decisions
         /\ state'[c].rows = state[c].rows \union Emitted(c)
         /\ state'[c].summary = state[c].summary
         /\ state'[c].lastError = state[c].lastError
<1> DEFINE st == [state[c] EXCEPT !.reports = Reported(c, "completed", TRUE),
                                  !.rows = @ \union Emitted(c)]
<1>1. Leave(c, st)
  BY DEF CompleteRun
<1>2. /\ st.reports = Reported(c, "completed", TRUE) /\ st.lastError = state[c].lastError
      /\ st.planned = state[c].planned /\ st.pending = state[c].pending
      /\ st.next = state[c].next /\ st.decisions = state[c].decisions
      /\ st.rows = state[c].rows \union Emitted(c) /\ st.summary = state[c].summary
  BY StateType DEF GraphState
<1> HIDE DEF st
<1>3. state'[c] = st
  BY <1>1, LeaveEffect
<1> QED BY <1>2, <1>3

(* A failure of a run, whatever its cause, leaves everything but the         *)
(* reports and last_error as it was.                                         *)
Failed(c) ==
  /\ \E told \in BOOLEAN : /\ state'[c].reports = Reported(c, "failed", told)
                           /\ state'[c].lastError = told
  /\ state'[c].planned = state[c].planned /\ state'[c].pending = state[c].pending
  /\ state'[c].next = state[c].next /\ state'[c].decisions = state[c].decisions
  /\ state'[c].rows = state[c].rows /\ state'[c].summary = state[c].summary

(* A node is left by a failure, a route, the summary, or a specialist that   *)
(* completes.                                                                *)
LEMMA LeaveCases ==
  ASSUME TypeOK, NEW c \in Cycles, Leaves(c)
  PROVE  Failed(c) \/ Route(c) \/ Finalize(c) \/ CompleteRun(c)
<1>1. state[c] \in GraphState /\ frame[c] \in Frame
  BY StateType
<1>2. CASE RejectBlankObjective(c) \/ FailRun(c) \/ SandboxTimesOut(c)
  <2>1. PICK told \in BOOLEAN : Leave(c, FailedState(c, told))
    BY <1>2 DEF RejectBlankObjective, FailRun, SandboxTimesOut
  <2> DEFINE st == FailedState(c, told)
  <2>2. /\ st.reports = Reported(c, "failed", told) /\ st.lastError = told
        /\ st.planned = state[c].planned /\ st.pending = state[c].pending
        /\ st.next = state[c].next /\ st.decisions = state[c].decisions
        /\ st.rows = state[c].rows /\ st.summary = state[c].summary
    BY <1>1 DEF FailedState, GraphState
  <2>3. Leave(c, st)
    BY <2>1
  <2> HIDE DEF st
  <2>4. state'[c] = st
    BY <2>3, LeaveEffect
  <2> QED BY <2>2, <2>4 DEF Failed
<1>3. CASE RejectUnlisted(c)
  <2> DEFINE st == [FailedState(c, TRUE) EXCEPT !.approvals = @ \union frame[c].token]
  <2>1. Leave(c, st)
    BY <1>3 DEF RejectUnlisted
  <2>2. /\ st.reports = Reported(c, "failed", TRUE) /\ st.lastError = TRUE
        /\ st.planned = state[c].planned /\ st.pending = state[c].pending
        /\ st.next = state[c].next /\ st.decisions = state[c].decisions
        /\ st.rows = state[c].rows /\ st.summary = state[c].summary
    BY <1>1 DEF FailedState, GraphState
  <2> HIDE DEF st
  <2>3. state'[c] = st
    BY <2>1, LeaveEffect
  <2> QED BY <2>2, <2>3 DEF Failed
<1> QED BY <1>2, <1>3 DEF Leaves

(* Whoever leaves a node starts the next one afresh.                         *)
LEMMA LeavesFrame ==
  ASSUME TypeOK, TokensInFlight, NEW c \in Cycles, Leaves(c)
  PROVE  /\ frame[c].node \in Nodes /\ frame[c].pc \in Running
         /\ frame'[c].node = NextNode(frame[c].node, state'[c])
         /\ frame'[c].pc = "boundary" /\ frame'[c].token = {}
<1>1. /\ frame'[c] = AtNode(NextNode(frame[c].node, state'[c]))
      /\ frame[c].node \in Nodes /\ frame[c].pc \in Running
  BY LeavesEffect
<1>2. \A n : AtNode(n).node = n /\ AtNode(n).pc = "boundary" /\ AtNode(n).token = {}
  BY DEF AtNode
<1> QED BY <1>1, <1>2

(* A report joins those there are, and says which agent has run, in which    *)
(* superstep.                                                                *)
LEMMA ReportedFields ==
  ASSUME TypeOK, NEW c \in Cycles, NEW status, NEW told
  PROVE  /\ Len(Reported(c, status, told)) = Run(c)
         /\ Reported(c, status, told) # <<>>
         /\ \A i \in 1 .. Len(state[c].reports) :
              Reported(c, status, told)[i] = state[c].reports[i]
         /\ Reported(c, status, told)[Run(c)].agent = frame[c].node
         /\ Reported(c, status, told)[Run(c)].status = status
         /\ Reported(c, status, told)[Run(c)].told = told
<1> DEFINE report == [agent |-> frame[c].node, status |-> status, told |-> told]
<1>1. report.agent = frame[c].node /\ report.status = status /\ report.told = told
  OBVIOUS
<1>2. state[c].reports \in Seq(Report)
  BY StateType DEF GraphState
<1>3. Reported(c, status, told) = Append(state[c].reports, report)
  BY DEF Reported
<1> HIDE DEF report
<1> QED BY <1>1, <1>2, <1>3 DEF Run

-------------------------------------------------------------------------------
(* Plans.                                                                  *)

Distinct(q) == \A i, j \in 1 .. Len(q) : q[i] = q[j] => i = j

MonitorFirst(q) == \A i \in 1 .. Len(q) : q[i] = "monitor" => i = 1

(* An agent that is not in the plan yet can be added under a condition:      *)
(* nobody is twice in it, and the monitor stays the first.                   *)
LEMMA WhenDistinct ==
  ASSUME NEW A, NEW x, x \notin A, NEW q \in Seq(A), Distinct(q), NEW b
  PROVE  /\ q \o When(b, x) \in Seq(A \union {x})
         /\ Distinct(q \o When(b, x))
         /\ MonitorFirst(q) /\ x # "monitor" => MonitorFirst(q \o When(b, x))
<1>1. CASE b
  <2>1. q \o When(b, x) = Append(q, x)
    BY <1>1 DEF When
  <2>2. /\ Append(q, x) \in Seq(A \union {x}) /\ Len(Append(q, x)) = Len(q) + 1
        /\ \A i \in 1 .. Len(q) : Append(q, x)[i] = q[i] /\ q[i] \in A
        /\ Append(q, x)[Len(q) + 1] = x
    OBVIOUS
  <2> QED BY <2>1, <2>2 DEF Distinct, MonitorFirst
<1>2. CASE ~b
  <2>1. q \o When(b, x) = q /\ q \in Seq(A \union {x})
    BY <1>2 DEF When
  <2> QED BY <2>1
<1> QED BY <1>1, <1>2

(* determine_next_agents names no agent twice and nobody before the monitor. *)
LEMMA PlanDistinct ==
  ASSUME NEW req \in Request, NEW fresh \in BOOLEAN, NEW triggered \in BOOLEAN
  PROVE  /\ Distinct(DetermineNextAgents(req, fresh, triggered))
         /\ MonitorFirst(DetermineNextAgents(req, fresh, triggered))
<1> DEFINE m == When(fresh, "monitor")
           s == m \o When("audit" \in req.topics, "security_audit")
           a == s \o When("analyze" \in req.topics, "analyzer")
           p == a \o When("execute" \in req.topics, "planner_executor")
           o == p \o When("optimize" \in req.topics \/ triggered, "optimizer")
           k == o \o When("knowledge" \in req.topics, "knowledge")
           A == {"monitor"}
           B == A \union {"security_audit"}
           C == B \union {"analyzer"}
           D == C \union {"planner_executor"}
           E == D \union {"optimizer"}
<1>1. m \in Seq(A) /\ Distinct(m) /\ MonitorFirst(m)
  <2>1. m \in Seq(A)
    BY WhenType
  <2>2. \A i \in 1 .. Len(m) : i = 1
    BY DEF When
  <2> HIDE DEF m
  <2> QED BY <2>1, <2>2 DEF Distinct, MonitorFirst
<1>2. s \in Seq(B) /\ Distinct(s) /\ MonitorFirst(s)
  <2> HIDE DEF m
  <2>1. "security_audit" \notin A
    OBVIOUS
  <2> HIDE DEF A
  <2> QED BY <1>1, <2>1, WhenDistinct
<1>3. a \in Seq(C) /\ Distinct(a) /\ MonitorFirst(a)
  <2>1. "analyzer" \notin B
    OBVIOUS
  <2> HIDE DEF s, B
  <2> QED BY <1>2, <2>1, WhenDistinct
<1>4. p \in Seq(D) /\ Distinct(p) /\ MonitorFirst(p)
  <2>1. "planner_executor" \notin C
    OBVIOUS
  <2> HIDE DEF a, C
  <2> QED BY <1>3, <2>1, WhenDistinct
<1>5. o \in Seq(E) /\ Distinct(o) /\ MonitorFirst(o)
  <2>1. "optimizer" \notin D
    OBVIOUS
  <2> HIDE DEF p, D
  <2> QED BY <1>4, <2>1, WhenDistinct
<1>6. Distinct(k) /\ MonitorFirst(k)
  <2>1. "knowledge" \notin E
    OBVIOUS
  <2> HIDE DEF o, E
  <2> QED BY <1>5, <2>1, WhenDistinct
<1>7. DetermineNextAgents(req, fresh, triggered)
        \in {<<req.scheduled>>, <<"security_audit">>, k,
             <<"analyzer", "planner_executor", "optimizer", "knowledge">>}
  BY DEF DetermineNextAgents
<1>8. ASSUME NEW x
      PROVE  Distinct(<<x>>) /\ MonitorFirst(<<x>>)
  <2>1. \A i \in 1 .. Len(<<x>>) : i = 1
    OBVIOUS
  <2> QED BY <2>1 DEF Distinct, MonitorFirst
<1>9. /\ Distinct(<<"analyzer", "planner_executor", "optimizer", "knowledge">>)
      /\ MonitorFirst(<<"analyzer", "planner_executor", "optimizer", "knowledge">>)
  BY DEF Distinct, MonitorFirst
<1> HIDE DEF k
<1> QED BY <1>6, <1>7, <1>8, <1>9

(* The plans a cycle can get, before anything has run.                       *)
LEMMA PlansType ==
  ASSUME NEW p \in Plans
  PROVE  /\ p \in Seq(Specialists \union {"unlisted"}) /\ p # <<>>
         /\ Distinct(p) /\ MonitorFirst(p)
<1>1. PICK req \in Requests : p = DetermineNextAgents(req, TRUE, FALSE)
  BY DEF Plans
<1> QED BY <1>1, PlanType, PlanDistinct, RequestsAssumption

(* The head of a sequence and its tail are the sequence.                     *)
LEMMA HeadThenTail ==
  ASSUME NEW S, NEW q \in Seq(S), q # <<>>
  PROVE  q = <<Head(q)>> \o Tail(q)
<1>1. Head(q) \in S /\ Tail(q) \in Seq(S) /\ <<Head(q)>> \in Seq(S)
  BY HeadTailProperties
<1>2. Len(<<Head(q)>> \o Tail(q)) = Len(q)
  BY <1>1, HeadTailProperties
<1>3. \A i \in 1 .. Len(q) : (<<Head(q)>> \o Tail(q))[i] = q[i]
  BY <1>1, HeadTailProperties
<1> QED BY <1>1, <1>2, <1>3, SeqEqual

(* Moving an agent from the pending ones to the decisions keeps the plan.    *)
LEMMA AppendThenRest ==
  ASSUME NEW S, NEW q \in Seq(S), NEW x \in S, NEW rest \in Seq(S)
  PROVE  /\ Append(q, x) \in Seq(S) /\ Append(q, x) # <<>>
         /\ Append(q, x)[Len(Append(q, x))] = x
         /\ Append(q, x) \o rest = q \o (<<x>> \o rest)
<1>1. <<x>> \in Seq(S) /\ Append(q, x) = q \o <<x>>
  BY AppendIsConcat
<1> QED BY <1>1, ConcatAssociative

(* What is routed to next and what remains make up the plan: all of it       *)
(* before the first route, the rest of the decisions' plan afterwards.       *)
LEMMA PendingIsPlanned ==
  ASSUME TypeOK, RoutesFollowPlans, NEW c \in Cycles, frame[c].node = "orchestrator"
  PROVE  \/ ~state[c].planned /\ PendingAgents(c) \in Plans
         \/ /\ state[c].planned /\ state[c].summary = <<>>
            /\ PendingAgents(c) = state[c].pending
<1>1. CASE state[c].planned
  BY <1>1 DEF RoutesFollowPlans, PendingAgents
<1>2. CASE ~state[c].planned
  <2>1. state[c].reports = <<>> /\ request[c] \in Requests
    BY <1>2 DEF RoutesFollowPlans
  <2>2. PendingAgents(c) = DetermineNextAgents(request[c], TRUE, FALSE)
    BY <1>2, <2>1 DEF PendingAgents
  <2> QED BY <1>2, <2>1, <2>2 DEF Plans
<1> QED BY <1>1, <1>2, StateType DEF GraphState

(* Every step keeps decisions and pending agents together one plan.          *)
LEMMA RoutesStep ==
  ASSUME TypeOK, TokensInFlight, RowsInFlight, RoutesFollowPlans, [Next]_vars
  PROVE  RoutesFollowPlans'
<1> DEFINE Begun(st, node) ==
             /\ st.decisions = <<>> /\ st.pending = <<>> /\ st.summary = <<>>
             /\ st.next = "__end__"
             /\ IF st.reports = <<>> THEN node = "orchestrator" ELSE node = "__end__"
           Open(st, node) ==
             /\ st.decisions \in Seq(Specialists) /\ st.decisions # <<>>
             /\ st.decisions \o st.pending \in Plans
             /\ st.next = st.decisions[Len(st.decisions)]
             /\ st.reports # <<>>
             /\ \/ /\ node = "orchestrator"
                   /\ st.reports[Len(st.reports)].agent \in Specialists
                \/ node = st.next /\ st.reports[Len(st.reports)].agent = "orchestrator"
           Closed(st, node) ==
             /\ \E p \in Seq(Specialists) \intersect Plans : st.decisions = Append(p, "finalize")
             /\ st.pending = <<>>
             /\ node = "__end__"
           Itinerary(st, node) ==
             /\ ~st.planned => Begun(st, node)
             /\ st.planned /\ st.summary = <<>> => Open(st, node)
             /\ st.planned /\ st.summary # <<>> => Closed(st, node)
<1>1. RoutesFollowPlans <=>
        \A c \in Cycles :
          /\ request[c] \in Requests
          /\ frame[c].pc = "idle" => ~state[c].planned /\ state[c].reports = <<>>
          /\ Itinerary(state[c], frame[c].node)
  BY DEF RoutesFollowPlans
<1>2. RoutesFollowPlans' <=>
        \A c \in Cycles :
          /\ request'[c] \in Requests
          /\ frame'[c].pc = "idle" => ~state'[c].planned /\ state'[c].reports = <<>>
          /\ Itinerary(state'[c], frame'[c].node)
  BY DEF RoutesFollowPlans
<1>3. request' = request
  BY RequestsStay
<1> SUFFICES ASSUME NEW d \in Cycles
             PROVE  /\ frame'[d].pc = "idle" => ~state'[d].planned /\ state'[d].reports = <<>>
                    /\ Itinerary(state'[d], frame'[d].node)
  BY <1>1, <1>2, <1>3
<1>4. /\ frame[d].pc = "idle" => ~state[d].planned /\ state[d].reports = <<>>
      /\ Itinerary(state[d], frame[d].node)
  BY <1>1
<1>5. CASE ~Leaves(d)
  <2>1. /\ state'[d] = state[d] /\ frame'[d].node = frame[d].node
        /\ frame'[d].pc = "idle" => frame[d].pc = "idle"
    BY <1>5, StepCases
  <2> HIDE DEF Itinerary
  <2> QED BY <1>4, <2>1
<1>6. CASE Leaves(d)
  <2> DEFINE old == state[d]
             new == state'[d]
             node == frame[d].node
  <2>1. /\ node \in Nodes
        /\ frame'[d].node = NextNode(node, new) /\ frame'[d].pc = "boundary"
    BY <1>6, LeavesFrame
  <2>2. SUFFICES Itinerary(new, NextNode(node, new))
    BY <2>1
  <2>3. old \in GraphState /\ Itinerary(old, node)
    BY <1>4, StateType
  <2>4. "orchestrator" \notin Specialists /\ "__end__" \notin Nodes
    BY DEF Specialists, Nodes
  <2>5. /\ new.reports # <<>> /\ Len(new.reports) = Run(d)
        /\ new.reports[Len(new.reports)].agent = node
    BY <1>6, ReportsGrow, StateType
  <2>6. CASE new.planned = old.planned /\ new.pending = old.pending /\ new.next = old.next
             /\ new.decisions = old.decisions /\ new.summary = old.summary
    <3> HIDE DEF old, new
    <3> QED BY <2>1, <2>3, <2>4, <2>5, <2>6 DEF NextNode, Nodes
  <2>7. CASE Route(d)
    <3> DEFINE head == Head(PendingAgents(d))
               tail == Tail(PendingAgents(d))
    <3>1. node = "orchestrator" /\ PendingAgents(d) # <<>>
      BY <2>7, RouteFields
    <3>2. head \in Specialists
      BY <2>7, RouteFields
    <3>3. /\ new.planned = TRUE /\ new.pending = tail /\ new.next = head
          /\ new.decisions = Append(old.decisions, head) /\ new.summary = old.summary
      BY <2>7, RouteFields
    <3>4. PendingAgents(d) \in Seq(Specialists \union {"unlisted"})
      BY <2>3, <3>1, PendingIsPlanned, PlansType DEF GraphState
    <3>5. tail \in Seq(Specialists) /\ PendingAgents(d) = <<head>> \o tail
      <4>1. tail \in Seq(Specialists)
        BY <3>1, PendingType
      <4> DEFINE q == PendingAgents(d)
      <4>2. q \in Seq(Specialists \union {"unlisted"}) /\ q # <<>>
        BY <3>1, <3>4
      <4> HIDE DEF q
      <4>3. q = <<Head(q)>> \o Tail(q)
        BY <4>2, HeadThenTail
      <4> QED BY <4>1, <4>3 DEF q
    <3>6. /\ old.summary = <<>> /\ old.decisions \in Seq(Specialists)
          /\ \/ old.decisions = <<>> /\ PendingAgents(d) \in Plans
             \/ old.decisions \o PendingAgents(d) \in Plans
      <4>1. CASE ~old.planned
        <5>1. PendingAgents(d) \in Plans
          BY <3>1, <4>1, PendingIsPlanned
        <5>2. old.summary = <<>> /\ old.decisions = <<>>
          BY <2>3, <4>1
        <5> HIDE DEF old
        <5> QED BY <5>1, <5>2, EmptySeq
      <4>2. CASE old.planned
        <5>1. old.summary = <<>> /\ PendingAgents(d) = old.pending
          BY <3>1, <4>2, PendingIsPlanned
        <5> QED BY <2>3, <4>2, <5>1
      <4> QED BY <4>1, <4>2
    <3> HIDE DEF head, tail, old, new
    <3>7. /\ new.decisions \in Seq(Specialists) /\ new.decisions # <<>>
          /\ new.decisions \o new.pending = old.decisions \o PendingAgents(d)
          /\ new.decisions[Len(new.decisions)] = head
      <4>1. /\ Append(old.decisions, head) \in Seq(Specialists)
            /\ Append(old.decisions, head) # <<>>
            /\ Append(old.decisions, head)[Len(Append(old.decisions, head))] = head
            /\ Append(old.decisions, head) \o tail = old.decisions \o (<<head>> \o tail)
        <5>1. \A q \in Seq(Specialists), x \in Specialists, rest \in Seq(Specialists) :
                /\ Append(q, x) \in Seq(Specialists) /\ Append(q, x) # <<>>
                /\ Append(q, x)[Len(Append(q, x))] = x
                /\ Append(q, x) \o rest = q \o (<<x>> \o rest)
          BY AppendThenRest
        <5>2. tail \in Seq(Specialists) /\ old.decisions \in Seq(Specialists)
          BY <3>5, <3>6
        <5> QED BY <3>2, <5>1, <5>2
      <4> QED BY <3>3, <3>5, <4>1
    <3>8. new.decisions \o new.pending \in Plans
      <4>1. CASE old.decisions = <<>> /\ PendingAgents(d) \in Plans
        BY <3>4, <3>7, <4>1
      <4> QED BY <3>6, <3>7, <4>1
    <3> QED BY <2>5, <3>1, <3>3, <3>6, <3>7, <3>8 DEF NextNode
  <2>8. CASE Finalize(d)
    <3>1. node = "orchestrator" /\ PendingAgents(d) = <<>>
      BY <2>8, FinalizeFields
    <3>2. /\ new.planned = TRUE /\ new.pending = <<>> /\ new.next = "__end__"
          /\ new.decisions = Append(old.decisions, "finalize") /\ new.summary = old.reports
      BY <2>8, FinalizeFields
    <3>3. old.planned /\ old.summary = <<>> /\ old.pending = <<>>
      BY <3>1, PendingIsPlanned, PlansType
    <3> HIDE DEF old, new
    <3>4. old.decisions \in Seq(Specialists) /\ old.decisions \in Plans /\ old.reports # <<>>
      BY <2>3, <3>3
    <3> QED BY <3>1, <3>2, <3>4 DEF NextNode
  <2>9. Failed(d) \/ CompleteRun(d) =>
          new.planned = old.planned /\ new.pending = old.pending /\ new.next = old.next
          /\ new.decisions = old.decisions /\ new.summary = old.summary
    BY CompleteFields DEF Failed
  <2> QED BY <1>6, <2>6, <2>7, <2>8, <2>9, LeaveCases
<1> QED BY <1>5, <1>6

-------------------------------------------------------------------------------
(* Rows.                                                                   *)

(* A run that is about to store what it emits has just produced it, or was   *)
(* storing it already.                                                       *)
LEMMA PersistEffect ==
  ASSUME TypeOK, TokensInFlight, RowsInFlight, [Next]_vars, NEW d \in Cycles, ~Leaves(d),
         frame'[d].pc = "persist"
  PROVE  \/ frame[d].pc = "persist" /\ frame'[d].artifacts = frame[d].artifacts
         \/ \E reading \in Readings : frame'[d].artifacts \in Artifacts(d, reading)
<1> SUFFICES ASSUME frame'[d] # frame[d]
             PROVE  \/ frame[d].pc = "persist" /\ frame'[d].artifacts = frame[d].artifacts
                    \/ \E reading \in Readings : frame'[d].artifacts \in Artifacts(d, reading)
  OBVIOUS
<1>1. ~(UNCHANGED <<request, state, frame, blackboard, approved>>)
  OBVIOUS
<1>2. ~Crash
  <2> SUFFICES ASSUME Crash PROVE FALSE
    OBVIOUS
  <2>1. frame'[d] = [frame[d] EXCEPT !.pc = "lost"]
    BY DEF Crash
  <2> QED BY <2>1, StateType DEF Frame
<1>3. ASSUME NEW c \in Cycles, Moves(c)
      PROVE  FALSE
  <2>1. PICK pc \in {"boundary", "returned", "raised", "lost", "context", "work", "effected"} :
          frame' = [frame EXCEPT ![c] = [frame[c] EXCEPT !.pc = pc]]
    BY <1>3, MovesEffect
  <2>2. d = c
    BY <2>1 DEF TypeOK
  <2> QED BY <2>1, <2>2, StateType DEF Frame, TypeOK
<1>4. ASSUME NEW c \in Cycles, Leaves(c)
      PROVE  FALSE
  BY <1>4, LeavesEffect
<1>5. ASSUME NEW c \in Cycles, Writes(c)
      PROVE  frame[d].pc = "persist" /\ frame'[d].artifacts = frame[d].artifacts
  <2>1. d = c
    BY <1>5, WritesEffect
  <2>2. \/ \E pc \in {"sandbox", "effected"} : frame'[d] = [frame[d] EXCEPT !.pc = pc]
        \/ frame[d].pc = "persist" /\ frame'[d] = [frame[d] EXCEPT !.written = @ + 1]
    BY <1>5, <2>1, WritesEffect
  <2> QED BY <2>2, StateType DEF Frame
<1>6. ASSUME NEW c \in Cycles, IssueApproval(c)
      PROVE  FALSE
  <2>1. d = c
    BY <1>6, IssueEffect
  <2>2. \E a : frame'[d] = [frame[d] EXCEPT !.pc = "approving", !.token = {a}]
    BY <1>6, <2>1, IssueEffect
  <2> QED BY <2>2, StateType DEF Frame
<1>7. ASSUME NEW c \in Cycles, Produce(c)
      PROVE  \E reading \in Readings : frame'[d].artifacts \in Artifacts(d, reading)
  <2>1. d = c
    BY <1>7, ProduceEffect
  <2>2. PICK reading \in Readings : \E artifacts \in Artifacts(c, reading) :
          frame' = [frame EXCEPT ![c].pc = "persist", ![c].artifacts = artifacts]
    BY <1>7 DEF Produce
  <2>3. PICK artifacts \in Artifacts(c, reading) :
          frame' = [frame EXCEPT ![c].pc = "persist", ![c].artifacts = artifacts]
    BY <2>2
  <2>4. frame'[c].artifacts = artifacts
    BY <2>3, StateType DEF Frame, TypeOK
  <2> QED BY <2>1, <2>4
<1> QED BY <1>1, <1>2, <1>3, <1>4, <1>5, <1>6, <1>7, StepShapes

(* What an agent emits depends on its node and on its cycle's state only.    *)
LEMMA SameArtifacts ==
  ASSUME NEW c \in Cycles, state'[c] = state[c], frame'[c].node = frame[c].node, NEW reading
  PROVE  Artifacts(c, reading)' = Artifacts(c, reading)
BY DEF Artifacts, MonitorArtifacts, AuditArtifacts, AnalyzerArtifacts, PlannerArtifacts,
       OptimizerArtifacts, KnowledgeArtifacts, HasFindings, Audited

(* A sequence that starts with one item and goes on with items of a set.     *)
LEMMA FirstThen ==
  ASSUME NEW S, NEW x \in S, NEW rest \in Seq(S)
  PROVE  /\ <<x>> \o rest \in Seq(S) /\ Len(<<x>> \o rest) \in Nat \ {0}
         /\ (<<x>> \o rest)[1] = x
         /\ \A i \in 1 .. Len(rest) : (<<x>> \o rest)[i + 1] = rest[i]
         /\ Len(<<x>> \o rest) = Len(rest) + 1
OBVIOUS

(* The first artifact of every specialist is a memory, the audit of the      *)
(* security auditor is nobody else's, and an auditor with findings asks for  *)
(* remediation.                                                              *)
LEMMA ArtifactsShape ==
  ASSUME NEW c \in Cycles, NEW reading \in Readings, frame[c].node \in Specialists,
         NEW artifacts \in Artifacts(c, reading)
  PROVE  /\ Len(artifacts) \in Nat \ {0} /\ artifacts[1] = Emit("memory")
         /\ frame[c].node # "security_audit" =>
              \A i \in 1 .. Len(artifacts) : artifacts[i].kind # "audit"
         /\ frame[c].node = "security_audit" /\ HasFindings(c, reading) =>
              \E i \in 1 .. Len(artifacts) : artifacts[i] = Command("orchestrator")
<1> DEFINE memory == Emit("memory")
           Mild == {artifact \in Artifact : artifact.kind # "audit"}
<1>1. /\ memory \in Mild /\ Emit("stats") \in Mild /\ Emit("proposal") \in Mild
      /\ \A target \in Nodes : Command(target) \in Mild
  BY DEF Emit, Command, Artifact
<1>2. /\ "optimizer" \in Nodes /\ "security_audit" \in Nodes /\ "analyzer" \in Nodes
      /\ "planner_executor" \in Nodes /\ "knowledge" \in Nodes
  BY DEF Nodes, Specialists
<1>3. ASSUME NEW rest \in Seq(Mild), artifacts = <<memory>> \o rest
      PROVE  /\ Len(artifacts) \in Nat \ {0} /\ artifacts[1] = memory
             /\ \A i \in 1 .. Len(artifacts) : artifacts[i].kind # "audit"
  <2> HIDE DEF memory
  <2>1. artifacts \in Seq(Mild) /\ Len(artifacts) \in Nat \ {0} /\ artifacts[1] = memory
    BY <1>1, <1>3, FirstThen
  <2>2. \A i \in 1 .. Len(artifacts) : artifacts[i] \in Mild
    BY <2>1
  <2> QED BY <2>1, <2>2
<1>4. CASE frame[c].node = "monitor"
  <2> DEFINE o == When(reading.drift, Command("optimizer"))
             a == When(reading.intervention /\ Audited(c), Command("security_audit"))
             last == <<Emit("stats")>>
  <2>1. artifacts = <<memory>> \o o \o a \o last
    BY <1>4 DEF Artifacts, MonitorArtifacts
  <2>2. o \in Seq(Mild) /\ a \in Seq(Mild) /\ last \in Seq(Mild) /\ <<memory>> \in Seq(Mild)
    BY <1>1, <1>2, WhenType, SingletonType
  <2> HIDE DEF o, a, last, memory, Mild
  <2>3. artifacts = <<memory>> \o (o \o a \o last) /\ o \o a \o last \in Seq(Mild)
    BY <2>1, <2>2, ConcatAssociative, ConcatProperties
  <2> QED BY <1>3, <1>4, <2>3 DEF memory
<1>5. CASE frame[c].node = "analyzer"
  <2>1. PICK target \in {"planner_executor", "optimizer", "knowledge", "security_audit"} :
          artifacts = <<memory, Command(target)>>
    BY <1>5 DEF Artifacts, AnalyzerArtifacts
  <2> DEFINE rest == <<Command(target)>>
  <2>2. rest \in Seq(Mild)
    BY <1>1, <1>2, SingletonType
  <2>3. artifacts = <<memory>> \o rest
    BY <2>1
  <2> HIDE DEF rest
  <2> QED BY <1>3, <1>5, <2>2, <2>3
<1>6. CASE frame[c].node = "planner_executor"
  <2>1. PICK more \in BOOLEAN :
          artifacts = <<memory>> \o When(more, Command("analyzer"))
    BY <1>6 DEF Artifacts, PlannerArtifacts
  <2>2. When(more, Command("analyzer")) \in Seq(Mild)
    BY <1>1, <1>2, WhenType
  <2> QED BY <1>3, <1>6, <2>1, <2>2
<1>7. CASE frame[c].node = "optimizer"
  <2> DEFINE rest == <<Emit("proposal")>>
  <2>1. rest \in Seq(Mild)
    BY <1>1, SingletonType
  <2>2. artifacts = <<memory>> \o rest
    BY <1>7 DEF Artifacts, OptimizerArtifacts
  <2> HIDE DEF rest
  <2> QED BY <1>3, <1>7, <2>1, <2>2
<1>8. CASE frame[c].node = "knowledge"
  <2> DEFINE rest == <<>>
  <2>1. rest \in Seq(Mild)
    OBVIOUS
  <2>2. artifacts = <<memory>> \o rest
    BY <1>8 DEF Artifacts, KnowledgeArtifacts
  <2> HIDE DEF rest
  <2> QED BY <1>3, <1>8, <2>1, <2>2
<1>9. CASE frame[c].node = "security_audit"
  <2> DEFINE r == When(HasFindings(c, reading), Command("orchestrator"))
             audit == Emit("audit")
  <2>1. artifacts = <<memory>> \o r \o <<audit>>
    BY <1>9 DEF Artifacts, AuditArtifacts
  <2>2. /\ r \in Seq({Command("orchestrator")})
        /\ HasFindings(c, reading) => Len(r) = 1 /\ r[1] = Command("orchestrator")
    <3>1. r \in Seq({Command("orchestrator")})
      BY WhenType
    <3>2. HasFindings(c, reading) => r = <<Command("orchestrator")>>
      BY DEF When
    <3> HIDE DEF r
    <3> QED BY <3>1, <3>2
  <2> HIDE DEF r, audit, memory
  <2>3. /\ Len(artifacts) = Len(r) + 2 /\ artifacts[1] = memory
        /\ Len(r) = 1 => artifacts[2] = r[1]
    BY <2>1, <2>2
  <2> QED BY <1>9, <2>2, <2>3 DEF memory
<1> QED BY <1>4, <1>5, <1>6, <1>7, <1>8, <1>9 DEF Specialists

(* A relation that is new to the blackboard is a specialist's and has no     *)
(* target.                                                                   *)
LEMMA NewRows ==
  ASSUME TypeOK, TokensInFlight, RowsInFlight, [Next]_vars, NEW d \in Cycles,
         NEW row \in blackboard'[d], row \notin blackboard[d]
  PROVE  row.kind = "link" => row.target = "none" /\ frame[d].node \in Specialists
<1>1. PICK c \in Cycles : Writes(c)
  BY StepShapes, MovesEffect, LeavesEffect, IssueEffect, ProduceEffect DEF Crash
<1>2. d = c
  BY <1>1, WritesEffect
<1>3. CASE /\ frame[d].node \in Specialists
           /\ \E kind \in Effects :
                blackboard'[d] = blackboard[d] \union {RowOf(d, kind, "none")}
  BY <1>3 DEF RowOf
<1>4. CASE /\ frame[d].pc = "persist"
           /\ frame[d].written < Len(frame[d].artifacts)
           /\ LET next == frame[d].artifacts[frame[d].written + 1]
              IN  blackboard'[d] = blackboard[d] \union {RowOf(d, next.kind, next.target)}
  <2> DEFINE next == frame[d].artifacts[frame[d].written + 1]
  <2>1. next \in Artifact
    BY <1>4, StateType DEF Frame
  <2>2. row = RowOf(d, next.kind, next.target)
    BY <1>4
  <2> QED BY <2>1, <2>2 DEF RowOf, Artifact
<1> QED BY <1>1, <1>2, <1>3, <1>4, WritesEffect

(* A completed run has stored what its agent emits, memory first.            *)
LEMMA CompletedEmits ==
  ASSUME TypeOK, RowsInFlight, RowsComeFromAgents, NEW c \in Cycles, CompleteRun(c)
  PROVE  /\ frame[c].node \in Specialists
         /\ Emitted(c) \subseteq blackboard[c]
         /\ RowOf(c, "memory", "none") \in blackboard[c]
         /\ frame[c].node # "security_audit" => \A row \in Emitted(c) : row.kind # "audit"
         /\ frame[c].node = "security_audit" /\ state[c].lastError =>
              RowOf(c, "command", "orchestrator") \in blackboard[c]
<1> DEFINE artifacts == frame[c].artifacts
           Stored(i) == RowOf(c, artifacts[i].kind, artifacts[i].target)
<1>1. frame[c].pc = "persist" /\ frame[c].written = Len(artifacts)
  BY DEF CompleteRun, InNode, AllWritten
<1>2. frame[c].node \in Specialists
  BY <1>1 DEF RowsInFlight
<1>3. \A i \in 1 .. Len(artifacts) : Stored(i) \in blackboard[c]
  BY <1>1 DEF RowsInFlight
<1>4. Emitted(c) = {Stored(i) : i \in 1 .. Len(artifacts)}
  BY DEF Emitted
<1>5. PICK reading \in Readings : artifacts \in Artifacts(c, reading)
  BY <1>1 DEF RowsComeFromAgents
<1>6. /\ Len(artifacts) \in Nat \ {0} /\ artifacts[1] = Emit("memory")
      /\ frame[c].node # "security_audit" =>
           \A i \in 1 .. Len(artifacts) : artifacts[i].kind # "audit"
      /\ frame[c].node = "security_audit" /\ HasFindings(c, reading) =>
           \E i \in 1 .. Len(artifacts) : artifacts[i] = Command("orchestrator")
  BY <1>2, <1>5, ArtifactsShape
<1>7. /\ Emit("memory").kind = "memory" /\ Emit("memory").target = "none"
      /\ Command("orchestrator").kind = "command"
      /\ Command("orchestrator").target = "orchestrator"
  BY DEF Emit, Command
<1>8. \A i \in 1 .. Len(artifacts) : Stored(i).kind = artifacts[i].kind
  BY DEF RowOf
<1> HIDE DEF artifacts
<1>9. RowOf(c, "memory", "none") \in blackboard[c]
  BY <1>3, <1>6, <1>7
<1>10. frame[c].node = "security_audit" /\ state[c].lastError =>
         RowOf(c, "command", "orchestrator") \in blackboard[c]
  BY <1>3, <1>6, <1>7 DEF HasFindings
<1>11. frame[c].node # "security_audit" => \A row \in Emitted(c) : row.kind # "audit"
  BY <1>4, <1>6, <1>8
<1> QED BY <1>2, <1>3, <1>4, <1>9, <1>10, <1>11

(* The reports there were keep their place, and the new one is the last.     *)
LEMMA EarlierReports ==
  ASSUME TypeOK, TokensInFlight, NEW c \in Cycles, Leaves(c)
  PROVE  /\ Run(c) \in Nat \ {0} /\ Len(state[c].reports) = Run(c) - 1
         /\ Len(state'[c].reports) = Run(c) /\ Run(c)' = Run(c) + 1
         /\ \A i \in 1 .. Run(c) - 1 : state'[c].reports[i] = state[c].reports[i]
         /\ state'[c].reports[Run(c)].agent = frame[c].node
<1>1. Run(c) \in Nat \ {0} /\ Len(state[c].reports) \in Nat
  BY StateType DEF GraphState
<1>2. Run(c) = Len(state[c].reports) + 1
  BY DEF Run
<1>3. /\ Run(c)' = Run(c) + 1 /\ Len(state'[c].reports) = Run(c)
      /\ \A i \in 1 .. Len(state[c].reports) : state'[c].reports[i] = state[c].reports[i]
      /\ state'[c].reports[Run(c)].agent = frame[c].node
  BY ReportsGrow
<1> QED BY <1>1, <1>2, <1>3

(* Every step keeps what is about to be stored an emission of its agent.     *)
LEMMA AgentsStep ==
  ASSUME TypeOK, TokensInFlight, RowsInFlight, RowsComeFromAgents, [Next]_vars
  PROVE  RowsComeFromAgents'
<1> DEFINE Emitting(d) ==
             frame[d].pc = "persist" =>
               \E reading \in Readings : frame[d].artifacts \in Artifacts(d, reading)
           Links(d) == \A row \in blackboard[d] : row.kind = "link" =>
             row.target = "none" /\ (row.run = Run(d) => frame[d].node \in Specialists)
           Audits(d) == \A row \in state[d].rows : row.kind = "audit" =>
             \E j \in 1 .. Len(state[d].reports) : state[d].reports[j].agent = "security_audit"
<1> SUFFICES ASSUME NEW d \in Cycles PROVE Emitting(d)' /\ Links(d)' /\ Audits(d)'
  BY DEF RowsComeFromAgents
<1>1. Emitting(d) /\ Links(d) /\ Audits(d)
  BY DEF RowsComeFromAgents
<1>3. CASE ~Leaves(d)
  <2>1. /\ state'[d] = state[d] /\ frame'[d].node = frame[d].node
        /\ Run(d)' = Run(d)
    BY <1>3, StepCases
  <2>4. Links(d)'
    BY <1>1, <2>1, NewRows
  <2>2. Audits(d)'
    BY <1>1, <2>1
  <2>3. ASSUME frame'[d].pc = "persist"
        PROVE  \E reading \in Readings : frame'[d].artifacts \in Artifacts(d, reading)'
    <3>1. \E reading \in Readings : frame'[d].artifacts \in Artifacts(d, reading)
      BY <1>1, <1>3, <2>3, PersistEffect
    <3> QED BY <2>1, <3>1, SameArtifacts
  <2> QED BY <2>2, <2>3, <2>4
<1>4. CASE Leaves(d)
  <2>1. frame'[d].pc = "boundary"
    BY <1>4, LeavesFrame
  <2>4. Links(d)'
    <3>1. /\ blackboard' = blackboard /\ Run(d)' = Run(d) + 1
          /\ Run(d) \in Nat /\ blackboard[d] \subseteq Row
      BY <1>4, LeavesEffect, EarlierReports, StateType
    <3>2. \A row \in blackboard[d] : row.run \in Nat /\ row.run <= Run(d)
      BY <3>1 DEF RowsInFlight, Row
    <3> QED BY <1>1, <3>1, <3>2
  <2>2. CASE state'[d].rows = state[d].rows
    <3>1. \A j \in 1 .. Len(state[d].reports) :
            /\ j \in 1 .. Len(state'[d].reports)
            /\ state'[d].reports[j].agent = state[d].reports[j].agent
      BY <1>4, EarlierReports
    <3> QED BY <1>1, <2>1, <2>2, <2>4, <3>1
  <2>3. CASE CompleteRun(d) /\ state'[d].rows = state[d].rows \union Emitted(d)
    <3>1. \A j \in 1 .. Len(state[d].reports) :
            /\ j \in 1 .. Len(state'[d].reports)
            /\ state'[d].reports[j].agent = state[d].reports[j].agent
      BY <1>4, EarlierReports
    <3>2. \/ frame[d].node = "security_audit"
          \/ \A row \in Emitted(d) : row.kind # "audit"
      BY <2>3, CompletedEmits
    <3>3. /\ Run(d) \in 1 .. Len(state'[d].reports)
          /\ state'[d].reports[Run(d)].agent = frame[d].node
      BY <1>4, EarlierReports
    <3> QED BY <1>1, <2>1, <2>3, <2>4, <3>1, <3>2, <3>3
  <2> QED BY <1>4, <2>2, <2>3, LeavesEffect
<1> QED BY <1>3, <1>4

(* Every step keeps the relation of a completed run's memory a memory that   *)
(* is stored.                                                                *)
LEMMA LinksStep ==
  ASSUME TypeOK, TokensInFlight, RowsInFlight, RowsComeFromAgents, LinksNameStoredMemories,
         [Next]_vars
  PROVE  LinksNameStoredMemories'
<1> DEFINE Named(d, row) ==
      \/ [row EXCEPT !.kind = "memory"] \in blackboard[d]
      \/ row.run = Run(d)
      \/ row.run < Run(d) /\ state[d].reports[row.run].status = "failed"
<1> SUFFICES ASSUME NEW d \in Cycles, NEW row \in blackboard'[d], row.kind = "link"
             PROVE  Named(d, row)'
  BY DEF LinksNameStoredMemories
<1>1. CASE ~Leaves(d)
  <2>1. /\ state'[d] = state[d] /\ Run(d)' = Run(d)
        /\ row \in blackboard[d] \/ row.run = Run(d)
        /\ blackboard[d] \subseteq blackboard'[d]
    BY <1>1, StepCases
  <2>2. row \in blackboard[d] => Named(d, row)
    BY DEF LinksNameStoredMemories
  <2> QED BY <2>1, <2>2
<1>2. CASE Leaves(d)
  <2>1. blackboard' = blackboard
    BY <1>2, LeavesEffect
  <2>2. /\ Run(d)' = Run(d) + 1 /\ Run(d) \in Nat \ {0}
        /\ \A i \in 1 .. Run(d) - 1 : state'[d].reports[i] = state[d].reports[i]
    BY <1>2, EarlierReports
  <2>3. row \in Row /\ row.run \in Nat \ {0}
    BY <2>1, StateType DEF Row
  <2>4. Named(d, row)
    BY <2>1 DEF LinksNameStoredMemories
  <2>5. CASE row.run # Run(d)
    BY <2>1, <2>2, <2>3, <2>4, <2>5
  <2>6. CASE row.run = Run(d)
    <3>1. row.target = "none" /\ frame[d].node \in Specialists
      BY <2>1, <2>6 DEF RowsComeFromAgents
    <3>2. \/ state'[d].reports[Run(d)].status = "failed"
          \/ CompleteRun(d)
      BY <1>2, <3>1, ReportsGrow DEF Specialists
    <3>3. CASE CompleteRun(d)
      <4>1. RowOf(d, "memory", "none") \in blackboard[d]
        BY <3>3, CompletedEmits
      <4>2. [row EXCEPT !.kind = "memory"] = RowOf(d, "memory", "none")
        BY <2>3, <2>6, <3>1 DEF Row, RowOf
      <4> QED BY <2>1, <4>1, <4>2
    <3> QED BY <2>2, <2>6, <3>2, <3>3
  <2> QED BY <2>5, <2>6
<1> QED BY <1>1, <1>2

-------------------------------------------------------------------------------
(* Tokens.                                                                 *)

(* A task that does not leave its node keeps the token it is registering,    *)
(* and a token that is new to the bus is its own cycle's to register.        *)
LEMMA TokensKept ==
  ASSUME TypeOK, TokensInFlight, RowsInFlight, [Next]_vars
  PROVE  /\ \A d \in Cycles : ~Leaves(d) => frame[d].token \subseteq frame'[d].token
         /\ \A a \in approved' \ approved : a.cycle \in Cycles /\ a \in frame'[a.cycle].token
<1>1. CASE UNCHANGED <<request, state, frame, blackboard, approved>>
  BY <1>1
<1>2. CASE Crash
  <2>1. \A d \in Cycles : frame'[d].token = frame[d].token
    BY <1>2, StateType DEF Crash, Frame
  <2> QED BY <1>2, <2>1 DEF Crash
<1>3. ASSUME NEW c \in Cycles, Moves(c)
      PROVE  /\ \A d \in Cycles : frame'[d].token = frame[d].token
             /\ approved' = approved
  <2>1. PICK pc : frame' = [frame EXCEPT ![c] = [frame[c] EXCEPT !.pc = pc]]
    BY <1>3, MovesEffect
  <2> QED BY <1>3, <2>1, MovesEffect, StateType DEF Frame, TypeOK
<1>4. ASSUME NEW c \in Cycles, Leaves(c)
      PROVE  /\ \A d \in Cycles \ {c} : frame'[d] = frame[d]
             /\ approved' = approved
  BY <1>4, LeavesEffect
<1>5. ASSUME NEW c \in Cycles, Writes(c)
      PROVE  /\ \A d \in Cycles : frame'[d].token = frame[d].token
             /\ approved' = approved
  <2>1. \A d \in Cycles \ {c} : frame'[d] = frame[d]
    BY <1>5, WritesEffect
  <2>2. \/ \E pc \in {"sandbox", "effected"} : frame'[c] = [frame[c] EXCEPT !.pc = pc]
        \/ frame'[c] = [frame[c] EXCEPT !.written = @ + 1]
    BY <1>5, WritesEffect
  <2>3. frame'[c].token = frame[c].token
    BY <2>2, StateType DEF Frame
  <2>4. approved' = approved
    BY <1>5, WritesEffect
  <2> QED BY <2>1, <2>3, <2>4
<1>6. ASSUME NEW c \in Cycles, IssueApproval(c)
      PROVE  /\ \A d \in Cycles : frame[d].token \subseteq frame'[d].token
             /\ \A a \in approved' \ approved : a.cycle \in Cycles /\ a \in frame'[a.cycle].token
  <2> DEFINE token == [cycle |-> c, run |-> Run(c), target |-> Head(PendingAgents(c)),
                       expires |-> Expiry]
  <2>1. /\ frame' = [frame EXCEPT ![c].pc = "approving", ![c].token = {token}]
        /\ approved' = approved \union {token}
        /\ frame[c].pc = "work"
    BY <1>6 DEF IssueApproval, InNode
  <2>2. token.cycle = c
    OBVIOUS
  <2>3. frame[c].token = {}
    BY <2>1 DEF TokensInFlight, Running
  <2> HIDE DEF token
  <2>4. /\ frame'[c].token = {token}
        /\ \A d \in Cycles \ {c} : frame'[d] = frame[d]
    BY <2>1, StateType DEF Frame, TypeOK
  <2> QED BY <2>1, <2>2, <2>3, <2>4
<1>7. ASSUME NEW c \in Cycles, Produce(c)
      PROVE  /\ \A d \in Cycles : frame'[d].token = frame[d].token
             /\ approved' = approved
  <2>1. PICK artifacts :
          frame'[c] = [frame[c] EXCEPT !.pc = "persist", !.artifacts = artifacts]
    BY <1>7, ProduceEffect
  <2>2. approved' = approved /\ \A d \in Cycles \ {c} : frame'[d] = frame[d]
    BY <1>7, ProduceEffect
  <2>3. frame'[c].token = frame[c].token
    BY <2>1, StateType DEF Frame
  <2> QED BY <2>2, <2>3
<1> QED BY <1>1, <1>2, <1>3, <1>4, <1>5, <1>6, <1>7, StepShapes

(* Every step keeps a token of the bus in its cycle's state, on its way      *)
(* there, or the token of a run that failed.                                 *)
LEMMA UnheldStep ==
  ASSUME TypeOK, TokensInFlight, RowsInFlight, UnheldTokensWereInterrupted, [Next]_vars
  PROVE  UnheldTokensWereInterrupted'
<1> DEFINE Held(a, d) ==
      \/ a \in state[d].approvals
      \/ a \in frame[d].token
      \/ a.run < Run(d) /\ state[d].reports[a.run].status = "failed"
<1> SUFFICES ASSUME NEW a \in approved' PROVE Held(a, a.cycle)'
  BY DEF UnheldTokensWereInterrupted
<1>1. CASE a \notin approved
  BY <1>1, TokensKept
<1>2. CASE a \in approved
  <2> DEFINE d == a.cycle
  <2>1. d \in Cycles /\ a.run \in Nat \ {0}
    BY <1>2 DEF TypeOK, Approval
  <2>2. Held(a, d)
    BY <1>2 DEF UnheldTokensWereInterrupted
  <2> HIDE DEF d
  <2>3. CASE ~Leaves(d)
    <3>1. state'[d] = state[d] /\ Run(d)' = Run(d) /\ frame[d].token \subseteq frame'[d].token
      BY <2>1, <2>3, StepCases, TokensKept
    <3> QED BY <2>2, <3>1 DEF d
  <2>4. CASE Leaves(d)
    <3>1. /\ Run(d)' = Run(d) + 1 /\ Run(d) \in Nat \ {0}
          /\ \A i \in 1 .. Run(d) - 1 : state'[d].reports[i] = state[d].reports[i]
      BY <2>1, <2>4, EarlierReports
    <3>2. state[d].approvals \subseteq state'[d].approvals
      BY <2>1, <2>4, LeavesEffect
    <3>3. CASE a \in state[d].approvals
      BY <3>2, <3>3 DEF d
    <3>4. CASE a.run < Run(d) /\ state[d].reports[a.run].status = "failed"
      BY <2>1, <3>1, <3>4 DEF d
    <3>5. CASE a \in frame[d].token
      <4>1. frame[d].pc = "approving" /\ a.run = Run(d)
        BY <2>1, <2>4, <3>5, LeavesFrame DEF TokensInFlight
      <4>2. Failed(d) \/ Route(d)
        BY <2>1, <2>4, <4>1, LeaveCases DEF Finalize, CompleteRun, InNode
      <4>3. CASE Route(d)
        BY <2>1, <3>5, <4>3, RouteFields DEF d
      <4>4. CASE Failed(d)
        <5>1. state'[d].reports[Run(d)].status = "failed"
          BY <2>1, <4>4, ReportedFields DEF Failed
        <5> QED BY <3>1, <4>1, <5>1 DEF d
      <4> QED BY <4>2, <4>3, <4>4
    <3> QED BY <2>2, <3>3, <3>4, <3>5
  <2> QED BY <2>3, <2>4 DEF d
<1> QED BY <1>1, <1>2

-------------------------------------------------------------------------------
(* Runs and reruns.                                                        *)

(* The decisions of a routed cycle are the start of its plan.                *)
LEMMA DecisionsStartPlan ==
  ASSUME TypeOK, RoutesFollowPlans, NEW c \in Cycles, state[c].planned, state[c].summary = <<>>
  PROVE  /\ state[c].decisions \in Seq(Specialists) /\ state[c].pending \in Seq(Specialists)
         /\ Len(state[c].decisions) \in Nat \ {0}
         /\ state[c].next = state[c].decisions[Len(state[c].decisions)]
         /\ \A i, j \in 1 .. Len(state[c].decisions) :
              state[c].decisions[i] = state[c].decisions[j] => i = j
         /\ \A i \in 1 .. Len(state[c].decisions) : state[c].decisions[i] = "monitor" => i = 1
         /\ \A i \in 1 .. Len(state[c].decisions), j \in 1 .. Len(state[c].pending) :
              state[c].decisions[i] # state[c].pending[j]
<1> DEFINE D == state[c].decisions
           P == state[c].pending
<1>1. /\ D \in Seq(Specialists) /\ D # <<>> /\ D \o P \in Plans
      /\ state[c].next = D[Len(D)]
  BY DEF RoutesFollowPlans
<1>2. P \in Seq(Specialists)
  BY StateType DEF GraphState
<1>3. Distinct(D \o P) /\ MonitorFirst(D \o P)
  BY <1>1, PlansType
<1> HIDE DEF D, P
<1>4. /\ Len(D) \in Nat \ {0} /\ Len(P) \in Nat /\ Len(D \o P) = Len(D) + Len(P)
      /\ \A i \in 1 .. Len(D) : (D \o P)[i] = D[i]
      /\ \A j \in 1 .. Len(P) : (D \o P)[Len(D) + j] = P[j]
  BY <1>1, <1>2
<1>5. /\ \A i, j \in 1 .. Len(D) : D[i] = D[j] => i = j
      /\ \A i \in 1 .. Len(D) : D[i] = "monitor" => i = 1
      /\ \A i \in 1 .. Len(D), j \in 1 .. Len(P) : D[i] # P[j]
  <2> DEFINE Q == D \o P
  <2>1. /\ \A i, j \in 1 .. Len(Q) : Q[i] = Q[j] => i = j
        /\ \A i \in 1 .. Len(Q) : Q[i] = "monitor" => i = 1
    BY <1>3 DEF Distinct, MonitorFirst
  <2>2. /\ \A i \in 1 .. Len(D) : i \in 1 .. Len(Q) /\ Q[i] = D[i]
        /\ \A j \in 1 .. Len(P) : Len(D) + j \in 1 .. Len(Q) /\ Q[Len(D) + j] = P[j]
    BY <1>4
  <2> HIDE DEF Q
  <2>3. \A i \in 1 .. Len(D), j \in 1 .. Len(P) : D[i] # P[j]
    <3> SUFFICES ASSUME NEW i \in 1 .. Len(D), NEW j \in 1 .. Len(P), D[i] = P[j]
                 PROVE  FALSE
      OBVIOUS
    <3>1. Q[i] = Q[Len(D) + j]
      BY <2>2
    <3>2. i = Len(D) + j
      BY <2>1, <2>2, <3>1
    <3> QED BY <1>4, <3>2
  <2> QED BY <2>1, <2>2, <2>3
<1> QED BY <1>1, <1>2, <1>4, <1>5 DEF D, P

(* A specialist that is active is the one routed to last.                    *)
LEMMA ActiveIsRouted ==
  ASSUME TypeOK, RoutesFollowPlans, NEW c \in Cycles, frame[c].node \in Specialists
  PROVE  state[c].planned /\ state[c].summary = <<>> /\ frame[c].node = state[c].next
<1>1. "orchestrator" \notin Specialists /\ "__end__" \notin Specialists
  BY DEF Specialists
<1>2. state[c].planned \in BOOLEAN
  BY StateType DEF GraphState
<1> QED BY <1>1, <1>2 DEF RoutesFollowPlans

(* A route never names an agent that was routed to before.                   *)
LEMMA RouteIsNew ==
  ASSUME TypeOK, TokensInFlight, RoutesFollowPlans, NEW c \in Cycles, Route(c)
  PROVE  \A n \in 1 .. Len(state[c].decisions) :
           state[c].decisions[n] # Head(PendingAgents(c))
<1>1. frame[c].node = "orchestrator" /\ PendingAgents(c) # <<>>
  BY RouteFields
<1>2. CASE ~state[c].planned
  BY <1>2 DEF RoutesFollowPlans
<1>3. CASE state[c].planned
  <2>1. state[c].summary = <<>> /\ PendingAgents(c) = state[c].pending
    BY <1>1, <1>3, PendingIsPlanned
  <2>2. /\ state[c].pending \in Seq(Specialists)
        /\ \A i \in 1 .. Len(state[c].decisions), j \in 1 .. Len(state[c].pending) :
             state[c].decisions[i] # state[c].pending[j]
    BY <1>3, <2>1, DecisionsStartPlan
  <2>3. 1 \in 1 .. Len(state[c].pending) /\ Head(state[c].pending) = state[c].pending[1]
    BY <1>1, <2>1, <2>2
  <2> QED BY <2>1, <2>2, <2>3
<1> QED BY <1>2, <1>3

(* Whatever leaves a node keeps the decisions there are.                     *)
LEMMA DecisionsKept ==
  ASSUME TypeOK, TokensInFlight, NEW c \in Cycles, Leaves(c)
  PROVE  /\ Len(state[c].decisions) \in Nat /\ Len(state'[c].decisions) \in Nat
         /\ Len(state[c].decisions) <= Len(state'[c].decisions)
         /\ \A n \in 1 .. Len(state[c].decisions) :
              state'[c].decisions[n] = state[c].decisions[n]
<1>1. state[c].decisions \in Seq(Specialists \union {"finalize"})
  BY StateType DEF GraphState
<1>2. \/ state'[c].decisions = state[c].decisions
      \/ \E x \in Specialists \union {"finalize"} :
           state'[c].decisions = Append(state[c].decisions, x)
  BY LeaveCases, RouteFields, FinalizeFields, CompleteFields DEF Failed
<1> QED BY <1>1, <1>2

(* Every step keeps a failed orchestrator between two runs of an agent.      *)
LEMMA RerunsStep ==
  ASSUME TypeOK, TokensInFlight, RowsInFlight, RoutesFollowPlans, RerunsFollowFailures,
         [Next]_vars
  PROVE  RerunsFollowFailures'
<1> DEFINE Failure(d, k) ==
             state[d].reports[k].agent = "orchestrator" /\ state[d].reports[k].status = "failed"
           Explained(d, i) ==
             /\ \E n \in 1 .. Len(state[d].decisions) :
                  state[d].decisions[n] = state[d].reports[i].agent
             /\ \A j \in i + 1 .. Len(state[d].reports) :
                  state[d].reports[j].agent = state[d].reports[i].agent
                    => \E k \in i + 1 .. j - 1 : Failure(d, k)
             /\ frame[d].node = state[d].reports[i].agent
                  => \E k \in i + 1 .. Run(d) - 1 : Failure(d, k)
<1> SUFFICES ASSUME NEW d \in Cycles, NEW i \in 1 .. Len(state'[d].reports),
                    state'[d].reports[i].agent \in Specialists
             PROVE  Explained(d, i)'
  BY DEF RerunsFollowFailures
<1>1. ASSUME i \in 1 .. Len(state[d].reports), state[d].reports[i].agent \in Specialists
      PROVE  Explained(d, i)
  BY <1>1 DEF RerunsFollowFailures
<1>2. CASE ~Leaves(d)
  <2>1. state'[d] = state[d] /\ frame'[d].node = frame[d].node /\ Run(d)' = Run(d)
    BY <1>2, StepCases
  <2> QED BY <1>1, <2>1
<1>3. CASE Leaves(d)
  <2> DEFINE r == Run(d)
             old == state[d].reports
             new == state'[d].reports
             node == frame[d].node
  <2>1. /\ r \in Nat \ {0} /\ Len(old) = r - 1 /\ Len(new) = r /\ Run(d)' = r + 1
        /\ \A k \in 1 .. r - 1 : new[k] = old[k]
        /\ new[r].agent = node
    BY <1>3, EarlierReports
  <2>2. "orchestrator" \notin Specialists /\ "__end__" \notin Specialists
    BY DEF Specialists
  <2>3. frame'[d].node = NextNode(node, state'[d]) /\ node \in Nodes
    BY <1>3, LeavesFrame
  <2>4. ASSUME i < r
        PROVE  /\ new[i] = old[i]
               /\ \E n \in 1 .. Len(state[d].decisions) : state[d].decisions[n] = old[i].agent
               /\ \A j \in i + 1 .. r - 1 : old[j].agent = old[i].agent =>
                    \E k \in i + 1 .. j - 1 : old[k].agent = "orchestrator" /\ old[k].status = "failed"
               /\ node = old[i].agent =>
                    \E k \in i + 1 .. r - 1 : old[k].agent = "orchestrator" /\ old[k].status = "failed"
    <3>1. i \in 1 .. Len(old) /\ new[i] = old[i] /\ old[i].agent \in Specialists
      BY <2>1, <2>4
    <3>2. Explained(d, i)
      BY <1>1, <3>1
    <3> QED BY <2>1, <3>1, <3>2
  <2>5. i \in 1 .. r /\ new[i].agent \in Specialists
    BY <2>1
  <2>7. \E n \in 1 .. Len(state'[d].decisions) : state'[d].decisions[n] = new[i].agent
    <3>1. \E n \in 1 .. Len(state[d].decisions) : state[d].decisions[n] = new[i].agent
      <4>1. CASE i < r
        BY <2>4, <4>1
      <4>2. CASE i = r
        <5>1. node \in Specialists /\ new[i].agent = node
          BY <2>1, <2>5, <4>2
        <5>2. node = state[d].next /\ state[d].planned /\ state[d].summary = <<>>
          BY <5>1, ActiveIsRouted
        <5>3. /\ Len(state[d].decisions) \in Nat \ {0}
              /\ state[d].next = state[d].decisions[Len(state[d].decisions)]
          BY <5>2, DecisionsStartPlan
        <5>4. Len(state[d].decisions) \in 1 .. Len(state[d].decisions)
          BY <5>3
        <5> HIDE DEF new, old, r, node
        <5> QED BY <5>1, <5>2, <5>3, <5>4
      <4> QED BY <2>1, <2>5, <4>1, <4>2
    <3> QED BY <1>3, <3>1, DecisionsKept
  <2>8. ASSUME NEW j \in i + 1 .. r, new[j].agent = new[i].agent
        PROVE  \E k \in i + 1 .. j - 1 : Failure(d, k)'
    <3>1. \A k : Failure(d, k)' <=> (new[k].agent = "orchestrator" /\ new[k].status = "failed")
      OBVIOUS
    <3> HIDE DEF Failure, Explained, new, old, r, node
    <3>2. i < r
      BY <2>1, <2>5
    <3>3. \E k \in i + 1 .. j - 1 : old[k].agent = "orchestrator" /\ old[k].status = "failed"
      <4>1. CASE j < r
        BY <2>1, <2>4, <2>5, <2>8, <3>2, <4>1
      <4>2. CASE j = r
        BY <2>1, <2>4, <2>5, <2>8, <3>2, <4>2
      <4> QED BY <2>1, <4>1, <4>2
    <3> QED BY <2>1, <2>5, <3>1, <3>3
  <2>6. ASSUME frame'[d].node = new[i].agent
        PROVE  \E k \in i + 1 .. r : Failure(d, k)'
    <3>1. node = "orchestrator" /\ state'[d].next = new[i].agent
      BY <2>2, <2>3, <2>6 DEF NextNode
    <3>2. i < r
      BY <2>1, <2>2, <3>1
    <3>3. CASE Failed(d)
      <4>1. new[r].status = "failed"
        BY <3>3, ReportedFields DEF Failed
      <4>2. r \in i + 1 .. r /\ new[r].agent = "orchestrator" /\ new[r].status = "failed"
        BY <2>1, <2>5, <3>1, <3>2, <4>1
      <4>3. \A k : Failure(d, k)' <=> (new[k].agent = "orchestrator" /\ new[k].status = "failed")
        OBVIOUS
      <4> HIDE DEF r, new, Failure
      <4> QED BY <4>2, <4>3
    <3>4. CASE Route(d)
      <4>1. new[i].agent = Head(PendingAgents(d))
        BY <3>1, <3>4, RouteFields
      <4>2. \E n \in 1 .. Len(state[d].decisions) : state[d].decisions[n] = new[i].agent
        BY <2>4, <3>2
      <4> QED BY <3>4, <4>1, <4>2, RouteIsNew
    <3>5. CASE Finalize(d)
      BY <2>2, <2>5, <3>1, <3>5, FinalizeFields
    <3>6. CASE CompleteRun(d)
      BY <2>2, <3>1, <3>6 DEF CompleteRun, InNode, RowsInFlight
    <3> QED BY <1>3, <3>3, <3>4, <3>5, <3>6, LeaveCases
  <2> QED BY <2>1, <2>6, <2>7, <2>8
<1> QED BY <1>2, <1>3

(* Every step keeps sandbox commands the planner's.                          *)
LEMMA PlannersStep ==
  ASSUME TypeOK, TokensInFlight, RowsInFlight, CommandsComeFromPlanners, [Next]_vars
  PROVE  CommandsComeFromPlanners'
<1> DEFINE Planned(d, run) ==
      \/ run = Run(d) /\ frame[d].node = "planner_executor"
      \/ run < Run(d) /\ state[d].reports[run].agent = "planner_executor"
<1> SUFFICES ASSUME NEW command \in sandboxes' PROVE Planned(command.cycle, command.run)'
  BY DEF CommandsComeFromPlanners
<1>1. ASSUME NEW c \in Cycles, StartSandbox(c), command = CommandOf(c)
      PROVE  Planned(command.cycle, command.run)'
  <2>1. command.cycle = c /\ command.run = Run(c)
    BY <1>1 DEF CommandOf
  <2>2. /\ Run(c)' = Run(c) /\ frame[c].node = "planner_executor"
        /\ frame'[c] = [frame[c] EXCEPT !.pc = "sandbox"]
    BY <1>1 DEF StartSandbox, Run, Enter, TypeOK
  <2>3. frame'[c].node = "planner_executor"
    BY <2>2, StateType DEF Frame
  <2> QED BY <2>1, <2>2, <2>3
<1>2. CASE command \in sandboxes
  <2> DEFINE d == command.cycle
             run == command.run
  <2>1. d \in Cycles /\ run \in Nat \ {0}
    BY <1>2 DEF TypeOK, Sandbox
  <2>2. Planned(d, run)
    BY <1>2 DEF CommandsComeFromPlanners
  <2>3. ASSUME ~Leaves(d)
        PROVE  Planned(d, run)'
    <3>1. state'[d] = state[d] /\ Run(d)' = Run(d) /\ frame'[d].node = frame[d].node
      BY <2>1, <2>3, StepCases
    <3> QED BY <2>2, <3>1
  <2>4. ASSUME Leaves(d)
        PROVE  Planned(d, run)'
    <3>1. /\ Run(d) \in Nat \ {0} /\ Run(d)' = Run(d) + 1
          /\ \A k \in 1 .. Run(d) - 1 : state'[d].reports[k] = state[d].reports[k]
          /\ state'[d].reports[Run(d)].agent = frame[d].node
      BY <2>1, <2>4, EarlierReports
    <3>2. run < Run(d)' /\ state'[d].reports[run].agent = "planner_executor"
      <4> HIDE DEF d, run
      <4>1. CASE run = Run(d)
        BY <2>1, <2>2, <3>1, <4>1
      <4>2. CASE run < Run(d)
        BY <2>1, <2>2, <3>1, <4>2
      <4> QED BY <2>2, <4>1, <4>2
    <3> QED BY <3>2
  <2> QED BY <2>3, <2>4
<1> QED BY <1>1, <1>2, SandboxesEffect

(* A run that fails says why in last_error; one that completes keeps it.     *)
LEMMA ErrorKept ==
  ASSUME TypeOK, TokensInFlight, NEW c \in Cycles, Leaves(c)
  PROVE  \/ /\ state'[c].reports[Run(c)].status = "failed"
            /\ state'[c].lastError = state'[c].reports[Run(c)].told
         \/ /\ state'[c].reports[Run(c)].status = "completed"
            /\ state'[c].lastError = state[c].lastError
<1>1. CASE Failed(c)
  BY <1>1, ReportedFields DEF Failed
<1>2. CASE /\ state'[c].reports = Reported(c, "completed", TRUE)
           /\ state'[c].lastError = state[c].lastError
  <2>1. PICK told \in BOOLEAN : state'[c].reports = Reported(c, "completed", told)
    BY <1>2
  <2>2. Reported(c, "completed", told)[Run(c)].status = "completed"
    BY ReportedFields
  <2>3. state'[c].reports[Run(c)].status = "completed"
    BY <2>1, <2>2
  <2> QED BY <1>2, <2>3
<1>3. CASE Route(c)
  BY <1>2, <1>3, RouteFields
<1>4. CASE Finalize(c)
  BY <1>2, <1>4, FinalizeFields
<1>5. CASE CompleteRun(c)
  BY <1>2, <1>5, CompleteFields
<1> QED BY <1>1, <1>3, <1>4, <1>5, LeaveCases

(* Every step keeps a failure that was told remembered.                      *)
LEMMA RememberedStep ==
  ASSUME TypeOK, TokensInFlight, RowsInFlight, FailuresAreRemembered, [Next]_vars
  PROVE  FailuresAreRemembered'
<1> SUFFICES ASSUME NEW d \in Cycles, NEW i \in 1 .. Len(state'[d].reports),
                    state'[d].reports[i].status = "failed",
                    \A k \in i .. Len(state'[d].reports) : state'[d].reports[k].told
             PROVE  state'[d].lastError
  BY DEF FailuresAreRemembered
<1>1. ASSUME i \in 1 .. Len(state[d].reports), state[d].reports[i].status = "failed",
             \A k \in i .. Len(state[d].reports) : state[d].reports[k].told
      PROVE  state[d].lastError
  BY <1>1 DEF FailuresAreRemembered
<1>2. CASE ~Leaves(d)
  BY <1>1, <1>2, StepCases
<1>3. CASE Leaves(d)
  <2>1. /\ Run(d) \in Nat \ {0} /\ Len(state[d].reports) = Run(d) - 1
        /\ Len(state'[d].reports) = Run(d)
        /\ \A k \in 1 .. Run(d) - 1 : state'[d].reports[k] = state[d].reports[k]
    BY <1>3, EarlierReports
  <2>2. state'[d].reports[Run(d)].told
    BY <2>1
  <2>3. CASE state'[d].reports[Run(d)].status = "failed"
    BY <1>3, <2>2, <2>3, ErrorKept
  <2>4. CASE state'[d].reports[Run(d)].status = "completed"
    <3>1. i \in 1 .. Run(d) - 1
      BY <2>1, <2>4
    <3>2. \A k \in i .. Run(d) - 1 : state'[d].reports[k].told /\ k \in 1 .. Run(d) - 1
      BY <2>1, <3>1
    <3>3. state[d].lastError
      BY <1>1, <2>1, <3>1, <3>2
    <3> QED BY <1>3, <2>4, <3>3, ErrorKept
  <2> QED BY <1>3, <2>3, <2>4, ErrorKept
<1> QED BY <1>2, <1>3

(* Every step keeps a REMEDIATE command stored by every completed audit that *)
(* followed a failure.                                                       *)
LEMMA AuditsStep ==
  ASSUME TypeOK, TokensInFlight, RowsInFlight, RowsComeFromAgents, FailuresAreRemembered,
         FailuresReachLaterAudits, [Next]_vars
  PROVE  FailuresReachLaterAudits'
<1> DEFINE Stored(j) == [run |-> j, kind |-> "command", target |-> "orchestrator"]
<1> SUFFICES ASSUME NEW d \in Cycles, NEW i \in 1 .. Len(state'[d].reports),
                    NEW j \in 1 .. Len(state'[d].reports), i < j,
                    state'[d].reports[i].status = "failed",
                    \A k \in i .. j - 1 : state'[d].reports[k].told,
                    state'[d].reports[j].agent = "security_audit",
                    state'[d].reports[j].status = "completed"
             PROVE  Stored(j) \in blackboard'[d]
  BY DEF FailuresReachLaterAudits
<1>1. ASSUME i \in 1 .. Len(state[d].reports), j \in 1 .. Len(state[d].reports),
             state[d].reports[i].status = "failed",
             \A k \in i .. j - 1 : state[d].reports[k].told,
             state[d].reports[j].agent = "security_audit",
             state[d].reports[j].status = "completed"
      PROVE  Stored(j) \in blackboard[d]
  BY <1>1 DEF FailuresReachLaterAudits
<1> HIDE DEF Stored
<1>2. CASE ~Leaves(d)
  BY <1>1, <1>2, StepCases
<1>3. CASE Leaves(d)
  <2>1. /\ Run(d) \in Nat \ {0} /\ Len(state[d].reports) = Run(d) - 1
        /\ Len(state'[d].reports) = Run(d)
        /\ \A k \in 1 .. Run(d) - 1 : state'[d].reports[k] = state[d].reports[k]
        /\ state'[d].reports[Run(d)].agent = frame[d].node
    BY <1>3, EarlierReports
  <2>2. blackboard' = blackboard
    BY <1>3, LeavesEffect
  <2>3. \A k \in i .. j - 1 : k \in 1 .. Run(d) - 1 /\ state[d].reports[k].told
    <3> SUFFICES ASSUME NEW k \in i .. j - 1
                 PROVE  k \in 1 .. Run(d) - 1 /\ state[d].reports[k].told
      OBVIOUS
    <3>1. k \in 1 .. Run(d) - 1
      BY <2>1
    <3>2. state'[d].reports[k] = state[d].reports[k] /\ state'[d].reports[k].told
      BY <2>1, <3>1
    <3> QED BY <3>1, <3>2
  <2>4. i \in 1 .. Run(d) - 1 /\ state[d].reports[i].status = "failed"
    <3>1. i \in 1 .. Run(d) - 1
      BY <2>1
    <3>2. state'[d].reports[i] = state[d].reports[i]
      BY <2>1, <3>1
    <3> QED BY <3>1, <3>2
  <2>5. CASE j < Run(d)
    <3>1. j \in 1 .. Run(d) - 1
      BY <2>1, <2>5
    <3>2. state[d].reports[j] = state'[d].reports[j]
      BY <2>1, <3>1
    <3> QED BY <1>1, <2>1, <2>2, <2>3, <2>4, <3>1, <3>2
  <2>6. CASE j = Run(d)
    <3>1. state[d].lastError
      <4>1. j - 1 = Len(state[d].reports) /\ i \in 1 .. Len(state[d].reports)
        BY <2>1, <2>4, <2>6
      <4>2. \A k \in i .. Len(state[d].reports) : state[d].reports[k].told
        BY <2>3, <4>1
      <4> QED BY <2>4, <4>1, <4>2 DEF FailuresAreRemembered
    <3>2. frame[d].node = "security_audit"
      BY <2>1, <2>6
    <3>3. CompleteRun(d)
      BY <1>3, <2>6, <3>2, ReportsGrow
    <3>4. RowOf(d, "command", "orchestrator") \in blackboard[d]
      BY <3>1, <3>2, <3>3, CompletedEmits
    <3> QED BY <2>2, <2>6, <3>4 DEF RowOf, Stored
  <2> QED BY <2>1, <2>5, <2>6
<1> QED BY <1>2, <1>3

-------------------------------------------------------------------------------
(* Counting.  How many items of a sequence are in a set.                     *)

Indices(q, S) == {i \in 1 .. Len(q) : q[i] \in S}

Count(q, S) == Cardinality(Indices(q, S))

(* The items of a sequence in a set are finitely many.                       *)
LEMMA CountIsNat ==
  ASSUME NEW T, NEW q \in Seq(T), NEW S
  PROVE  /\ IsFiniteSet(Indices(q, S)) /\ Count(q, S) \in Nat
         /\ Indices(q, S) \subseteq 1 .. Len(q)
<1>1. Len(q) \in Nat
  OBVIOUS
<1>2. IsFiniteSet(1 .. Len(q))
  BY <1>1, FS_Interval
<1>3. Indices(q, S) \subseteq 1 .. Len(q)
  BY DEF Indices
<1>4. IsFiniteSet(Indices(q, S))
  BY <1>2, <1>3, FS_Subset
<1> QED BY <1>3, <1>4, FS_CardinalityType DEF Count

(* One item more counts for one where it is in the set.                      *)
LEMMA CountAppend ==
  ASSUME NEW T, NEW q \in Seq(T), NEW x \in T, NEW S
  PROVE  /\ Count(q, S) \in Nat
         /\ Count(Append(q, x), S) = Count(q, S) + (IF x \in S THEN 1 ELSE 0)
<1>1. Len(q) \in Nat
  OBVIOUS
<1>2. IsFiniteSet(Indices(q, S)) /\ Count(q, S) \in Nat /\ Indices(q, S) \subseteq 1 .. Len(q)
  BY CountIsNat
<1>3. Indices(Append(q, x), S) =
        IF x \in S THEN Indices(q, S) \union {Len(q) + 1} ELSE Indices(q, S)
  <2>1. /\ Len(Append(q, x)) = Len(q) + 1 /\ Append(q, x)[Len(q) + 1] = x
        /\ \A i \in 1 .. Len(q) : Append(q, x)[i] = q[i]
    OBVIOUS
  <2> QED BY <1>1, <2>1 DEF Indices
<1>4. CASE x \in S
  <2>1. Len(q) + 1 \notin Indices(q, S)
    BY <1>1, <1>2
  <2>2. Cardinality(Indices(q, S) \union {Len(q) + 1}) = Cardinality(Indices(q, S)) + 1
    BY <1>2, <2>1, FS_AddElement
  <2> QED BY <1>2, <1>3, <1>4, <2>2 DEF Count
<1>5. CASE x \notin S
  BY <1>2, <1>3, <1>5 DEF Count
<1> QED BY <1>2, <1>4, <1>5

(* Nothing is counted in an empty sequence.                                  *)
LEMMA CountEmpty ==
  ASSUME NEW S
  PROVE  Count(<<>>, S) = 0
<1>1. Indices(<<>>, S) = {}
  BY DEF Indices
<1> QED BY <1>1, FS_EmptySet DEF Count

(* The reports by agent and status.                                          *)
ReportsOf(agents, statuses) == {r \in Report : r.agent \in agents /\ r.status \in statuses}

Answers == ReportsOf(Specialists, {"completed", "failed"})
Failures == ReportsOf({"orchestrator"}, {"failed"})

(* RunsAddUp of one cycle, as a relation of its reports, its decisions and   *)
(* the node it is in.                                                        *)
Tally(reports, decisions, node) ==
  /\ Len(reports) = Count(reports, Answers) + Count(reports, Failures) + Len(decisions)
  /\ Count(reports, Answers) + (IF node \in Specialists THEN 1 ELSE 0)
       <= Count(decisions, Specialists) + Count(reports, Failures)

LEMMA ReportsAreCounted ==
  ASSUME NEW q \in Seq(Report), NEW agents, NEW statuses
  PROVE  {i \in 1 .. Len(q) : q[i].agent \in agents /\ q[i].status \in statuses}
           = Indices(q, ReportsOf(agents, statuses))
BY DEF Indices, ReportsOf

LEMMA RoutesAreCounted ==
  ASSUME NEW q \in Seq(Specialists \union {"finalize"})
  PROVE  {i \in 1 .. Len(q) : q[i] # "finalize"} = Indices(q, Specialists)
<1>1. "finalize" \notin Specialists
  BY DEF Specialists
<1> QED BY <1>1 DEF Indices

(* RunsAddUp counts what Tally counts.                                       *)
LEMMA RunsAreTallied ==
  /\ TypeOK =>
       \A c \in Cycles :
         /\ Cardinality(Reports(c, Specialists, {"completed", "failed"}))
              = Count(state[c].reports, Answers)
         /\ Cardinality(Reports(c, {"orchestrator"}, {"failed"}))
              = Count(state[c].reports, Failures)
         /\ Cardinality(Routed(c)) = Count(state[c].decisions, Specialists)
  /\ TypeOK =>
       (RunsAddUp <=>
          \A c \in Cycles : Tally(state[c].reports, state[c].decisions, frame[c].node))
<1>1. ASSUME TypeOK, NEW c \in Cycles
      PROVE  /\ Cardinality(Reports(c, Specialists, {"completed", "failed"}))
                  = Count(state[c].reports, Answers)
             /\ Cardinality(Reports(c, {"orchestrator"}, {"failed"}))
                  = Count(state[c].reports, Failures)
             /\ Cardinality(Routed(c)) = Count(state[c].decisions, Specialists)
  <2>1. /\ state[c].reports \in Seq(Report)
        /\ state[c].decisions \in Seq(Specialists \union {"finalize"})
    BY <1>1, StateType DEF GraphState
  <2>2. \A agents, statuses :
          Reports(c, agents, statuses) = Indices(state[c].reports, ReportsOf(agents, statuses))
    BY <2>1, ReportsAreCounted DEF Reports
  <2>3. Routed(c) = Indices(state[c].decisions, Specialists)
    BY <2>1, RoutesAreCounted DEF Routed
  <2> QED BY <2>2, <2>3 DEF Count, Answers, Failures
<1> QED BY <1>1 DEF RunsAddUp, Tally

(* The books stay balanced: an agent that was active pays for its answer, a  *)
(* failure of the orchestrator or a route for whichever node is next.        *)
LEMMA TallyAppend ==
  ASSUME NEW reports \in Seq(Report), NEW decisions \in Seq(Specialists \union {"finalize"}),
         NEW node, Tally(reports, decisions, node), NEW r \in Report
  PROVE  /\ node \in Specialists /\ r.agent \in Specialists =>
              Tally(Append(reports, r), decisions, "orchestrator")
         /\ r.agent = "orchestrator" /\ r.status = "failed" =>
              \A n : Tally(Append(reports, r), decisions, n)
         /\ r.agent = "orchestrator" /\ r.status = "completed" =>
              /\ \A n : \A x \in Specialists : Tally(Append(reports, r), Append(decisions, x), n)
              /\ Tally(Append(reports, r), Append(decisions, "finalize"), "__end__")
<1> DEFINE answers == Count(reports, Answers)
           failures == Count(reports, Failures)
           routes == Count(decisions, Specialists)
<1>1. /\ answers \in Nat /\ failures \in Nat
      /\ Count(Append(reports, r), Answers) = answers + (IF r \in Answers THEN 1 ELSE 0)
      /\ Count(Append(reports, r), Failures) = failures + (IF r \in Failures THEN 1 ELSE 0)
      /\ Len(reports) \in Nat /\ Len(Append(reports, r)) = Len(reports) + 1
  BY CountAppend
<1>2. /\ routes \in Nat
      /\ \A x \in Specialists \union {"finalize"} :
           Count(Append(decisions, x), Specialists) = routes + (IF x \in Specialists THEN 1 ELSE 0)
      /\ Len(decisions) \in Nat
      /\ \A x \in Specialists \union {"finalize"} : Len(Append(decisions, x)) = Len(decisions) + 1
  <2>1. \A x \in Specialists \union {"finalize"} :
          /\ Count(decisions, Specialists) \in Nat
          /\ Count(Append(decisions, x), Specialists)
               = Count(decisions, Specialists) + (IF x \in Specialists THEN 1 ELSE 0)
    BY CountAppend
  <2> QED BY <2>1
<1>3. /\ "orchestrator" \notin Specialists /\ "finalize" \notin Specialists
      /\ "__end__" \notin Specialists
  BY DEF Specialists
<1>4. /\ Len(reports) = answers + failures + Len(decisions)
      /\ answers + (IF node \in Specialists THEN 1 ELSE 0) <= routes + failures
  BY DEF Tally
<1>5. r \in Answers <=> r.agent \in Specialists
  BY DEF Answers, ReportsOf, Report
<1>6. r \in Failures <=> r.agent = "orchestrator" /\ r.status = "failed"
  BY DEF Failures, ReportsOf
<1> HIDE DEF answers, failures, routes
<1>7. ASSUME node \in Specialists, r.agent \in Specialists
      PROVE  Tally(Append(reports, r), decisions, "orchestrator")
  <2>1. r \in Answers /\ r \notin Failures
    BY <1>3, <1>5, <1>6, <1>7
  <2> QED BY <1>1, <1>2, <1>3, <1>4, <1>7, <2>1 DEF Tally, routes
<1>8. ASSUME r.agent = "orchestrator", r.status = "failed", NEW n
      PROVE  Tally(Append(reports, r), decisions, n)
  <2>1. r \notin Answers /\ r \in Failures
    BY <1>3, <1>5, <1>6, <1>8
  <2> QED BY <1>1, <1>2, <1>4, <2>1 DEF Tally, routes
<1>9. ASSUME r.agent = "orchestrator", r.status = "completed"
      PROVE  /\ \A n : \A x \in Specialists : Tally(Append(reports, r), Append(decisions, x), n)
             /\ Tally(Append(reports, r), Append(decisions, "finalize"), "__end__")
  <2>1. r \notin Answers /\ r \notin Failures
    BY <1>3, <1>5, <1>6, <1>9
  <2>2. ASSUME NEW x \in Specialists, NEW n
        PROVE  Tally(Append(reports, r), Append(decisions, x), n)
    BY <1>1, <1>2, <1>4, <2>1 DEF Tally
  <2>3. Tally(Append(reports, r), Append(decisions, "finalize"), "__end__")
    BY <1>1, <1>2, <1>3, <1>4, <2>1 DEF Tally
  <2> QED BY <2>2, <2>3
<1> QED BY <1>7, <1>8, <1>9

(* Every step keeps the books of every cycle.                                *)
LEMMA RunsStep ==
  ASSUME TypeOK, TypeOK', TokensInFlight, RowsInFlight, RunsAddUp, [Next]_vars
  PROVE  RunsAddUp'
<1>1. RunsAreTallied'
  BY RunsAreTallied, PTL
<1>2. SUFFICES ASSUME NEW d \in Cycles
               PROVE  Tally(state'[d].reports, state'[d].decisions, frame'[d].node)
  BY <1>1 DEF RunsAreTallied
<1>3. Tally(state[d].reports, state[d].decisions, frame[d].node)
  BY RunsAreTallied
<1>4. CASE ~Leaves(d)
  BY <1>3, <1>4, StepCases
<1>5. CASE Leaves(d)
  <2> DEFINE R(status, told) == [agent |-> frame[d].node, status |-> status, told |-> told]
  <2>1. /\ state[d].reports \in Seq(Report)
        /\ state[d].decisions \in Seq(Specialists \union {"finalize"})
    BY StateType DEF GraphState
  <2>2. frame[d].node \in Nodes /\ frame'[d].node = NextNode(frame[d].node, state'[d])
    BY <1>5, LeavesFrame
  <2>3. \A status \in {"completed", "failed"}, told \in BOOLEAN :
          /\ R(status, told) \in Report
          /\ R(status, told).agent = frame[d].node /\ R(status, told).status = status
          /\ Reported(d, status, told) = Append(state[d].reports, R(status, told))
    BY <2>2 DEF Report, Reported
  <2>4. /\ frame[d].node \in Specialists => frame'[d].node = "orchestrator"
        /\ frame[d].node \in Specialists \/ frame[d].node = "orchestrator"
    BY <2>2 DEF NextNode, Nodes, Specialists
  <2> HIDE DEF R
  <2>5. ASSUME NEW status \in {"completed", "failed"}, NEW told \in BOOLEAN,
               state'[d].reports = Reported(d, status, told),
               state'[d].decisions = state[d].decisions,
               frame[d].node \in Specialists \/ status = "failed"
        PROVE  Tally(state'[d].reports, state'[d].decisions, frame'[d].node)
    <3>1. CASE frame[d].node \in Specialists
      BY <1>3, <2>1, <2>3, <2>4, <2>5, <3>1, TallyAppend
    <3>2. CASE frame[d].node = "orchestrator" /\ status = "failed"
      BY <1>3, <2>1, <2>3, <2>5, <3>2, TallyAppend
    <3> QED BY <2>4, <2>5, <3>1, <3>2
  <2>6. CASE Failed(d)
    BY <2>5, <2>6 DEF Failed
  <2>7. CASE Route(d)
    <3>1. PICK told \in BOOLEAN : state'[d].reports = Reported(d, "completed", told)
      BY <2>7, RouteFields
    <3>2. /\ frame[d].node = "orchestrator" /\ Head(PendingAgents(d)) \in Specialists
          /\ state'[d].decisions = Append(state[d].decisions, Head(PendingAgents(d)))
      BY <2>7, RouteFields
    <3> QED BY <1>3, <2>1, <2>3, <3>1, <3>2, TallyAppend
  <2>8. CASE Finalize(d)
    <3>1. PICK told \in BOOLEAN : state'[d].reports = Reported(d, "completed", told)
      BY <2>8, FinalizeFields
    <3>2. /\ frame[d].node = "orchestrator" /\ state'[d].next = "__end__"
          /\ state'[d].decisions = Append(state[d].decisions, "finalize")
      BY <2>8, FinalizeFields
    <3>3. frame'[d].node = "__end__"
      BY <2>2, <3>2 DEF NextNode
    <3> QED BY <1>3, <2>1, <2>3, <3>1, <3>2, <3>3, TallyAppend
  <2>9. CASE CompleteRun(d)
    <3>1. PICK told \in BOOLEAN : state'[d].reports = Reported(d, "completed", told)
      BY <2>9, CompleteFields
    <3>2. frame[d].node \in Specialists
      BY <2>9 DEF RowsInFlight, CompleteRun, InNode
    <3>3. state'[d].decisions = state[d].decisions
      BY <2>9, CompleteFields
    <3> QED BY <2>5, <3>1, <3>2, <3>3
  <2> QED BY <1>5, <2>6, <2>7, <2>8, <2>9, LeaveCases
<1> QED BY <1>4, <1>5

(* A sequence of members of a set counts all its items.                      *)
LEMMA CountAll ==
  ASSUME NEW S, NEW q \in Seq(S)
  PROVE  Count(q, S) = Len(q)
<1>1. Len(q) \in Nat /\ Indices(q, S) = 1 .. Len(q)
  BY DEF Indices
<1>2. Cardinality(1 .. Len(q)) = IF 1 > Len(q) THEN 0 ELSE Len(q) - 1 + 1
  <2>1. 1 \in Int /\ Len(q) \in Int
    BY <1>1
  <2> QED BY <2>1, FS_Interval, Zenon
<1>3. Cardinality(1 .. Len(q)) = Len(q)
  BY <1>1, <1>2
<1> QED BY <1>1, <1>3 DEF Count

-------------------------------------------------------------------------------
(* The invariant holds, and with it each of the properties.                *)

(* The initial states satisfy the invariant's second half.                   *)
LEMMA RoutingInit ==
  ASSUME Init
  PROVE  RoutingInv
<1>1. TypeOK
  BY InitInvariant DEF LifecycleInv
<1>2. /\ approved = {} /\ sandboxes = {} /\ request \in [Cycles -> Requests]
      /\ \A c \in Cycles :
           /\ state[c].planned = FALSE /\ state[c].pending = <<>> /\ state[c].next = "__end__"
           /\ state[c].decisions = <<>> /\ state[c].reports = <<>> /\ state[c].rows = {}
           /\ state[c].summary = <<>> /\ blackboard[c] = {}
           /\ frame[c].pc = "idle" /\ frame[c].node = "orchestrator"
  BY DEF Init, EmptyState, AtNode
<1>3. "orchestrator" \notin Specialists
  BY DEF Specialists
<1>4. RoutesFollowPlans
  BY <1>2 DEF RoutesFollowPlans
<1>5. RowsComeFromAgents /\ LinksNameStoredMemories
  BY <1>2 DEF RowsComeFromAgents, LinksNameStoredMemories
<1>6. UnheldTokensWereInterrupted /\ CommandsComeFromPlanners
  BY <1>2 DEF UnheldTokensWereInterrupted, CommandsComeFromPlanners
<1>7. RerunsFollowFailures /\ FailuresAreRemembered /\ FailuresReachLaterAudits
  <2>1. \A c \in Cycles : 1 .. Len(state[c].reports) = {}
    BY <1>2
  <2> QED BY <2>1 DEF RerunsFollowFailures, FailuresAreRemembered, FailuresReachLaterAudits
<1>8. RunsAddUp
  <2>1. ASSUME NEW c \in Cycles
        PROVE  Tally(state[c].reports, state[c].decisions, frame[c].node)
    <3>1. \A S : Count(<<>>, S) = 0
      BY CountEmpty
    <3>2. Count(<<>>, Answers) = 0 /\ Count(<<>>, Failures) = 0 /\ Count(<<>>, Specialists) = 0
      BY <3>1
    <3>3. state[c].reports = <<>> /\ state[c].decisions = <<>> /\ frame[c].node \notin Specialists
      BY <1>2, <1>3
    <3> QED BY <3>2, <3>3 DEF Tally
  <2> QED BY <1>1, <2>1, RunsAreTallied
<1> QED BY <1>4, <1>5, <1>6, <1>7, <1>8 DEF RoutingInv

(* The two halves together are inductive.                                    *)
LEMMA RoutingStep ==
  ASSUME IInv, [Next]_vars
  PROVE  IInv'
<1>1. LifecycleInv'
  BY InvariantStep DEF IInv
<1>2. TypeOK /\ TypeOK' /\ TokensInFlight /\ RowsInFlight
  BY <1>1 DEF IInv, LifecycleInv
<1>3. RoutesFollowPlans' /\ RowsComeFromAgents' /\ LinksNameStoredMemories'
  BY <1>2, RoutesStep, AgentsStep, LinksStep DEF IInv, RoutingInv
<1>4. UnheldTokensWereInterrupted' /\ RerunsFollowFailures' /\ CommandsComeFromPlanners'
  BY <1>2, UnheldStep, RerunsStep, PlannersStep DEF IInv, RoutingInv
<1>5. FailuresAreRemembered' /\ FailuresReachLaterAudits' /\ RunsAddUp'
  BY <1>2, RememberedStep, AuditsStep, RunsStep DEF IInv, RoutingInv
<1> QED BY <1>1, <1>3, <1>4, <1>5 DEF IInv, RoutingInv

(* Every reachable state of the super-graph satisfies the inductive          *)
(* invariant: the lifecycle of run and the approvals of every cycle, and the *)
(* route each takes through its agents.                                      *)
THEOREM Invariance == Spec => []IInv
<1>1. Init => IInv
  BY InitInvariant, RoutingInit DEF IInv
<1>2. IInv /\ [Next]_vars => IInv'
  BY RoutingStep
<1> QED BY <1>1, <1>2, PTL DEF Spec

(* A relation "CURATED_INTO" names a memory that is stored, unless the run   *)
(* that linked it failed or has not got there yet.                           *)
THEOREM LinksExplained == Spec => []LinksNameStoredMemories
<1>1. IInv => LinksNameStoredMemories
  BY DEF IInv, RoutingInv
<1> QED BY <1>1, Invariance, PTL

(* The bus knows of more approvals than the graph states do only where       *)
(* registering a token was interrupted.                                      *)
THEOREM UnheldTokensExplained == Spec => []UnheldTokensWereInterrupted
<1>1. IInv => UnheldTokensWereInterrupted
  BY DEF IInv, RoutingInv
<1> QED BY <1>1, Invariance, PTL

(* Every completed audit that follows a failure with a text, with none       *)
(* without a text in between, has stored a REMEDIATE command.                *)
THEOREM FailuresRemediated == Spec => []FailuresReachLaterAudits
<1>1. IInv => FailuresReachLaterAudits
  BY DEF IInv, RoutingInv
<1> QED BY <1>1, Invariance, PTL

(* What has been decided is the routes, and the summary at most.             *)
LEMMA DecisionsAreRoutes ==
  ASSUME TypeOK, RoutesFollowPlans, NEW c \in Cycles
  PROVE  /\ Len(state[c].decisions) \in Nat
         /\ Len(state[c].decisions) <= Count(state[c].decisions, Specialists) + 1
<1> DEFINE D == state[c].decisions
<1>1. D \in Seq(Specialists \union {"finalize"})
  BY StateType DEF GraphState
<1>2. \/ D = <<>> \/ D \in Seq(Specialists)
      \/ \E p \in Seq(Specialists) : D = Append(p, "finalize")
  BY DEF RoutesFollowPlans
<1>3. "finalize" \notin Specialists
  BY DEF Specialists
<1> HIDE DEF D
<1>4. CASE D \in Seq(Specialists)
  BY <1>4, CountAll DEF D
<1>5. CASE D = <<>>
  <2>1. D \in Seq(Specialists)
    BY <1>5
  <2> QED BY <1>4, <2>1
<1>6. ASSUME NEW p \in Seq(Specialists), D = Append(p, "finalize")
      PROVE  Len(D) \in Nat /\ Len(D) <= Count(D, Specialists) + 1
  <2>1. p \in Seq(Specialists \union {"finalize"}) /\ Len(p) \in Nat /\ Len(D) = Len(p) + 1
    BY <1>6
  <2>2. Count(p, Specialists) = Len(p)
    BY CountAll
  <2>3. Count(D, Specialists) = Count(p, Specialists)
    BY <1>3, <1>6, <2>1, <2>2, CountAppend
  <2> QED BY <2>1, <2>2, <2>3
<1> QED BY <1>2, <1>4, <1>5, <1>6 DEF D

(* There are never more specialist runs than routes decided and failures of  *)
(* the orchestrator together.                                                *)
THEOREM RerunsBounded == Spec => []RerunsAreOrchestratorFailures
<1>1. IInv => RerunsAreOrchestratorFailures
  <2> SUFFICES ASSUME IInv, NEW c \in Cycles
               PROVE  Cardinality(Reports(c, Specialists, {"completed", "failed"}))
                        <= Cardinality(Routed(c))
                             + Cardinality(Reports(c, {"orchestrator"}, {"failed"}))
    BY DEF RerunsAreOrchestratorFailures
  <2>1. TypeOK /\ RunsAddUp
    BY DEF IInv, LifecycleInv, RoutingInv
  <2>2. /\ state[c].reports \in Seq(Report)
        /\ state[c].decisions \in Seq(Specialists \union {"finalize"})
    BY <2>1, StateType DEF GraphState
  <2>3. Tally(state[c].reports, state[c].decisions, frame[c].node)
    BY <2>1, RunsAreTallied
  <2>4. Count(state[c].reports, Answers) \in Nat
    BY <2>2, CountIsNat
  <2>5. Count(state[c].reports, Answers)
          <= Count(state[c].decisions, Specialists) + Count(state[c].reports, Failures)
    <3>1. Count(state[c].decisions, Specialists) \in Nat /\ Count(state[c].reports, Failures) \in Nat
      BY <2>2, CountIsNat
    <3> QED BY <2>3, <2>4, <3>1 DEF Tally
  <2> QED BY <2>1, <2>5, RunsAreTallied
<1> QED BY <1>1, Invariance, PTL

(* A cycle meets the recursion limit only when its orchestrator failed: two  *)
(* supersteps for a route, two for a failure and one for the summary.        *)
THEOREM LimitExplained == Spec => []LimitNeedsOrchestratorFailures
<1>1. IInv => LimitNeedsOrchestratorFailures
  <2> SUFFICES ASSUME IInv, NEW c \in Cycles
               PROVE  Len(state[c].reports)
                        <= 2 * Cardinality(Routed(c))
                             + 2 * Cardinality(Reports(c, {"orchestrator"}, {"failed"})) + 1
    BY DEF LimitNeedsOrchestratorFailures
  <2>1. TypeOK /\ RunsAddUp /\ RoutesFollowPlans
    BY DEF IInv, LifecycleInv, RoutingInv
  <2>2. /\ state[c].reports \in Seq(Report)
        /\ state[c].decisions \in Seq(Specialists \union {"finalize"})
    BY <2>1, StateType DEF GraphState
  <2> DEFINE answers == Count(state[c].reports, Answers)
             failures == Count(state[c].reports, Failures)
             routes == Count(state[c].decisions, Specialists)
             node == frame[c].node
  <2>3. answers \in Nat /\ failures \in Nat /\ routes \in Nat /\ Len(state[c].reports) \in Nat
    BY <2>2, CountIsNat
  <2>4. /\ Len(state[c].reports) = answers + failures + Len(state[c].decisions)
        /\ answers + (IF node \in Specialists THEN 1 ELSE 0) <= routes + failures
    BY <2>1, RunsAreTallied DEF Tally
  <2>5. Len(state[c].decisions) \in Nat /\ Len(state[c].decisions) <= routes + 1
    BY <2>1, DecisionsAreRoutes
  <2>6. /\ Cardinality(Routed(c)) = routes
        /\ Cardinality(Reports(c, {"orchestrator"}, {"failed"})) = failures
    BY <2>1, RunsAreTallied
  <2> HIDE DEF answers, failures, routes, node
  <2>7. answers <= routes + failures
    BY <2>3, <2>4
  <2>8. Len(state[c].reports) <= 2 * routes + 2 * failures + 1
    <3>1. \A a, f, r, n \in Nat : a <= r + f /\ n <= r + 1 => a + f + n <= 2 * r + 2 * f + 1
      OBVIOUS
    <3> QED BY <2>3, <2>4, <2>5, <2>7, <3>1
  <2> QED BY <2>6, <2>8
<1> QED BY <1>1, Invariance, PTL

(* The graph reaches END only from a finalized state, or because the         *)
(* orchestrator failed before its first route.                               *)
THEOREM EndExplained == Spec => []EndNeedsSummaryOrNoRoute
<1>1. IInv => EndNeedsSummaryOrNoRoute
  <2> SUFFICES ASSUME IInv, NEW c \in Cycles, frame[c].node = "__end__",
                      state[c].summary = <<>>
               PROVE  Routed(c) = {}
    BY DEF EndNeedsSummaryOrNoRoute
  <2>1. TypeOK /\ RoutesFollowPlans
    BY DEF IInv, LifecycleInv, RoutingInv
  <2>2. ~state[c].planned
    <3> SUFFICES ASSUME state[c].planned
                 PROVE  FALSE
      OBVIOUS
    <3>1. \/ frame[c].node = "orchestrator"
          \/ frame[c].node = state[c].next
      BY <2>1 DEF RoutesFollowPlans
    <3>2. /\ state[c].decisions \in Seq(Specialists) /\ Len(state[c].decisions) \in Nat \ {0}
          /\ state[c].next = state[c].decisions[Len(state[c].decisions)]
      BY <2>1, DecisionsStartPlan
    <3>3. state[c].next \in Specialists
      BY <3>2
    <3> QED BY <3>1, <3>3 DEF Specialists
  <2>3. state[c].decisions = <<>>
    BY <2>1, <2>2 DEF RoutesFollowPlans
  <2> QED BY <2>3 DEF Routed
<1> QED BY <1>1, Invariance, PTL

(* The monitor is the first agent of every plan it is in, also when it is    *)
(* run again: it never runs in a cycle whose state holds an audit.           *)
THEOREM MonitorsComeFirst == Spec => []MonitorsSeeNoAudit
<1>1. IInv => MonitorsSeeNoAudit
  <2> SUFFICES ASSUME IInv, NEW c \in Cycles, frame[c].node = "monitor", Audited(c)
               PROVE  FALSE
    BY DEF MonitorsSeeNoAudit
  <2>1. /\ TypeOK /\ RoutesFollowPlans /\ RowsComeFromAgents /\ RerunsFollowFailures
    BY DEF IInv, LifecycleInv, RoutingInv
  <2>2. "monitor" \in Specialists /\ "security_audit" \in Specialists
    BY DEF Specialists
  <2>3. state[c].planned /\ state[c].summary = <<>> /\ state[c].next = "monitor"
    BY <2>1, <2>2, ActiveIsRouted
  <2>4. /\ Len(state[c].decisions) \in Nat \ {0}
        /\ state[c].decisions[Len(state[c].decisions)] = "monitor"
        /\ \A i \in 1 .. Len(state[c].decisions) : state[c].decisions[i] = "monitor" => i = 1
    BY <2>1, <2>3, DecisionsStartPlan
  <2>5. Len(state[c].decisions) = 1 /\ state[c].decisions[1] = "monitor"
    <3>1. Len(state[c].decisions) \in 1 .. Len(state[c].decisions)
      BY <2>4
    <3> QED BY <2>4, <3>1
  <2>6. PICK j \in 1 .. Len(state[c].reports) : state[c].reports[j].agent = "security_audit"
    BY <2>1 DEF Audited, RowsComeFromAgents
  <2>7. \E n \in 1 .. Len(state[c].decisions) : state[c].decisions[n] = "security_audit"
    BY <2>1, <2>2, <2>6 DEF RerunsFollowFailures
  <2> QED BY <2>5, <2>7
<1> QED BY <1>1, Invariance, PTL

(* Two sandbox commands of one cycle run at the same time only when the      *)
(* first run gave up on its own and the orchestrator failed afterwards.      *)
THEOREM OverlapsExplained == Spec => []CommandsOverlapOnlyAfterTwoFailures
<1>1. IInv => CommandsOverlapOnlyAfterTwoFailures
  <2> SUFFICES ASSUME IInv, NEW first \in sandboxes, NEW second \in sandboxes,
                      first.cycle = second.cycle, first.run < second.run
               PROVE  /\ state[first.cycle].reports[first.run].status = "failed"
                      /\ \E k \in first.run + 1 .. second.run - 1 :
                           /\ state[first.cycle].reports[k].agent = "orchestrator"
                           /\ state[first.cycle].reports[k].status = "failed"
    BY DEF CommandsOverlapOnlyAfterTwoFailures
  <2> DEFINE c == first.cycle
             i == first.run
             j == second.run
  <2>1. /\ TypeOK /\ CommandsOutliveOnlyBrokenRuns
        /\ CommandsComeFromPlanners /\ RerunsFollowFailures
    BY DEF IInv, LifecycleInv, RoutingInv
  <2>2. c \in Cycles /\ i \in Nat \ {0} /\ j \in Nat \ {0} /\ i < j
    BY <2>1 DEF TypeOK, Sandbox
  <2>3. Run(c) = Len(state[c].reports) + 1 /\ Len(state[c].reports) \in Nat
    BY <2>1, <2>2, StateType DEF Run, GraphState
  <2>4. /\ \/ i = Run(c)
           \/ /\ i < Run(c) /\ state[c].reports[i].status = "failed"
              /\ state[c].reports[i].agent = "planner_executor"
        /\ \/ j = Run(c) /\ frame[c].node = "planner_executor"
           \/ j < Run(c) /\ state[c].reports[j].agent = "planner_executor"
    BY <2>1, <2>2, <2>3 DEF CommandsOutliveOnlyBrokenRuns, CommandsComeFromPlanners
  <2>5. "planner_executor" \in Specialists
    BY DEF Specialists
  <2> HIDE DEF c, i, j
  <2>6. /\ i \in 1 .. Len(state[c].reports) /\ state[c].reports[i].status = "failed"
        /\ state[c].reports[i].agent = "planner_executor"
    BY <2>2, <2>3, <2>4
  <2>7. /\ \A m \in i + 1 .. Len(state[c].reports) :
             state[c].reports[m].agent = state[c].reports[i].agent =>
               \E k \in i + 1 .. m - 1 : /\ state[c].reports[k].agent = "orchestrator"
                                         /\ state[c].reports[k].status = "failed"
        /\ frame[c].node = state[c].reports[i].agent =>
             \E k \in i + 1 .. Run(c) - 1 : /\ state[c].reports[k].agent = "orchestrator"
                                            /\ state[c].reports[k].status = "failed"
    BY <2>1, <2>2, <2>5, <2>6 DEF RerunsFollowFailures
  <2>8. \E k \in i + 1 .. j - 1 : /\ state[c].reports[k].agent = "orchestrator"
                                  /\ state[c].reports[k].status = "failed"
    <3>1. CASE j = Run(c) /\ frame[c].node = "planner_executor"
      BY <2>6, <2>7, <3>1
    <3>2. CASE j < Run(c) /\ state[c].reports[j].agent = "planner_executor"
      <4>1. j \in i + 1 .. Len(state[c].reports)
        BY <2>2, <2>3, <3>2
      <4> QED BY <2>6, <2>7, <3>2, <4>1
    <3> QED BY <2>4, <3>1, <3>2
  <2> QED BY <2>6, <2>8 DEF c, i, j
<1> QED BY <1>1, Invariance, PTL

===============================================================================
