---------------------------- MODULE EventBus_proofs ----------------------------
(***************************************************************************)
(* Theorems about EventBus for every set of replicas, tokens and agents,   *)
(* for every mix of backends and every bound, and their proofs.            *)
(***************************************************************************)
EXTENDS EventBus, TLAPS

(* Inductive: the bus knows only what was registered in its present life, *)
(* so what it validates was approved.                                      *)
BusInv == TypeOK /\ KnownTokensWereIssued /\ SignalsWereApproved

(* A memory bus may drop its events.                                       *)
LEMMA EmptyStream ==
  ASSUME stream \in [Streams -> Seq(Event)], NEW s
  PROVE  [stream EXCEPT ![s] = <<>>] \in [Streams -> Seq(Event)]
<1> DEFINE none == <<>>
<1>1. none \in Seq(Event)
  OBVIOUS
<1> HIDE DEF none
<1>2. [stream EXCEPT ![s] = none] \in [Streams -> Seq(Event)]
  BY <1>1
<1> QED BY <1>2 DEF none

(* The step of one replica keeps the state well typed.                     *)
LEMMA BusTypeStep ==
  ASSUME TypeOK, [Next]_vars
  PROVE  TypeOK'
<1> USE DEF TypeOK
<1>1. CASE UNCHANGED vars
  BY <1>1 DEF vars
<1>2. ASSUME NEW r \in Replicas, Initialize(r)
      PROVE  TypeOK'
  BY <1>2 DEF Initialize
<1>3. ASSUME NEW r \in Replicas, Offer(r)
      PROVE  TypeOK'
  <2>1. PICK id \in Tokens, s \in Agents, t \in Agents, type \in EventTypes, ttl \in Lifetimes :
          Approve(r, [id |-> id, source |-> s, target |-> t, permits |-> type,
                      expires |-> clock + ttl])
    BY <1>3 DEF Offer
  <2> DEFINE a == [id |-> id, source |-> s, target |-> t, permits |-> type,
                   expires |-> clock + ttl]
             i == [approval |-> a, by |-> r, life |-> life[r]]
  <2>2. a \in Approval
    BY LifetimesAssumption, BusBoundsAssumption DEF Approval
  <2>3. i \in Issue
    <3> HIDE DEF a
    <3> QED BY <2>2 DEF Issue
  <2>4. Approve(r, a) /\ issued' = issued \union {i}
    BY <2>1 DEF Approve
  <2> HIDE DEF a, i
  <2> QED BY <2>2, <2>3, <2>4 DEF Approve
<1>4. ASSUME NEW r \in Replicas, Signal(r)
      PROVE  TypeOK'
  <2>1. PICK type \in EventTypes, token \in Tokens \union {"none"}, s \in Agents,
             t \in Agents \union {"none"} :
          Publish(r, [type |-> type, token |-> token, source |-> s, target |-> t,
                      by |-> r, life |-> life[r], at |-> clock])
    BY <1>4 DEF Signal
  <2> DEFINE e == [type |-> type, token |-> token, source |-> s, target |-> t,
                   by |-> r, life |-> life[r], at |-> clock]
  <2>2. e \in Event
    BY BusBoundsAssumption DEF Event
  <2>3. Publish(r, e)
    BY <2>1
  <2> HIDE DEF e
  <2>4. stream' \in [Streams -> Seq(Event)]
    <3>1. CASE remote[r]
      BY <2>3, <3>1 DEF Publish
    <3>2. CASE ~remote[r]
      <4>1. stream' = [stream EXCEPT ![r] = Append(stream[r], e)]
        BY <2>3, <3>2 DEF Publish
      <4>2. r \in Streams
        BY <3>2 DEF Streams
      <4>3. Append(stream[r], e) \in Seq(Event)
        BY <2>2, <4>2
      <4> QED BY <4>1, <4>3
    <3> QED BY <3>1, <3>2
  <2>5. adding' \in [Replicas -> SUBSET Event]
    <3>1. adding' = adding \/ adding' = [adding EXCEPT ![r] = adding[r] \union {e}]
      BY <2>3 DEF Publish
    <3>2. adding[r] \union {e} \in SUBSET Event
      BY <2>2
    <3> QED BY <3>1, <3>2
  <2> QED BY <2>3, <2>4, <2>5 DEF Publish
<1>5. ASSUME NEW r \in Replicas, NEW a \in setting[r], KeySet(r, a)
      PROVE  TypeOK'
  <2>1. a \in Approval
    OBVIOUS
  <2>2. [id |-> a.id, until |-> KeyUntil(a)] \in Key
    BY <2>1, KeyTTLAssumption, BusBoundsAssumption DEF Key, KeyUntil, Approval
  <2> QED BY <1>5, <2>1, <2>2, BusBoundsAssumption DEF KeySet, Approval
<1>6. ASSUME NEW r \in Replicas, NEW a \in setting[r], KeyNotSet(r, a)
      PROVE  TypeOK'
  BY <1>6, BusBoundsAssumption DEF KeyNotSet
<1>7. ASSUME NEW r \in Replicas, NEW e \in adding[r], Added(r, e)
      PROVE  TypeOK'
  <2>1. e \in Event
    OBVIOUS
  <2>2. stream' \in [Streams -> Seq(Event)]
    <3>1. stream' = [stream EXCEPT !["redis"] = Append(stream["redis"], e)]
      BY <1>7 DEF Added
    <3>2. CASE "redis" \in Streams
      <4>1. Append(stream["redis"], e) \in Seq(Event)
        BY <2>1, <3>2
      <4> QED BY <3>1, <4>1
    <3>3. CASE "redis" \notin Streams
      BY <3>1, <3>3
    <3> QED BY <3>2, <3>3
  <2> QED BY <1>7, <2>1, <2>2 DEF Added
<1>8. ASSUME NEW r \in Replicas, NEW e \in adding[r], NotAdded(r, e)
      PROVE  TypeOK'
  BY <1>8, BusBoundsAssumption DEF NotAdded
<1>9. ASSUME NEW r \in Replicas, BeginClose(r)
      PROVE  TypeOK'
  BY <1>9 DEF BeginClose
<1>10. ASSUME NEW r \in Replicas, Close(r)
       PROVE  TypeOK'
  <2>1. stream' \in [Streams -> Seq(Event)]
    BY <1>10, EmptyStream DEF Close
  <2> QED BY <1>10, <2>1 DEF Close, Forgotten
<1>11. ASSUME NEW r \in Replicas, Crash(r)
       PROVE  TypeOK'
  <2>1. stream' \in [Streams -> Seq(Event)]
    BY <1>11, EmptyStream DEF Crash
  <2> QED BY <1>11, <2>1, BusBoundsAssumption DEF Crash
<1>12. CASE Tick
  BY <1>12, BusBoundsAssumption DEF Tick
<1>13. ASSUME NEW r \in Replicas, FallBack(r)
       PROVE  TypeOK'
  <2>1. remote' \in [Replicas -> BOOLEAN]
    BY <1>13 DEF FallBack
  <2> QED BY <1>13, <2>1, BusBoundsAssumption DEF FallBack
<1> QED BY <1>1, <1>2, <1>3, <1>4, <1>5, <1>6, <1>7, <1>8, <1>9, <1>10, <1>11, <1>12, <1>13
        DEF Next, Answer

-------------------------------------------------------------------------------
(* An appended sequence holds the new item and the old ones.               *)
LEMMA AppendedItem ==
  ASSUME NEW S, NEW q \in Seq(S), NEW e \in S, NEW i \in 1 .. Len(Append(q, e))
  PROVE  Append(q, e)[i] = e \/ (i \in 1 .. Len(q) /\ Append(q, e)[i] = q[i])
OBVIOUS

(* What a bus knows stays backed by what was registered with it.           *)
LEMMA KnownStep ==
  ASSUME TypeOK, KnownTokensWereIssued, [Next]_vars
  PROVE  KnownTokensWereIssued' /\ issued \subseteq issued'
<1> SUFFICES /\ issued \subseteq issued'
             /\ \A q \in Replicas : \A a \in approvals'[q] :
                  [approval |-> a, by |-> q, life |-> life'[q]] \in issued'
  BY DEF KnownTokensWereIssued
<1>1. CASE UNCHANGED <<approvals, life, issued>>
  BY <1>1 DEF KnownTokensWereIssued
<1>2. ASSUME NEW r \in Replicas, Offer(r)
      PROVE  /\ issued \subseteq issued'
             /\ \A q \in Replicas : \A a \in approvals'[q] :
                  [approval |-> a, by |-> q, life |-> life'[q]] \in issued'
  <2>1. PICK x : Approve(r, x)
    BY <1>2 DEF Offer
  <2>2. /\ approvals' = [approvals EXCEPT ![r] = approvals[r] \union {x}] /\ life' = life
        /\ issued' = issued \union {[approval |-> x, by |-> r, life |-> life[r]]}
    BY <2>1 DEF Approve
  <2> QED BY <2>2 DEF KnownTokensWereIssued, TypeOK
<1>3. ASSUME NEW r \in Replicas, Close(r) \/ Crash(r)
      PROVE  /\ issued \subseteq issued'
             /\ \A q \in Replicas : \A a \in approvals'[q] :
                  [approval |-> a, by |-> q, life |-> life'[q]] \in issued'
  <2>1. /\ approvals' = [approvals EXCEPT ![r] = {}] /\ issued' = issued
        /\ life' = [life EXCEPT ![r] = life[r] + 1]
    BY <1>3 DEF Close, Crash, Forgotten
  <2> QED BY <2>1 DEF KnownTokensWereIssued, TypeOK
<1>4. ASSUME NEW r \in Replicas,
             Initialize(r) \/ FallBack(r) \/ Signal(r) \/ Answer(r) \/ BeginClose(r)
      PROVE  UNCHANGED <<approvals, life, issued>>
  <2>1. CASE Signal(r)
    BY <2>1 DEF Signal, Publish
  <2>2. CASE Answer(r)
    BY <2>2 DEF Answer, KeySet, KeyNotSet, Added, NotAdded
  <2> QED BY <1>4, <2>1, <2>2 DEF Initialize, FallBack, BeginClose
<1>5. CASE Tick \/ UNCHANGED vars
  BY <1>1, <1>5 DEF Tick, vars
<1> QED BY <1>1, <1>2, <1>3, <1>4, <1>5 DEF Next

(* An event is let through only under an approval.                         *)
LEMMA PublishApproved ==
  ASSUME BusInv, NEW r \in Replicas, NEW e, Publish(r, e)
  PROVE  Approved(e)
<1>1. /\ ValidEvent(r, e) /\ e.by = r /\ e.life = life[r] /\ e.at = clock
  BY DEF Publish
<1>2. CASE e.type = "peer_signal"
  <2>1. PICK a \in approvals[r] : a.id = e.token /\ a.expires > clock /\ a.permits = e.type
    BY <1>1, <1>2 DEF ValidEvent
  <2> DEFINE i == [approval |-> a, by |-> r, life |-> life[r]]
  <2>2. i \in issued
    BY <2>1 DEF BusInv, KnownTokensWereIssued
  <2>3. a.expires \in Nat /\ clock \in Nat
    BY <2>1, BusBoundsAssumption DEF BusInv, TypeOK, Approval
  <2>4. /\ i.approval = a /\ i.by = r /\ i.life = life[r]
    OBVIOUS
  <2> HIDE DEF i
  <2> QED BY <1>1, <1>2, <2>1, <2>2, <2>3, <2>4 DEF Approved
<1>3. CASE e.type # "peer_signal"
  BY <1>3 DEF Approved
<1> QED BY <1>2, <1>3

(* What is on a stream or on its way was published under an approval.      *)
LEMMA SignalsStep ==
  ASSUME BusInv, [Next]_vars
  PROVE  SignalsWereApproved'
<1>1. issued \subseteq issued'
  BY KnownStep DEF BusInv
<1>2. /\ \A s \in Streams : \A n \in 1 .. Len(stream[s]) : Approved(stream[s][n])
      /\ \A r \in Replicas : \A e \in adding[r] : Approved(e)
  BY DEF BusInv, SignalsWereApproved
<1>3. SUFFICES /\ \A s \in Streams : \A n \in 1 .. Len(stream'[s]) : Approved(stream'[s][n])
               /\ \A r \in Replicas : \A e \in adding'[r] : Approved(e)
  BY <1>1 DEF SignalsWereApproved, Approved, Streams
<1>4. CASE UNCHANGED <<stream, adding>>
  BY <1>2, <1>4
<1>5. ASSUME NEW r \in Replicas, Signal(r)
      PROVE  /\ \A s \in Streams : \A n \in 1 .. Len(stream'[s]) : Approved(stream'[s][n])
             /\ \A q \in Replicas : \A e \in adding'[q] : Approved(e)
  <2>1. PICK x : Publish(r, x) /\ x \in Event
    <3>1. PICK type \in EventTypes, token \in Tokens \union {"none"}, s \in Agents,
               t \in Agents \union {"none"} :
            Publish(r, [type |-> type, token |-> token, source |-> s, target |-> t,
                        by |-> r, life |-> life[r], at |-> clock])
      BY <1>5 DEF Signal
    <3> DEFINE x == [type |-> type, token |-> token, source |-> s, target |-> t,
                     by |-> r, life |-> life[r], at |-> clock]
    <3>2. x \in Event
      BY BusBoundsAssumption DEF Event, BusInv, TypeOK
    <3>3. Publish(r, x)
      BY <3>1
    <3> HIDE DEF x
    <3> QED BY <3>2, <3>3
  <2>2. Approved(x)
    BY <2>1, PublishApproved
  <2>3. CASE remote[r]
    <3>1. stream' = stream /\ adding' = [adding EXCEPT ![r] = adding[r] \union {x}]
      BY <2>1, <2>3 DEF Publish
    <3>2. \A q \in Replicas : adding'[q] \subseteq adding[q] \union {x}
      BY <3>1 DEF BusInv, TypeOK
    <3> QED BY <1>2, <2>2, <3>1, <3>2
  <2>4. CASE ~remote[r]
    <3>1. adding' = adding /\ stream' = [stream EXCEPT ![r] = Append(stream[r], x)]
      BY <2>1, <2>4 DEF Publish
    <3>2. \A s \in Streams : \A n \in 1 .. Len(stream'[s]) :
            stream'[s][n] = x \/ (n \in 1 .. Len(stream[s]) /\ stream'[s][n] = stream[s][n])
      BY <2>1, <3>1, AppendedItem DEF BusInv, TypeOK
    <3> QED BY <1>2, <2>2, <3>1, <3>2
  <2> QED BY <2>3, <2>4
<1>6. ASSUME NEW r \in Replicas, NEW x \in adding[r], Added(r, x)
      PROVE  /\ \A s \in Streams : \A n \in 1 .. Len(stream'[s]) : Approved(stream'[s][n])
             /\ \A q \in Replicas : \A e \in adding'[q] : Approved(e)
  <2>1. /\ stream' = [stream EXCEPT !["redis"] = Append(stream["redis"], x)]
        /\ adding' = [adding EXCEPT ![r] = adding[r] \ {x}] /\ x \in Event
    BY <1>6 DEF Added, BusInv, TypeOK
  <2>2. \A q \in Replicas : adding'[q] \subseteq adding[q]
    BY <2>1 DEF BusInv, TypeOK
  <2>3. \A s \in Streams : \A n \in 1 .. Len(stream'[s]) :
          stream'[s][n] = x \/ (n \in 1 .. Len(stream[s]) /\ stream'[s][n] = stream[s][n])
    BY <2>1, AppendedItem DEF BusInv, TypeOK
  <2> QED BY <1>2, <1>6, <2>2, <2>3
<1>7. ASSUME NEW r \in Replicas, Close(r) \/ Crash(r) \/ \E x \in adding[r] : NotAdded(r, x)
      PROVE  /\ \A s \in Streams : \A n \in 1 .. Len(stream'[s]) : Approved(stream'[s][n])
             /\ \A q \in Replicas : \A e \in adding'[q] : Approved(e)
  <2>1. \A q \in Replicas : adding'[q] \subseteq adding[q]
    BY <1>7 DEF Close, Crash, NotAdded, BusInv, TypeOK
  <2>2. stream' = stream \/ stream' = [stream EXCEPT ![r] = <<>>]
    BY <1>7 DEF Close, Crash, NotAdded
  <2>3. \A s \in Streams : stream'[s] = stream[s] \/ (stream'[s] = <<>> /\ Len(stream'[s]) = 0)
    BY <2>2 DEF BusInv, TypeOK
  <2> QED BY <1>2, <2>1, <2>3
<1>8. ASSUME NEW r \in Replicas,
             Initialize(r) \/ FallBack(r) \/ Offer(r) \/ BeginClose(r)
             \/ \E a \in setting[r] : KeySet(r, a) \/ KeyNotSet(r, a)
      PROVE  UNCHANGED <<stream, adding>>
  BY <1>8 DEF Initialize, FallBack, Offer, Approve, BeginClose, KeySet, KeyNotSet
<1>9. CASE Tick \/ UNCHANGED vars
  BY <1>4, <1>9 DEF Tick, vars
<1> QED BY <1>4, <1>5, <1>6, <1>7, <1>8, <1>9 DEF Next, Answer

(* The buses start empty.                                                  *)
LEMMA BusInit ==
  ASSUME Init
  PROVE  BusInv
<1>1. \A s \in Streams : stream[s] = <<>> /\ Len(stream[s]) = 0
  BY DEF Init
<1>2. stream \in [Streams -> Seq(Event)]
  <2>1. <<>> \in Seq(Event)
    OBVIOUS
  <2> QED BY <1>1, <2>1 DEF Init
<1>3. TypeOK
  BY <1>2, BusBoundsAssumption DEF Init, TypeOK
<1> QED BY <1>1, <1>3 DEF BusInv, KnownTokensWereIssued, SignalsWereApproved, Init

(* The bus invariant is inductive.                                         *)
LEMMA BusStep ==
  ASSUME BusInv, [Next]_vars
  PROVE  BusInv'
BY BusTypeStep, KnownStep, SignalsStep DEF BusInv

(* The bus invariant holds.                                                *)
THEOREM BusInvariance == Spec => []BusInv
<1>1. Init => BusInv
  BY BusInit
<1>2. BusInv /\ [Next]_vars => BusInv'
  BY BusStep
<1> QED BY <1>1, <1>2, PTL DEF Spec

(* Whatever is closed, restarted or lost on the way, every peer signal was *)
(* validated against an unexpired approval of the very bus it went out on. *)
THEOREM SignalsApproved == Spec => []SignalsWereApproved
<1>1. BusInv => SignalsWereApproved
  BY DEF BusInv
<1> QED BY <1>1, BusInvariance, PTL

-------------------------------------------------------------------------------
(* Every bus' dictionary holds only what was registered with it in its     *)
(* present life: no token survives a close or a crash.                     *)
THEOREM TokensKnown == Spec => []KnownTokensWereIssued
<1>1. BusInv => KnownTokensWereIssued
  BY DEF BusInv
<1> QED BY <1>1, BusInvariance, PTL

(* Every reachable state of the buses is well typed.                       *)
THEOREM BusTypes == Spec => []TypeOK
<1>1. BusInv => TypeOK
  BY DEF BusInv
<1> QED BY <1>1, BusInvariance, PTL

-------------------------------------------------------------------------------
(* The agents of signals on memory buses.                                  *)

(* Inductive: an id was registered once, so its approval is the only one   *)
(* an event's agents can be compared with.                                 *)
IdsAreUnique == \A i, j \in issued : i.approval.id = j.approval.id => i = j

ScopeInv == BusInv /\ IdsAreUnique /\ LocalSignalsStayInScope

(* What a step adds to the issued approvals has an id of its own.          *)
LEMMA IssuedStep ==
  ASSUME [Next]_vars
  PROVE  \/ issued' = issued
         \/ \E i : /\ issued' = issued \union {i}
                   /\ \A j \in issued : j.approval.id # i.approval.id
<1>1. ASSUME NEW r \in Replicas, Offer(r)
      PROVE  \E i : /\ issued' = issued \union {i}
                   /\ \A j \in issued : j.approval.id # i.approval.id
  <2>1. \E id, a : /\ \A j \in issued : j.approval.id # id
                   /\ a.id = id
                   /\ issued' = issued \union {[approval |-> a, by |-> r, life |-> life[r]]}
    <3>1. PICK id \in Tokens, s \in Agents, t \in Agents, type \in EventTypes,
               ttl \in Lifetimes :
            /\ \A j \in issued : j.approval.id # id
            /\ Approve(r, [id |-> id, source |-> s, target |-> t, permits |-> type,
                           expires |-> clock + ttl])
      BY <1>1 DEF Offer
    <3> DEFINE a == [id |-> id, source |-> s, target |-> t, permits |-> type,
                     expires |-> clock + ttl]
    <3>2. a.id = id
      OBVIOUS
    <3>3. Approve(r, a)
      BY <3>1
    <3> HIDE DEF a
    <3>4. issued' = issued \union {[approval |-> a, by |-> r, life |-> life[r]]}
      BY <3>3 DEF Approve
    <3> QED BY <3>1, <3>2, <3>4
  <2>2. PICK id, a : /\ \A j \in issued : j.approval.id # id
                     /\ a.id = id
                     /\ issued' = issued \union {[approval |-> a, by |-> r, life |-> life[r]]}
    BY <2>1
  <2> DEFINE i == [approval |-> a, by |-> r, life |-> life[r]]
  <2>3. i.approval = a
    OBVIOUS
  <2>4. issued' = issued \union {i}
    BY <2>2
  <2> HIDE DEF i
  <2> QED BY <2>2, <2>3, <2>4
<1>2. ASSUME NEW r \in Replicas, Signal(r)
      PROVE  issued' = issued
  BY <1>2 DEF Signal, Publish
<1>3. ASSUME NEW r \in Replicas, Answer(r)
      PROVE  issued' = issued
  BY <1>3 DEF Answer, KeySet, KeyNotSet, Added, NotAdded
<1>4. ASSUME NEW r \in Replicas,
             Initialize(r) \/ FallBack(r) \/ BeginClose(r) \/ Close(r) \/ Crash(r)
      PROVE  issued' = issued
  BY <1>4 DEF Initialize, FallBack, BeginClose, Close, Crash
<1>5. CASE Tick \/ UNCHANGED vars
  BY <1>5 DEF Tick, vars
<1> QED BY <1>1, <1>2, <1>3, <1>4, <1>5 DEF Next

(* An event in scope stays in scope once it has been approved.             *)
LEMMA ScopeKept ==
  ASSUME [Next]_vars, NEW e, Approved(e), InScope(e)
  PROVE  e.type = "peer_signal" => \A i \in issued' :
           i.approval.id = e.token =>
             i.approval.source = e.source /\ i.approval.target = e.target
<1>1. SUFFICES ASSUME e.type = "peer_signal", issued' # issued,
                      NEW i \in issued', i.approval.id = e.token
               PROVE  i.approval.source = e.source /\ i.approval.target = e.target
  BY DEF InScope
<1>2. PICK new : issued' = issued \union {new} /\ \A j \in issued : j.approval.id # new.approval.id
  BY <1>1, IssuedStep
<1>3. PICK j \in issued : j.approval.id = e.token
  BY <1>1 DEF Approved
<1>4. i \in issued
  BY <1>1, <1>2, <1>3
<1> QED BY <1>1, <1>4 DEF InScope

(* What a memory bus lets through is between the agents of its approval.   *)
LEMMA PublishInScope ==
  ASSUME ScopeInv, NEW r \in Replicas, NEW e, Publish(r, e), ~remote[r]
  PROVE  InScope(e)
<1>1. CASE e.type = "peer_signal"
  <2>1. PICK a \in approvals[r] : a.id = e.token /\ a.source = e.source /\ a.target = e.target
    BY <1>1 DEF Publish, ValidEvent
  <2> DEFINE i == [approval |-> a, by |-> r, life |-> life[r]]
  <2>2. i \in issued
    BY <2>1 DEF ScopeInv, BusInv, KnownTokensWereIssued
  <2>3. i.approval = a
    OBVIOUS
  <2> HIDE DEF i
  <2>4. \A j \in issued : j.approval.id = e.token => j = i
    BY <2>1, <2>2, <2>3 DEF ScopeInv, IdsAreUnique
  <2> QED BY <2>1, <2>3, <2>4 DEF InScope
<1>2. CASE e.type # "peer_signal"
  BY <1>2 DEF InScope
<1> QED BY <1>1, <1>2

(* A step appends to a memory bus what it published, drops the events, or  *)
(* leaves them alone.                                                      *)
LEMMA LocalEvents ==
  ASSUME BusInv, [Next]_vars, NEW q \in Replicas
  PROVE  \/ stream'[q] = stream[q]
         \/ stream'[q] = <<>> /\ Len(stream'[q]) = 0
         \/ \E e \in Event : ~remote[q] /\ Publish(q, e) /\ stream'[q] = Append(stream[q], e)
<1>1. ASSUME NEW r \in Replicas, Signal(r)
      PROVE  \/ stream'[q] = stream[q]
             \/ \E e \in Event : ~remote[q] /\ Publish(q, e)
                                /\ stream'[q] = Append(stream[q], e)
  <2>1. PICK type \in EventTypes, token \in Tokens \union {"none"}, s \in Agents,
             t \in Agents \union {"none"} :
          Publish(r, [type |-> type, token |-> token, source |-> s, target |-> t,
                      by |-> r, life |-> life[r], at |-> clock])
    BY <1>1 DEF Signal
  <2> DEFINE e == [type |-> type, token |-> token, source |-> s, target |-> t,
                   by |-> r, life |-> life[r], at |-> clock]
  <2>2. e \in Event
    BY BusBoundsAssumption DEF Event, BusInv, TypeOK
  <2>3. Publish(r, e)
    BY <2>1
  <2> HIDE DEF e
  <2>4. CASE remote[r]
    BY <2>3, <2>4 DEF Publish
  <2>5. CASE ~remote[r]
    <3>1. stream' = [stream EXCEPT ![r] = Append(stream[r], e)]
      BY <2>3, <2>5 DEF Publish
    <3>2. CASE q = r
      <4>1. stream'[q] = Append(stream[q], e)
        BY <3>1, <3>2 DEF BusInv, TypeOK, Streams
      <4> QED BY <2>2, <2>3, <2>5, <3>2, <4>1
    <3>3. CASE q # r
      BY <3>1, <3>3 DEF BusInv, TypeOK, Streams
    <3> QED BY <3>2, <3>3
  <2> QED BY <2>4, <2>5
<1>2. ASSUME NEW r \in Replicas, Answer(r)
      PROVE  stream'[q] = stream[q]
  <2>1. q # "redis"
    BY BackendAssumption
  <2>2. stream' = stream \/ \E x : stream' = [stream EXCEPT !["redis"] = x]
    BY <1>2 DEF Answer, KeySet, KeyNotSet, Added, NotAdded
  <2> QED BY <2>1, <2>2 DEF BusInv, TypeOK, Streams
<1>3. ASSUME NEW r \in Replicas, Close(r) \/ Crash(r)
      PROVE  stream'[q] = stream[q] \/ (stream'[q] = <<>> /\ Len(stream'[q]) = 0)
  <2>1. stream' = [stream EXCEPT ![r] = <<>>]
    BY <1>3 DEF Close, Crash
  <2> QED BY <2>1 DEF BusInv, TypeOK, Streams
<1>4. ASSUME NEW r \in Replicas, Initialize(r) \/ FallBack(r) \/ Offer(r) \/ BeginClose(r)
      PROVE  stream' = stream
  BY <1>4 DEF Initialize, FallBack, Offer, Approve, BeginClose
<1>5. CASE Tick \/ UNCHANGED vars
  BY <1>5 DEF Tick, vars
<1> QED BY <1>1, <1>2, <1>3, <1>4, <1>5 DEF Next

(* Every step keeps the signals of the memory buses in scope.              *)
LEMMA ScopeStep ==
  ASSUME ScopeInv, [Next]_vars
  PROVE  IdsAreUnique' /\ LocalSignalsStayInScope'
<1> DEFINE Scoped(e) ==
      e.type = "peer_signal" => \A i \in issued' :
        i.approval.id = e.token =>
          i.approval.source = e.source /\ i.approval.target = e.target
<1>1. IdsAreUnique'
  BY IssuedStep DEF ScopeInv, IdsAreUnique
<1>2. \A q \in Replicas : \A n \in 1 .. Len(stream[q]) : Scoped(stream[q][n])
  <2> TAKE q \in Replicas
  <2> TAKE n \in 1 .. Len(stream[q])
  <2>1. Approved(stream[q][n]) /\ InScope(stream[q][n])
    BY DEF ScopeInv, BusInv, SignalsWereApproved, LocalSignalsStayInScope, Streams
  <2> QED BY <2>1, ScopeKept
<1>3. \A q \in Replicas, e \in Event : (~remote[q] /\ Publish(q, e)) => Scoped(e)
  <2> SUFFICES ASSUME NEW q \in Replicas, NEW e \in Event, ~remote[q], Publish(q, e)
               PROVE  Scoped(e)
    OBVIOUS
  <2>1. InScope(e) /\ Approved(e)
    BY PublishInScope, PublishApproved DEF ScopeInv
  <2> QED BY <2>1, ScopeKept
<1> HIDE DEF Scoped
<1>4. \A q \in Replicas : \A n \in 1 .. Len(stream'[q]) : Scoped(stream'[q][n])
  <2> TAKE q \in Replicas
  <2>1. CASE stream'[q] = stream[q]
    BY <1>2, <2>1
  <2>2. CASE Len(stream'[q]) = 0
    BY <2>2
  <2>3. CASE \E e \in Event : /\ ~remote[q] /\ Publish(q, e)
                            /\ stream'[q] = Append(stream[q], e)
    <3>1. PICK e \in Event : ~remote[q] /\ Publish(q, e) /\ stream'[q] = Append(stream[q], e)
      BY <2>3
    <3>2. Scoped(e) /\ stream[q] \in Seq(Event)
      BY <1>3, <3>1 DEF ScopeInv, BusInv, TypeOK, Streams
    <3>3. \A n \in 1 .. Len(stream'[q]) :
            stream'[q][n] = e \/ (n \in 1 .. Len(stream[q]) /\ stream'[q][n] = stream[q][n])
      BY <3>1, <3>2, AppendedItem
    <3> QED BY <1>2, <3>2, <3>3
  <2> QED BY <2>1, <2>2, <2>3, LocalEvents DEF ScopeInv
<1> QED BY <1>1, <1>4 DEF LocalSignalsStayInScope, InScope, Scoped

(* Whatever mix of backends is in use, a signal on a memory bus goes from  *)
(* the agent its approval names to the one it names.                       *)
THEOREM LocalSignalsScoped == Spec => []LocalSignalsStayInScope
<1>1. Init => ScopeInv
  <2> SUFFICES ASSUME Init PROVE ScopeInv
    OBVIOUS
  <2>1. issued = {} /\ \A s \in Streams : Len(stream[s]) = 0
    BY DEF Init
  <2>2. BusInv
    BY BusInit
  <2> QED BY <2>1, <2>2 DEF ScopeInv, IdsAreUnique, LocalSignalsStayInScope, Streams
<1>2. ScopeInv /\ [Next]_vars => ScopeInv'
  BY ScopeStep, BusStep DEF ScopeInv
<1>3. ScopeInv => LocalSignalsStayInScope
  BY DEF ScopeInv
<1> QED BY <1>1, <1>2, <1>3, PTL DEF Spec

-------------------------------------------------------------------------------
(* The keys in Redis.                                                      *)

(* Inductive: no approval outlives a key set now, what approve awaits was  *)
(* issued, and a key set for an acknowledged approval outlives it.         *)
KeysOutliveTokens ==
  /\ \A i \in issued : i.approval.expires <= clock + KeyTTL
  /\ granted \subseteq {i.approval.id : i \in issued}
  /\ \A r \in Replicas : \A a \in setting[r] : \E i \in issued : i.approval = a
  /\ \A i \in issued :
       (i.approval.id \in granted /\ i.approval.expires > clock)
         => \E k \in keys : k.id = i.approval.id /\ k.until >= i.approval.expires

(* Every step keeps the keys.                                              *)
LEMMA KeysStep ==
  ASSUME TypeOK, KeysOutliveTokens, [Next]_vars
  PROVE  KeysOutliveTokens'
<1> USE KeyTTLAssumption, BusBoundsAssumption
<1>t. /\ clock \in Nat /\ \A i \in issued : i.approval.expires \in Nat
      /\ \A k \in keys : k.until \in Nat
  BY DEF TypeOK, Issue, Approval, Key
<1>1. ASSUME UNCHANGED <<issued, clock, granted, keys>>,
             \A r \in Replicas : setting'[r] \subseteq setting[r]
      PROVE  KeysOutliveTokens'
  BY <1>1 DEF KeysOutliveTokens
<1>2. ASSUME NEW r \in Replicas, Offer(r)
      PROVE  KeysOutliveTokens'
  <2>a. PICK id \in Tokens, s \in Agents, t \in Agents, type \in EventTypes, ttl \in Lifetimes :
          /\ \A i \in issued : i.approval.id # id
          /\ Approve(r, [id |-> id, source |-> s, target |-> t, permits |-> type,
                         expires |-> clock + ttl])
    BY <1>2 DEF Offer
  <2> DEFINE a == [id |-> id, source |-> s, target |-> t, permits |-> type,
                   expires |-> clock + ttl]
  <2>1. /\ \A i \in issued : i.approval.id # a.id
        /\ a.expires = clock + ttl
        /\ Approve(r, a)
    BY <2>a
  <2> HIDE DEF a
  <2> DEFINE new == [approval |-> a, by |-> r, life |-> life[r]]
  <2>2. issued' = issued \union {new} /\ UNCHANGED <<clock, granted, keys>>
    BY <2>1 DEF Approve
  <2>3. new.approval = a
    OBVIOUS
  <2>4. \A q \in Replicas : setting'[q] \subseteq setting[q] \union {a}
    BY <2>1 DEF Approve, TypeOK
  <2> HIDE DEF new
  <2>5. a.id \notin granted
    BY <2>1 DEF KeysOutliveTokens
  <2>6. ttl \in Nat /\ ttl <= KeyTTL
    BY LifetimesAssumption
  <2>7. \A i \in issued' : i.approval.expires <= clock + KeyTTL
    BY <1>t, <2>1, <2>2, <2>3, <2>6 DEF KeysOutliveTokens
  <2>8. \A q \in Replicas : \A b \in setting'[q] : \E i \in issued' : i.approval = b
    BY <2>2, <2>3, <2>4 DEF KeysOutliveTokens
  <2>9. granted \subseteq {i.approval.id : i \in issued'}
    BY <2>2 DEF KeysOutliveTokens
  <2>10. \A i \in issued' : (i.approval.id \in granted /\ i.approval.expires > clock)
           => \E k \in keys : k.id = i.approval.id /\ k.until >= i.approval.expires
    BY <2>2, <2>3, <2>5 DEF KeysOutliveTokens
  <2> QED BY <2>2, <2>7, <2>8, <2>9, <2>10 DEF KeysOutliveTokens
<1>3. ASSUME NEW r \in Replicas, NEW a \in setting[r], KeySet(r, a)
      PROVE  KeysOutliveTokens'
  <2> DEFINE key == [id |-> a.id, until |-> clock + KeyTTL]
  <2>1. /\ keys' = keys \union {key} /\ UNCHANGED <<issued, clock>>
        /\ granted' \subseteq granted \union {a.id}
    BY <1>3 DEF KeySet, KeyUntil
  <2>2. key.id = a.id /\ key.until = clock + KeyTTL
    OBVIOUS
  <2> HIDE DEF key
  <2>3. \A q \in Replicas : setting'[q] \subseteq setting[q]
    BY <1>3 DEF KeySet, TypeOK
  <2>4. granted' \subseteq {i.approval.id : i \in issued}
    BY <2>1 DEF KeysOutliveTokens
  <2>5. \A i \in issued : (i.approval.id \in granted' /\ i.approval.expires > clock)
          => \E k \in keys' : k.id = i.approval.id /\ k.until >= i.approval.expires
    BY <1>t, <2>1, <2>2 DEF KeysOutliveTokens
  <2> QED BY <2>1, <2>3, <2>4, <2>5 DEF KeysOutliveTokens
<1>4. CASE Tick
  <2>1. /\ clock' = clock + 1 /\ keys' = {k \in keys : k.until > clock'}
        /\ UNCHANGED <<issued, granted, setting>>
    BY <1>4 DEF Tick
  <2>2. \A i \in issued : i.approval.expires <= clock' + KeyTTL
    BY <1>t, <2>1 DEF KeysOutliveTokens
  <2>3. \A i \in issued : (i.approval.id \in granted /\ i.approval.expires > clock')
          => \E k \in keys' : k.id = i.approval.id /\ k.until >= i.approval.expires
    BY <1>t, <2>1 DEF KeysOutliveTokens
  <2> QED BY <2>1, <2>2, <2>3 DEF KeysOutliveTokens
<1>5. ASSUME NEW r \in Replicas,
             \/ Initialize(r) \/ FallBack(r) \/ Signal(r) \/ BeginClose(r) \/ Close(r) \/ Crash(r)
             \/ \E a \in setting[r] : KeyNotSet(r, a)
             \/ \E e \in adding[r] : Added(r, e) \/ NotAdded(r, e)
      PROVE  KeysOutliveTokens'
  <2>1. UNCHANGED <<issued, clock, granted, keys>>
    <3>1. CASE Signal(r)
      BY <3>1 DEF Signal, Publish
    <3> QED BY <1>5, <3>1 DEF Initialize, FallBack, BeginClose, Close, Crash, KeyNotSet, Added,
                              NotAdded
  <2>2. \A q \in Replicas : setting'[q] \subseteq setting[q]
    <3>1. CASE Signal(r)
      BY <3>1 DEF Signal, Publish
    <3>2. CASE Crash(r)
      BY <3>2 DEF Crash, TypeOK
    <3>3. CASE \E a \in setting[r] : KeyNotSet(r, a)
      BY <3>3 DEF KeyNotSet, TypeOK
    <3> QED BY <1>5, <3>1, <3>2, <3>3 DEF Initialize, FallBack, BeginClose, Close, Added, NotAdded
  <2> QED BY <1>1, <2>1, <2>2
<1>6. CASE UNCHANGED vars
  BY <1>1, <1>6 DEF vars
<1> QED BY <1>2, <1>3, <1>4, <1>5, <1>6 DEF Next, Answer

(* Whatever is delayed, lost or closed, Redis holds the key of an approval *)
(* approve has acknowledged until the approval expires.                    *)
THEOREM KeysCovered == Spec => []KeysCoverTokens
<1> DEFINE Inv == TypeOK /\ KeysOutliveTokens
<1>1. Init => Inv
  <2> SUFFICES ASSUME Init PROVE Inv
    OBVIOUS
  <2>1. TypeOK
    BY BusInit DEF BusInv
  <2> QED BY <2>1 DEF Init, KeysOutliveTokens
<1>2. Inv /\ [Next]_vars => Inv'
  BY BusTypeStep, KeysStep
<1>3. Inv => KeysCoverTokens
  BY DEF KeysOutliveTokens, KeysCoverTokens
<1> QED BY <1>1, <1>2, <1>3, PTL DEF Spec

===============================================================================
