------------------------------- MODULE EventBus -------------------------------
(***************************************************************************)
(* The event bus: approvals are registered, and a peer signal is published *)
(* only under one.  RedisEventBus keeps the approvals of its own process   *)
(* in a dictionary, writes each to Redis as well and appends the events of *)
(* all processes to one stream; MemoryEventBus keeps both to itself.  A    *)
(* replica starts with the bus it is configured for, and next to an SQLite *)
(* blackboard falls back to a memory bus when Redis does not answer, so    *)
(* both kinds may be in use at once.  A step ends at an await: a call that *)
(* awaits Redis is two steps, and everything else can happen in between.   *)
(***************************************************************************)
EXTENDS Integers, Sequences, FiniteSets

CONSTANTS
  Replicas,   (* processes, each with a bus of its own                      *)
  Tokens,     (* approval ids (uuid4: each is approved once)                *)
  Agents,
  OnRedis,    (* the replicas configured with the Redis backend             *)
  Sqlite,     (* the blackboard is SQLite: a failed start may fall back     *)
  Lifetimes,  (* seconds an approval may be issued for                      *)
  KeyTTL,     (* events.approval_ttl_seconds, the lifetime of a Redis key   *)
  MaxEvents,  (* bound: events published                                    *)
  MaxLives,   (* bound: closes and crashes of one replica                   *)
  MaxClock,   (* bound: last instant of the clock                           *)
  MaxFaults   (* bound: failed Redis calls and crashes                      *)

ASSUME LifetimesAssumption == Lifetimes \subseteq Nat \ {0}
ASSUME KeyTTLAssumption == KeyTTL \in Nat \ {0} /\ \A t \in Lifetimes : t <= KeyTTL
ASSUME BackendAssumption ==
  OnRedis \subseteq Replicas /\ "redis" \notin Replicas /\ Sqlite \in BOOLEAN
ASSUME BusBoundsAssumption ==
  MaxEvents \in Nat /\ MaxLives \in Nat /\ MaxClock \in Nat /\ MaxFaults \in Nat

(* Every event type but PEER_SIGNAL is treated alike.                      *)
EventTypes == {"peer_signal", "other"}

Approval ==
  [id : Tokens, source : Agents, target : Agents, permits : EventTypes, expires : Nat]

(* An event with the replica that published it, the life of that replica   *)
(* and the instant at which the event was validated.                       *)
Event ==
  [type : EventTypes, token : Tokens \union {"none"}, source : Agents,
   target : Agents \union {"none"}, by : Replicas, life : Nat, at : Nat]

Key == [id : Tokens, until : Nat]

(* What was ever registered, and with which bus.                           *)
Issue == [approval : Approval, by : Replicas, life : Nat]

VARIABLES
  remote,     (* the bus of a replica is a RedisEventBus                    *)
  client,     (* RedisEventBus._redis: "none", "open" or being closed       *)
  approvals,  (* _approvals of each replica                                 *)
  setting,    (* approve calls that await redis.set                         *)
  adding,     (* publish calls that await redis.xadd                        *)
  keys,       (* the approval keys in Redis                                 *)
  stream,     (* the Redis stream, or each memory bus' _events              *)
  clock,
  faults,
  life,       (* history: closes and crashes of each replica                *)
  issued,     (* history: approvals ever registered                         *)
  granted     (* history: ids whose approve returned after redis.set        *)

vars ==
  <<remote, client, approvals, setting, adding, keys, stream, clock, faults, life, issued, granted>>

Streams == Replicas \union {"redis"}

TypeOK ==
  /\ remote \in [Replicas -> BOOLEAN]
  /\ client \in [Replicas -> {"none", "open", "closing"}]
  /\ approvals \in [Replicas -> SUBSET Approval]
  /\ setting \in [Replicas -> SUBSET Approval]
  /\ adding \in [Replicas -> SUBSET Event]
  /\ keys \subseteq Key
  /\ stream \in [Streams -> Seq(Event)]
  /\ clock \in 0 .. MaxClock
  /\ faults \in 0 .. MaxFaults
  /\ life \in [Replicas -> Nat]
  /\ issued \subseteq Issue
  /\ granted \subseteq Tokens

Init ==
  /\ remote = [r \in Replicas |-> r \in OnRedis]
  /\ client = [r \in Replicas |-> "none"]
  /\ approvals = [r \in Replicas |-> {}]
  /\ setting = [r \in Replicas |-> {}]
  /\ adding = [r \in Replicas |-> {}]
  /\ keys = {}
  /\ stream = [s \in Streams |-> <<>>]
  /\ clock = 0
  /\ faults = 0
  /\ life = [r \in Replicas |-> 0]
  /\ issued = {}
  /\ granted = {}

-------------------------------------------------------------------------------
(* initialize: the client is assigned before the ping, so it is there      *)
(* whether or not Redis answers.  The memory bus has nothing to do.        *)
Initialize(r) ==
  /\ remote[r]
  /\ client[r] = "none"
  /\ client' = [client EXCEPT ![r] = "open"]
  /\ UNCHANGED <<remote, approvals, setting, adding, keys, stream, clock, faults, life, issued, granted>>

(* build_runtime: Redis does not answer, the bus nobody has used yet is    *)
(* closed and replaced by a memory bus.  Next to another database the      *)
(* process does not start.                                                 *)
FallBack(r) ==
  /\ Sqlite
  /\ remote[r]
  /\ client[r] = "none"
  /\ approvals[r] = {} /\ setting[r] = {} /\ adding[r] = {}
  /\ faults < MaxFaults
  /\ faults' = faults + 1
  /\ remote' = [remote EXCEPT ![r] = FALSE]
  /\ UNCHANGED <<client, approvals, setting, adding, keys, stream, clock, life, issued, granted>>

(* The dictionary is written first; redis.set is awaited if there is a     *)
(* client.  Nothing checks that the approval is new or still in the future. *)
Approve(r, a) ==
  /\ approvals' = [approvals EXCEPT ![r] = @ \union {a}]
  /\ setting' = [setting EXCEPT ![r] = IF client[r] # "none" THEN @ \union {a} ELSE @]
  /\ issued' = issued \union {[approval |-> a, by |-> r, life |-> life[r]]}
  /\ UNCHANGED <<remote, client, adding, keys, stream, clock, faults, life, granted>>

KeyUntilIssue(a) == a.expires - KeyTTL  \* mistake: the key lives until the token was issued

KeyUntil(a) == clock + KeyTTL

(* redis.set is applied and answers, or is applied and its answer is lost, *)
(* or fails: approve then raises and the dictionary keeps the token.       *)
KeySet(r, a) ==
  /\ a \in setting[r]
  /\ setting' = [setting EXCEPT ![r] = @ \ {a}]
  /\ keys' = keys \union {[id |-> a.id, until |-> KeyUntil(a)]}
  /\ \/ granted' = granted \union {a.id} /\ UNCHANGED faults
     \/ faults < MaxFaults /\ faults' = faults + 1 /\ UNCHANGED granted
  /\ UNCHANGED <<remote, client, approvals, adding, stream, clock, life, issued>>

KeyNotSet(r, a) ==
  /\ a \in setting[r]
  /\ faults < MaxFaults
  /\ faults' = faults + 1
  /\ setting' = [setting EXCEPT ![r] = @ \ {a}]
  /\ UNCHANGED <<remote, client, approvals, adding, keys, stream, clock, life, issued, granted>>

-------------------------------------------------------------------------------
ValidEventExpired(r, e) ==  \* mistake: expires_at is not compared with the clock
  e.type = "peer_signal" =>
    \E a \in approvals[r] :
      /\ a.id = e.token
      /\ a.permits = e.type
      /\ ~remote[r] => a.source = e.source /\ a.target = e.target

ValidEventUnscoped(r, e) ==  \* mistake: the memory bus forgets the target
  e.type = "peer_signal" =>
    \E a \in approvals[r] :
      /\ a.id = e.token
      /\ a.expires > clock
      /\ a.permits = e.type
      /\ ~remote[r] => a.source = e.source

(* _validate_event of both buses; only the memory bus compares the agents  *)
(* of the signal with those of the approval.                               *)
ValidEvent(r, e) ==
  e.type = "peer_signal" =>
    \E a \in approvals[r] :
      /\ a.id = e.token
      /\ a.expires > clock
      /\ a.permits = e.type
      /\ ~remote[r] => a.source = e.source /\ a.target = e.target

(* publish raises and changes nothing when the event is not valid, or when *)
(* a Redis bus has no client.                                              *)
Publish(r, e) ==
  /\ ValidEvent(r, e)
  /\ e.by = r /\ e.life = life[r] /\ e.at = clock
  /\ IF remote[r]
     THEN /\ client[r] # "none"
          /\ adding' = [adding EXCEPT ![r] = @ \union {e}]
          /\ UNCHANGED stream
     ELSE /\ stream' = [stream EXCEPT ![r] = Append(@, e)]
          /\ UNCHANGED adding
  /\ UNCHANGED <<remote, client, approvals, setting, keys, clock, faults, life, issued, granted>>

(* redis.xadd reaches the stream (its answer may be lost, which only the   *)
(* caller notices; what Redis trims at max_stream_length is left out).     *)
Added(r, e) ==
  /\ e \in adding[r]
  /\ adding' = [adding EXCEPT ![r] = @ \ {e}]
  /\ stream' = [stream EXCEPT !["redis"] = Append(@, e)]
  /\ UNCHANGED <<remote, client, approvals, setting, keys, clock, faults, life, issued, granted>>

NotAdded(r, e) ==
  /\ e \in adding[r]
  /\ faults < MaxFaults
  /\ faults' = faults + 1
  /\ adding' = [adding EXCEPT ![r] = @ \ {e}]
  /\ UNCHANGED <<remote, client, approvals, setting, keys, stream, clock, life, issued, granted>>

-------------------------------------------------------------------------------
(* close of a Redis bus awaits aclose; the bus stays usable meanwhile.     *)
BeginClose(r) ==
  /\ client[r] = "open"
  /\ life[r] < MaxLives
  /\ client' = [client EXCEPT ![r] = "closing"]
  /\ UNCHANGED <<remote, approvals, setting, adding, keys, stream, clock, faults, life, issued, granted>>

ForgottenKeepingTokens(r) == approvals  \* mistake: close does not clear the approvals

Forgotten(r) == [approvals EXCEPT ![r] = {}]

(* The rest of close, or all of it when there is no client to close: the   *)
(* approvals are cleared, and with a memory bus its events.                *)
Close(r) ==
  /\ client[r] # "open"
  /\ life[r] < MaxLives
  /\ client' = [client EXCEPT ![r] = "none"]
  /\ approvals' = Forgotten(r)
  /\ stream' = [stream EXCEPT ![r] = <<>>]
  /\ life' = [life EXCEPT ![r] = @ + 1]
  /\ UNCHANGED <<remote, setting, adding, keys, clock, faults, issued, granted>>

(* The process dies with its calls; it comes back with an empty bus of the *)
(* backend it is configured for.                                           *)
Crash(r) ==
  /\ faults < MaxFaults
  /\ faults' = faults + 1
  /\ life[r] < MaxLives
  /\ remote' = [remote EXCEPT ![r] = r \in OnRedis]
  /\ client' = [client EXCEPT ![r] = "none"]
  /\ approvals' = [approvals EXCEPT ![r] = {}]
  /\ setting' = [setting EXCEPT ![r] = {}]
  /\ adding' = [adding EXCEPT ![r] = {}]
  /\ stream' = [stream EXCEPT ![r] = <<>>]
  /\ life' = [life EXCEPT ![r] = @ + 1]
  /\ UNCHANGED <<keys, clock, issued, granted>>

(* Time passes, and Redis drops the keys that have expired.                *)
Tick ==
  /\ clock < MaxClock
  /\ clock' = clock + 1
  /\ keys' = {k \in keys : k.until > clock'}
  /\ UNCHANGED <<remote, client, approvals, setting, adding, stream, faults, life, issued, granted>>

-------------------------------------------------------------------------------
(* Any approval may be registered and any event offered; ids are fresh,    *)
(* and an approval is in the future when it is built.  What an event of    *)
(* another type carries is never looked at.                                *)
Offer(r) ==
  \E id \in Tokens, s, t \in Agents, type \in EventTypes, ttl \in Lifetimes :
    /\ \A i \in issued : i.approval.id # id
    /\ Approve(r, [id |-> id, source |-> s, target |-> t, permits |-> type,
                   expires |-> clock + ttl])

Published(s) == Len(stream[s])

Room ==
  /\ \A s \in Streams : Published(s) < MaxEvents
  /\ \A r \in Replicas : Cardinality(adding[r]) < MaxEvents

Signal(r) ==
  /\ Room
  /\ \E type \in EventTypes, token \in Tokens \union {"none"}, s \in Agents,
        t \in Agents \union {"none"} :
       /\ type = "other" => token = "none" /\ t = "none"
       /\ Publish(r, [type |-> type, token |-> token, source |-> s, target |-> t,
                      by |-> r, life |-> life[r], at |-> clock])

Answer(r) ==
  \/ \E a \in setting[r] : KeySet(r, a) \/ KeyNotSet(r, a)
  \/ \E e \in adding[r] : Added(r, e) \/ NotAdded(r, e)

Next ==
  \/ \E r \in Replicas :
       Initialize(r) \/ FallBack(r) \/ Offer(r) \/ Signal(r) \/ Answer(r)
       \/ BeginClose(r) \/ Close(r) \/ Crash(r)
  \/ Tick

Spec == Init /\ [][Next]_vars

-------------------------------------------------------------------------------
Approved(e) ==
  e.type = "peer_signal" => \E i \in issued :
    /\ i.approval.id = e.token
    /\ i.approval.permits = "peer_signal"
    /\ e.at < i.approval.expires
    /\ i.by = e.by
    /\ i.life = e.life

(* Every signal any process has let through was validated against an       *)
(* approval registered before with that very bus, in the same life of it,  *)
(* that permits signals and had not expired then: no close, crash, restart *)
(* or failed Redis call lets a token outlive its bus or its time.          *)
SignalsWereApproved ==
  /\ \A s \in Streams : \A n \in 1 .. Len(stream[s]) : Approved(stream[s][n])
  /\ \A r \in Replicas : \A e \in adding[r] : Approved(e)

InScope(e) ==
  e.type = "peer_signal" => \A i \in issued :
    i.approval.id = e.token =>
      i.approval.source = e.source /\ i.approval.target = e.target

(* A signal a memory bus lets through goes from the agent the approval     *)
(* names to the one it names, also where that bus is the fallback of a     *)
(* replica whose peers are on Redis.                                       *)
LocalSignalsStayInScope ==
  \A r \in Replicas : \A n \in 1 .. Len(stream[r]) : InScope(stream[r][n])

(* The same of every signal, whatever bus it went out on.                  *)
SignalsStayInScope ==
  /\ \A s \in Streams : \A n \in 1 .. Len(stream[s]) : InScope(stream[s][n])
  /\ \A r \in Replicas : \A e \in adding[r] : InScope(e)

(* While an approval that approve has acknowledged is unexpired, Redis     *)
(* holds its key: the key is set later than the expiry was computed and    *)
(* lives at least as long.                                                 *)
KeysCoverTokens ==
  \A i \in issued :
    (i.approval.id \in granted /\ i.approval.expires > clock)
      => \E k \in keys : k.id = i.approval.id

(* Inductive: what a bus knows was registered with it in its present life. *)
KnownTokensWereIssued ==
  \A r \in Replicas : \A a \in approvals[r] :
    [approval |-> a, by |-> r, life |-> life[r]] \in issued

===============================================================================
