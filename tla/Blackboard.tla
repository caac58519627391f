------------------------------ MODULE Blackboard ------------------------------
(***************************************************************************)
(* The blackboard and those who use it at the same time: searches over the *)
(* newest memories, the relations of the best match in a second database,  *)
(* the artifacts of a run, each committed in a transaction of its own, and *)
(* the orchestrator's inputs, read one table after the other.  Each row    *)
(* bears the instant its own object was built, not that of its commit.     *)
(*                                                                         *)
(* A client uses the blackboard once; the memory, command and report of a  *)
(* run are named by it.                                                    *)
(***************************************************************************)
EXTENDS Integers, Sequences, FiniteSets, SequencesExt

CONSTANTS
  Runs,           \* runs of specialists, which search and write
  Readers,        \* requests to the API and orchestrators, which only read
  Texts,          \* what a memory may say: [words, phrases, facts]
  Queries,        \* what may be asked: [tokens, filters, limit]
  History,        \* the memories earlier processes have left
  AuditWindow, CommandWindow,  \* rows compute_cohesion_inputs reads: 10 and 25
  Driver,         \* Neo4jGraphStore has one: not with SQLite, nor after a failed start
  Instants        \* what the clocks of the replicas show, in whatever order

(* Sets of what is asked for hold one of each: facts and filters are the   *)
(* entries of metadata, words the tokens that occur, phrases the queries   *)
(* that occur as they are.                                                 *)
Clients == Runs \union Readers

Ids == Clients \union {row.id : row \in ToSet(History)}

(* What a row bears of its run: the text of its memory, and whether it has  *)
(* a command.                                                              *)
Row == [id : Ids, at : Int, text : Texts, commands : BOOLEAN]

Tables == {"memory", "command", "stats", "audit"}

(* The row a run has built for each table, or <<>>.                        *)
Artifacts == [Tables -> {<<>>} \union Row]

Link == [source : Ids, target : Runs]

(* The id of a memory is the primary key of its table.                     *)
ASSUME BlackboardAssumption ==
  /\ \A q \in Queries :
       /\ q.limit \in 1 .. 100
       /\ q.tokens \in Seq(ToSet(q.tokens)) /\ q.tokens # <<>>
       /\ IsFiniteSet(q.filters)
  /\ Runs \intersect Readers = {}
  /\ History \in Seq(Row) /\ \A row \in ToSet(History) : row.id \notin Clients
  /\ \A i, j \in DOMAIN History : History[i].id = History[j].id => i = j
  /\ Driver \in BOOLEAN
  /\ AuditWindow \in Nat \ {0} /\ CommandWindow \in Nat \ {0}
  /\ Instants \subseteq Int

VARIABLES
  tables,   \* the committed rows of each table, in the order of the commits
  links,    \* the GESTALT_RELATIONs in Neo4j
  lost,     \* clients whose relation Neo4j dropped without the caller knowing
  pc,       \* where each client is
  draft,    \* the artifacts a run has built
  todo,     \* the tables it has yet to write to
  found,    \* <<>>, or the result of the client's query
  inputs,   \* what it has read for evaluate_cohesion
  latest    \* <<>>, or the stats report it was shown last

vars == <<tables, links, lost, pc, draft, todo, found, inputs, latest>>

Smaller(a, b) == IF a <= b THEN a ELSE b

Result == [query : Queries, upTo : Nat, matches : Seq(Ids), relations : SUBSET Link]

NoInputs == [stats |-> 0, audit |-> {}, command |-> {}]

TypeOK ==
  /\ tables \in [Tables -> Seq(Row)]
  /\ links \subseteq Link /\ lost \subseteq Runs
  /\ pc \in [Clients -> {"idle", "relating", "answered", "linking", "persisting",
                         "auditing", "weighing", "watching", "done"}]
  /\ draft \in [Clients -> Artifacts]
  /\ todo \in [Clients -> Seq(Tables)]
  /\ found \in [Clients -> {<<>>} \union Result]
  /\ inputs \in [Clients -> [stats : Nat, audit : SUBSET Row, command : SUBSET Row]]
  /\ latest \in [Clients -> {<<>>} \union Row]

Init ==
  /\ tables = [t \in Tables |-> IF t = "memory" THEN History ELSE <<>>]
  /\ links = {} /\ lost = {}
  /\ pc = [c \in Clients |-> "idle"]
  /\ draft = [c \in Clients |-> [t \in Tables |-> <<>>]]
  /\ todo = [c \in Clients |-> <<>>]
  /\ found = [c \in Clients |-> <<>>]
  /\ inputs = [c \in Clients |-> NoInputs]
  /\ latest = [c \in Clients |-> <<>>]

Goto(c, place) == pc' = [pc EXCEPT ![c] = place]

-------------------------------------------------------------------------------
(* query_memory.                                                           *)

(* ORDER BY ... DESC LIMIT k: k rows than which no other row is newer.     *)
Newest(rows, k) ==
  {W \in SUBSET rows :
     /\ Cardinality(W) = Smaller(k, Cardinality(rows))
     /\ \A w \in W, other \in rows \ W : w.at >= other.at}

Score(q, text) ==
  2 * Cardinality({i \in DOMAIN q.tokens : q.tokens[i] \in text.words})
    + (IF q.tokens \in text.phrases THEN 5 ELSE 0)
    + Cardinality(q.filters \intersect text.facts)

(* The candidates by descending score, the newest of a score first.        *)
Rankings(q, rows) ==
  {s \in SetToSeqs(rows) : \A i, j \in 1 .. Len(s) : i < j =>
     \/ Score(q, s[i].text) > Score(q, s[j].text)
     \/ Score(q, s[i].text) = Score(q, s[j].text) /\ s[i].at >= s[j].at}

CandidatesCut(q) ==  \* mistake: the rows are cut to the limit before they are ranked
  Newest(ToSet(tables["memory"]), q.limit)

Candidates(q) == Newest(ToSet(tables["memory"]), 3 * q.limit)

(* Those with a score above 0, which a ranking has in front, up to the     *)
(* limit.                                                                  *)
Matches(q, ranking) ==
  LET hits == {i \in DOMAIN ranking : Score(q, ranking[i].text) > 0}
  IN  SubSeq(ranking, 1, Smaller(q.limit, Cardinality(hits)))

Query(c) ==
  /\ pc[c] = "idle"
  /\ \E q \in Queries : \E rows \in Candidates(q) : \E ranking \in Rankings(q, rows) :
       LET matches == Matches(q, ranking)
       IN  /\ found' = [found EXCEPT ![c] = [query |-> q, upTo |-> Len(tables["memory"]),
                          matches |-> [i \in DOMAIN matches |-> matches[i].id],
                          relations |-> {}]]
           /\ Goto(c, IF matches # <<>> /\ Driver THEN "relating" ELSE "answered")
  /\ UNCHANGED <<tables, links, lost, draft, todo, inputs, latest>>

(* query_relations of the best match, in Neo4j, some time later.           *)
Relate(c) ==
  /\ pc[c] = "relating"
  /\ found' = [found EXCEPT ![c].relations =
       {link \in links : Head(found[c].matches) \in {link.source, link.target}}]
  /\ Goto(c, "answered")
  /\ UNCHANGED <<tables, links, lost, draft, todo, inputs, latest>>

-------------------------------------------------------------------------------
(* A run builds its artifacts, each with what the clock of its replica     *)
(* shows then, and persists them: the memory, then a command, then a       *)
(* report.  They are built in other orders, and a clock may be set back.   *)

PlansReportFirst ==  \* mistake: the report is persisted before its commands
  {report \o command \o <<"memory">> : command \in {<<>>, <<"command">>},
                                       report \in {<<>>, <<"stats">>, <<"audit">>}}

Plans == {<<"memory">> \o command \o report : command \in {<<>>, <<"command">>},
                                              report \in {<<>>, <<"stats">>, <<"audit">>}}

Drafts(c, plan) ==
  {[t \in Tables |->
      IF Contains(plan, t)
      THEN [id |-> c, at |-> at[t], text |-> text, commands |-> Contains(plan, "command")]
      ELSE <<>>] : at \in [ToSet(plan) -> Instants], text \in Texts}

Build(c) ==
  /\ pc[c] = "idle"
  /\ \E plan \in Plans : \E artifacts \in Drafts(c, plan) :
       /\ draft' = [draft EXCEPT ![c] = artifacts]
       /\ todo' = [todo EXCEPT ![c] = plan]
  /\ Goto(c, "persisting")
  /\ UNCHANGED <<tables, links, lost, found, inputs, latest>>

CurateStoringFirst(c) ==  \* mistake: the memory is persisted before it is linked
  /\ pc[c] = "answered"
  /\ \E artifacts \in Drafts(c, <<"memory">>) :
       tables' = [tables EXCEPT !["memory"] = Append(@, artifacts["memory"])]
  /\ Goto(c, IF found[c].matches # <<>> THEN "linking" ELSE "done")
  /\ UNCHANGED <<links, lost, draft, todo, found, inputs, latest>>

(* knowledge curates what its query found, and links the best match first. *)
Curate(c) ==
  /\ pc[c] = "answered"
  /\ \E artifacts \in Drafts(c, <<"memory">>) : draft' = [draft EXCEPT ![c] = artifacts]
  /\ todo' = [todo EXCEPT ![c] = <<"memory">>]
  /\ Goto(c, IF found[c].matches # <<>> THEN "linking" ELSE "persisting")
  /\ UNCHANGED <<tables, links, lost, found, inputs, latest>>

RelationReversed(c) ==  \* mistake: source and target change places
  [source |-> c, target |-> Head(found[c].matches)]

(* "CURATED_INTO".                                                         *)
Relation(c) == [source |-> Head(found[c].matches), target |-> c]

(* merge_relations does nothing without a driver; its result is not read,  *)
(* so an error Neo4j reports late goes unseen.                             *)
LinkEntities(c) ==
  /\ pc[c] = "linking"
  /\ \/ /\ Driver
        /\ links' = links \union {Relation(c)}
        /\ UNCHANGED lost
     \/ /\ lost' = lost \union {c}
        /\ UNCHANGED links
  /\ Goto(c, "persisting")
  /\ UNCHANGED <<tables, draft, todo, found, inputs, latest>>

(* One write of persist_outputs: a session, an insert, a commit.           *)
Commit(c) ==
  /\ pc[c] = "persisting"
  /\ todo[c] # <<>>
  /\ tables' = [tables EXCEPT ![Head(todo[c])] = Append(@, draft[c][Head(todo[c])])]
  /\ todo' = [todo EXCEPT ![c] = Tail(@)]
  /\ Goto(c, IF Len(todo[c]) = 1 THEN "done" ELSE "persisting")
  /\ UNCHANGED <<links, lost, draft, found, inputs, latest>>

-------------------------------------------------------------------------------
(* compute_cohesion_inputs: three statements, each of which sees what is   *)
(* committed when it runs.                                                 *)

CountStats(c) ==
  /\ pc[c] = "idle"
  /\ inputs' = [inputs EXCEPT ![c].stats = Len(tables["stats"])]
  /\ Goto(c, "auditing")
  /\ UNCHANGED <<tables, links, lost, draft, todo, found, latest>>

ReadAudits(c) ==
  /\ pc[c] = "auditing"
  /\ \E rows \in Newest(ToSet(tables["audit"]), AuditWindow) :
       inputs' = [inputs EXCEPT ![c].audit = rows]
  /\ Goto(c, "weighing")
  /\ UNCHANGED <<tables, links, lost, draft, todo, found, latest>>

ReadCommands(c) ==
  /\ pc[c] = "weighing"
  /\ \E rows \in Newest(ToSet(tables["command"]), CommandWindow) :
       inputs' = [inputs EXCEPT ![c].command = rows]
  /\ Goto(c, "done")
  /\ UNCHANGED <<tables, links, lost, draft, todo, found, latest>>

LatestCommitted ==  \* mistake: the report stored last, not the one captured last
  {{row \in ToSet(tables["stats"]) : row = Last(tables["stats"])}}

(* get_latest_stats, by a client that asks again and again.                *)
LatestStats == Newest(ToSet(tables["stats"]), 1)

Watch(c) ==
  /\ pc[c] \in {"idle", "watching"}
  /\ \E rows \in LatestStats : \E row \in rows : latest' = [latest EXCEPT ![c] = row]
  /\ Goto(c, "watching")
  /\ UNCHANGED <<tables, links, lost, draft, todo, found, inputs>>

-------------------------------------------------------------------------------
(* A client whose awaited call raises, or that is lost with its process,   *)
(* takes no further step: nothing here makes it take one.                  *)
Next ==
  \/ \E c \in Clients : Query(c) \/ Relate(c)
  \/ \E r \in Runs : Build(r) \/ Curate(r) \/ LinkEntities(r) \/ Commit(r)
  \/ \E o \in Readers : CountStats(o) \/ ReadAudits(o) \/ ReadCommands(o) \/ Watch(o)

Spec == Init /\ [][Next]_vars

-------------------------------------------------------------------------------
Stored == ToSet(tables["memory"])

(* The ids matched answer q on the rows of a store: a row that scores and   *)
(* is not matched has three times the limit of others as new as it is in    *)
(* front of it, or the answer is full of better ones.                       *)
BestMatch(q, matched, store) ==
  \A row \in store :
    IF row.id \in matched
    THEN Score(q, row.text) > 0
    ELSE \/ Score(q, row.text) = 0
         \/ Cardinality({other \in store \ {row} : other.at >= row.at}) >= 3 * q.limit
         \/ /\ Cardinality(matched) = q.limit
            /\ \A other \in store : other.id \in matched =>
                 Score(q, other.text) >= Score(q, row.text)

(* A query forgets nothing without a reason, and what does not score is     *)
(* never a match, among the memories stored when it read them.              *)
AnswersAreTheBest ==
  \A c \in Clients : found[c] # <<>> =>
    BestMatch(found[c].query, ToSet(found[c].matches),
              ToSet(SubSeq(tables["memory"], 1, found[c].upTo)))

Searched(c) == found[c] # <<>> /\ found[c].matches # <<>>

(* The lineage of a curated memory is as durable as the memory: whoever    *)
(* finds it as best match reads the relation to what it was curated from,  *)
(* although the two are in different databases, unless Neo4j dropped it.   *)
LineageIsComplete ==
  \A c, d \in Clients :
    /\ Driver
    /\ pc[c] \notin {"idle", "relating"}
    /\ Searched(c) /\ Head(found[c].matches) = d
    /\ Searched(d) /\ d \notin lost
    => Relation(d) \in found[c].relations

(* Lineage has no cycles and no dead roots: a relation comes from a stored *)
(* memory, and what was curated from it is stored after it, or not yet, or *)
(* never.                                                                  *)
LineageFollowsCommits ==
  \A link \in links :
    \E i \in DOMAIN tables["memory"] :
      /\ tables["memory"][i].id = link.source
      /\ \A j \in DOMAIN tables["memory"] : tables["memory"][j].id = link.target => i < j

(* c has read the command of an audit, or a window full of commands than   *)
(* which that one, stored as it is, is not newer.                          *)
Weighed(c, audit) ==
  \E command \in ToSet(tables["command"]) :
    /\ command.id = audit.id
    /\ \/ command \in inputs[c].command
       \/ /\ Cardinality(inputs[c].command) = CommandWindow
          /\ \A other \in inputs[c].command : other.at >= command.at

(* The inputs of the cohesion score are not torn where it matters: an      *)
(* audit that counts comes with the commands it asked for, unless commands *)
(* that are at least as new as they fill the window.                       *)
AuditsComeWithCommands ==
  \A c \in Clients : pc[c] = "done" =>
    \A audit \in inputs[c].audit : audit.commands => Weighed(c, audit)

(* Who looks at the latest stats twice is never shown an older report than *)
(* before, in whatever order the runs of two replicas commit theirs.       *)
LatestNeverGoesBack ==
  [][\A c \in Clients : latest[c] # <<>> => latest'[c].at >= latest[c].at]_vars

-------------------------------------------------------------------------------
(* The inductive invariant.                                                *)
Commanded(id) == \E command \in ToSet(tables["command"]) : command.id = id

HasStored(id) == \E k \in DOMAIN tables["memory"] : tables["memory"][k].id = id

(* What a run has yet to store are rows of its own, and a command comes     *)
(* with them or is stored already when they say that the run has one.      *)
Prepared(r) ==
  \A i \in DOMAIN todo[r] :
    LET row == draft[r][todo[r][i]]
    IN  /\ row \in Row /\ row.id = r
        /\ row.commands => Commanded(r) \/ \E j \in DOMAIN todo[r] : todo[r][j] = "command"

(* A run stores its memory, then its command, then its report, and what it *)
(* found is linked to its memory before any of them is stored.             *)
RunsKeepOrder(r) ==
  /\ pc[r] \in {"idle", "relating", "answered", "linking", "persisting", "done"}
  /\ pc[r] = "linking" => Searched(r)
  /\ pc[r] \in {"idle", "relating", "answered", "linking"} => ~HasStored(r)
  /\ Prepared(r)
  /\ \A i, j \in DOMAIN todo[r] : i < j => todo[r][i] # "audit"
  /\ pc[r] \in {"persisting", "done"} /\ Searched(r) /\ r \notin lost => Relation(r) \in links
  /\ inputs[r] = NoInputs

(* What a client has read is there.                                        *)
ReadsAreStored(c) ==
  /\ pc[c] = "idle" => found[c] = <<>>
  /\ pc[c] \in {"relating", "answered"} => found[c] # <<>>
  /\ pc[c] = "relating" => found[c].matches # <<>>
  /\ found[c] # <<>> => \A i \in DOMAIN found[c].matches : HasStored(found[c].matches[i])
  /\ \A audit \in inputs[c].audit : audit.commands => Commanded(audit.id)
  /\ latest[c] # <<>> => latest[c] \in ToSet(tables["stats"])

(* Together with the properties it gives.                                  *)
IInv ==
  /\ TypeOK
  /\ \A o \in Readers : ~HasStored(o)
  /\ \A r \in Runs : RunsKeepOrder(r)
  /\ \A c \in Clients : ReadsAreStored(c)
  /\ \A audit \in ToSet(tables["audit"]) : audit.commands => Commanded(audit.id)
  /\ LineageIsComplete
  /\ LineageFollowsCommits
  /\ AuditsComeWithCommands

(* No memory is stored twice: a run has its own in front of what it has yet *)
(* to write, or no longer.  What an answer was computed from stays in front *)
(* of what is stored later.                                                 *)
SearchInv ==
  /\ \A i, j \in DOMAIN tables["memory"] :
       tables["memory"][i].id = tables["memory"][j].id => i = j
  /\ \A r \in Runs : \A i \in DOMAIN todo[r] :
       todo[r][i] = "memory" => i = 1 /\ ~HasStored(r)
  /\ \A c \in Clients : found[c] # <<>> => found[c].upTo \in 0 .. Len(tables["memory"])
  /\ AnswersAreTheBest

===============================================================================
