--------------------------- MODULE Blackboard_proofs ---------------------------
(***************************************************************************)
(* Theorems about Blackboard for any clients, texts, queries, windows and  *)
(* clocks, and their proofs.                                               *)
(***************************************************************************)
EXTENDS Blackboard, FiniteSetTheorems, TLAPS

(* The rows of a table are finitely many.                                  *)
LEMMA TableFinite ==
  ASSUME NEW S, NEW s \in Seq(S)
  PROVE  IsFiniteSet(ToSet(s)) /\ ToSet(s) \subseteq S
<1>1. s \in Surjection(1 .. Len(s), ToSet(s))
  BY DEF Surjection, ToSet
<1>2. IsFiniteSet(1 .. Len(s))
  BY FS_Interval
<1> QED BY <1>1, <1>2, FS_Surjection DEF ToSet

(* Who is not among the newest k rows has k rows before it.                *)
LEMMA NewestWindow ==
  ASSUME NEW rows, IsFiniteSet(rows), NEW k \in Nat, NEW W \in Newest(rows, k),
         NEW row \in rows, row \notin W
  PROVE  Cardinality(W) = k /\ \A w \in W : w.at >= row.at
<1>1. W \subseteq rows /\ W # rows
  BY DEF Newest
<1>2. /\ Cardinality(rows) \in Nat /\ Cardinality(W) \in Nat
      /\ Cardinality(W) # Cardinality(rows)
  BY <1>1, FS_Subset, FS_CardinalityType
<1>3. Cardinality(W) = Smaller(k, Cardinality(rows))
  BY DEF Newest
<1> QED BY <1>1, <1>2, <1>3 DEF Newest, Smaller

(* The newest row of a table is at least as new as any other.              *)
LEMMA NewestIsLatest ==
  ASSUME NEW rows \in SUBSET Row, IsFiniteSet(rows), NEW W \in Newest(rows, 1),
         NEW w \in W, NEW row \in rows
  PROVE  w.at >= row.at
<1>1. W \subseteq rows /\ IsFiniteSet(W) /\ Cardinality(rows) \in Nat
  BY FS_Subset, FS_CardinalityType DEF Newest
<1>2. CASE row \in W
  <2>1. {w, row} \subseteq W /\ IsFiniteSet({w, row})
    BY <1>1, <1>2, FS_Subset
  <2>2. Cardinality(W) \in Nat /\ Cardinality(W) <= 1
    BY <1>1, FS_CardinalityType DEF Newest, Smaller
  <2>3. Cardinality(W) # 0
    BY <1>1, <1>2, FS_EmptySet
  <2>4. \E x : W = {x}
    BY <1>1, <2>2, <2>3, FS_Singleton
  <2>5. w = row /\ row.at \in Int
    BY <1>2, <2>4 DEF Row
  <2> QED BY <2>5
<1>3. CASE row \notin W
  BY <1>3, NewestWindow
<1> QED BY <1>2, <1>3

(* Matches are ids of rows the query has read.                             *)
LEMMA MatchesAreRows ==
  ASSUME NEW q \in Queries, NEW rows \in SUBSET Row, IsFiniteSet(rows),
         NEW ranking \in Rankings(q, rows)
  PROVE  Matches(q, ranking) \in Seq(rows)
<1> DEFINE hits == {i \in DOMAIN ranking : Score(q, ranking[i].text) > 0}
<1>1. Cardinality(rows) \in Nat /\ ranking \in [1 .. Cardinality(rows) -> rows]
  BY FS_CardinalityType DEF Rankings, SetToSeqs
<1>2. ranking \in Seq(rows) /\ Len(ranking) = Cardinality(rows)
      /\ DOMAIN ranking = 1 .. Cardinality(rows)
  BY <1>1
<1>3. Cardinality(hits) \in Nat /\ Cardinality(hits) <= Len(ranking)
  <2>1. IsFiniteSet(1 .. Len(ranking)) /\ Cardinality(1 .. Len(ranking)) = Len(ranking)
    BY <1>1, <1>2, FS_Interval
  <2>2. hits \in SUBSET (1 .. Len(ranking))
    BY <1>2
  <2> HIDE DEF hits
  <2> QED BY <2>1, <2>2, FS_Subset, FS_CardinalityType
<1>4. Smaller(q.limit, Cardinality(hits)) \in 0 .. Len(ranking)
  <2>1. q.limit \in Nat
    <3>1. q.limit \in 1 .. 100
      BY BlackboardAssumption, Zenon
    <3> QED BY <3>1
  <2> HIDE DEF hits
  <2> QED BY <1>1, <1>2, <1>3, <2>1 DEF Smaller
<1> HIDE DEF hits
<1>5. SubSeq(ranking, 1, Smaller(q.limit, Cardinality(hits))) \in Seq(rows)
  <2> DEFINE k == Smaller(q.limit, Cardinality(hits))
  <2>1. \A i \in 1 .. k : ranking[i] \in rows
    BY <1>2, <1>4
  <2> HIDE DEF k
  <2> QED BY <1>2, <1>4, <2>1 DEF k
<1> QED BY <1>5 DEF Matches, hits

-------------------------------------------------------------------------------
(* What happens to a store that only grows.                                *)

(* A table that gets a row more keeps the ones it has where they are.      *)
LEMMA AppendKeeps ==
  ASSUME NEW s \in Seq(Row), NEW row \in Row
  PROVE  /\ Append(s, row) \in Seq(Row)
         /\ DOMAIN Append(s, row) = DOMAIN s \union {Len(s) + 1}
         /\ \A i \in DOMAIN s : Append(s, row)[i] = s[i] /\ i < Len(s) + 1
         /\ Append(s, row)[Len(s) + 1] = row
         /\ ToSet(Append(s, row)) = ToSet(s) \union {row}
<1>1. /\ Append(s, row) \in Seq(Row)
      /\ DOMAIN Append(s, row) = DOMAIN s \union {Len(s) + 1}
      /\ \A i \in DOMAIN s : Append(s, row)[i] = s[i] /\ i < Len(s) + 1
      /\ Append(s, row)[Len(s) + 1] = row
  OBVIOUS
<1> QED BY <1>1 DEF ToSet

(* Every table is a sequence of rows.                                      *)
LEMMA TableTypes ==
  ASSUME TypeOK, NEW t \in Tables
  PROVE  /\ tables[t] \in Seq(Row)
         /\ IsFiniteSet(ToSet(tables[t]))
         /\ ToSet(tables[t]) \subseteq Row
<1>1. tables[t] \in Seq(Row)
  BY DEF TypeOK
<1> QED BY <1>1, TableFinite

-------------------------------------------------------------------------------
(* The empty blackboard, and each step, of the inductive invariant.        *)

(* Commands are as they were while the tables are.                         *)
LEMMA CommandsKept == tables' = tables => \A id : Commanded(id)' <=> Commanded(id)
BY DEF Commanded

(* A run that has built and written nothing more is as prepared as it was. *)
LEMMA PreparedKept ==
  ASSUME NEW r, Prepared(r), draft'[r] = draft[r], todo'[r] = todo[r],
         Commanded(r) => Commanded(r)'
  PROVE  Prepared(r)'
BY DEF Prepared

LEMMA InitInvariant == Init => IInv
<1> SUFFICES ASSUME Init PROVE IInv
  OBVIOUS
<1>1. /\ tables["memory"] = History
      /\ \A t \in {"command", "stats", "audit"} : tables[t] = <<>>
      /\ tables \in [Tables -> Seq(Row)]
  <2>1. History \in Seq(Row) /\ <<>> \in Seq(Row)
    BY BlackboardAssumption
  <2> QED BY <2>1 DEF Init, Tables
<1>2. TypeOK
  <2>1. NoInputs \in [stats : Nat, audit : SUBSET Row, command : SUBSET Row]
    BY DEF NoInputs
  <2>2. <<>> \in Seq(Tables) /\ [t \in Tables |-> <<>>] \in Artifacts
    BY DEF Artifacts
  <2> QED BY <1>1, <2>1, <2>2 DEF Init, TypeOK
<1>3. \A c \in Clients : ~HasStored(c)
  <2>1. \A k \in DOMAIN History : History[k] \in ToSet(History)
    BY DEF ToSet
  <2>2. \A row \in ToSet(History) : row.id \notin Clients
    BY BlackboardAssumption, Zenon
  <2> QED BY <1>1, <2>1, <2>2 DEF HasStored
<1>4. \A r \in Runs : RunsKeepOrder(r)
  BY <1>3 DEF Init, RunsKeepOrder, Prepared, Clients, Searched
<1>5. \A c \in Clients : ReadsAreStored(c)
  BY DEF Init, ReadsAreStored, NoInputs
<1>6. \A audit \in ToSet(tables["audit"]) : audit.commands => Commanded(audit.id)
  BY <1>1 DEF ToSet
<1>7. LineageIsComplete /\ LineageFollowsCommits /\ AuditsComeWithCommands
  BY DEF Init, LineageIsComplete, LineageFollowsCommits, AuditsComeWithCommands
<1> QED BY <1>2, <1>3, <1>4, <1>5, <1>6, <1>7 DEF IInv, Clients

(* A run whose memory is not stored was not found by anybody.              *)
LEMMA UnstoredUnfound ==
  ASSUME IInv, NEW c \in Clients, NEW d \in Clients, Searched(c), ~HasStored(d)
  PROVE  Head(found[c].matches) # d
<1>1. found[c] \in Result
  BY DEF IInv, TypeOK, Searched
<1>2. found[c].matches \in Seq(Ids) /\ found[c].matches # <<>>
  BY <1>1 DEF Result, Searched
<1>3. 1 \in DOMAIN found[c].matches /\ Head(found[c].matches) = found[c].matches[1]
  BY <1>2
<1>4. HasStored(found[c].matches[1])
  BY <1>3 DEF IInv, ReadsAreStored, Searched
<1> QED BY <1>3, <1>4

(* A client's step that leaves the stores alone and what the others know   *)
(* keeps the invariant when it does for that client.                       *)
LEMMA StepOfOne ==
  ASSUME IInv, NEW c \in Clients, TypeOK',
         tables' = tables, links' = links, lost' = lost,
         \A d \in Clients \ {c} :
           /\ pc'[d] = pc[d] /\ draft'[d] = draft[d] /\ todo'[d] = todo[d]
           /\ found'[d] = found[d] /\ inputs'[d] = inputs[d] /\ latest'[d] = latest[d],
         c \in Runs => RunsKeepOrder(c)',
         ReadsAreStored(c)',
         found'[c] = found[c] \/ ~HasStored(c),
         pc'[c] \in {"idle", "relating"} \/ ~Searched(c)' \/ ~Driver
           \/ \A d \in Clients : Head(found'[c].matches) = d /\ Searched(d)' /\ d \notin lost
                => Relation(d)' \in found'[c].relations,
         pc'[c] = "done" =>
           \A audit \in inputs'[c].audit : audit.commands => Weighed(c, audit)'
  PROVE  IInv'
<1>1. \A id : (HasStored(id)' <=> HasStored(id)) /\ (Commanded(id)' <=> Commanded(id))
  BY CommandsKept DEF HasStored
<1>2. \A r \in Runs : RunsKeepOrder(r)'
  <2> SUFFICES ASSUME NEW r \in Runs, r # c PROVE RunsKeepOrder(r)'
    OBVIOUS
  <2>1. r \in Clients \ {c} /\ RunsKeepOrder(r)
    BY DEF Clients, IInv
  <2>2. Prepared(r)'
    BY <1>1, <2>1, PreparedKept DEF RunsKeepOrder
  <2> QED BY <1>1, <2>1, <2>2 DEF RunsKeepOrder, Searched, Relation
<1>3. \A d \in Clients : ReadsAreStored(d)'
  <2> SUFFICES ASSUME NEW d \in Clients \ {c} PROVE ReadsAreStored(d)'
    OBVIOUS
  <2>1. ReadsAreStored(d)
    BY DEF IInv
  <2> QED BY <1>1, <2>1 DEF ReadsAreStored
<1>4. LineageIsComplete'
  <2> SUFFICES ASSUME NEW x \in Clients, NEW d \in Clients,
                      Driver, pc'[x] \notin {"idle", "relating"}, Searched(x)',
                      Head(found'[x].matches) = d, Searched(d)', d \notin lost
               PROVE  Relation(d)' \in found'[x].relations
    BY DEF LineageIsComplete
  <2>1. CASE x = c
    BY <2>1
  <2>2. CASE x # c
    <3>1. found'[x] = found[x] /\ pc'[x] = pc[x] /\ Searched(x)
      BY <2>2 DEF Searched
    <3>2. found'[d] = found[d]
      BY <3>1, UnstoredUnfound
    <3> QED BY <3>1, <3>2 DEF IInv, LineageIsComplete, Searched, Relation
  <2> QED BY <2>1, <2>2
<1>5. AuditsComeWithCommands'
  <2> SUFFICES ASSUME NEW d \in Clients \ {c}, pc'[d] = "done",
                      NEW audit \in inputs'[d].audit, audit.commands
               PROVE  Weighed(d, audit)'
    BY DEF AuditsComeWithCommands
  <2>1. Weighed(d, audit)
    BY DEF IInv, AuditsComeWithCommands
  <2> QED BY <2>1 DEF Weighed
<1>6. LineageFollowsCommits' /\ \A o \in Readers : ~HasStored(o)'
  BY <1>1 DEF IInv, LineageFollowsCommits
<1>7. (\A audit \in ToSet(tables["audit"]) : audit.commands => Commanded(audit.id))'
  BY <1>1 DEF IInv
<1> QED BY <1>2, <1>3, <1>4, <1>5, <1>6, <1>7 DEF IInv

(* A query finds memories that are stored.                                 *)
LEMMA QueryStep ==
  ASSUME IInv, NEW c \in Clients, Query(c)
  PROVE  IInv'
<1>1. PICK q \in Queries : \E rows \in Candidates(q) : \E ranking \in Rankings(q, rows) :
        LET matches == Matches(q, ranking)
        IN  /\ found' = [found EXCEPT ![c] = [query |-> q, upTo |-> Len(tables["memory"]),
                           matches |-> [i \in DOMAIN matches |-> matches[i].id],
                           relations |-> {}]]
            /\ Goto(c, IF matches # <<>> /\ Driver THEN "relating" ELSE "answered")
  BY DEF Query
<1>2. PICK rows \in Candidates(q) : \E ranking \in Rankings(q, rows) :
        LET matches == Matches(q, ranking)
        IN  /\ found' = [found EXCEPT ![c] = [query |-> q, upTo |-> Len(tables["memory"]),
                           matches |-> [i \in DOMAIN matches |-> matches[i].id],
                           relations |-> {}]]
            /\ Goto(c, IF matches # <<>> /\ Driver THEN "relating" ELSE "answered")
  BY <1>1
<1>3. PICK ranking \in Rankings(q, rows) :
        LET matches == Matches(q, ranking)
        IN  /\ found' = [found EXCEPT ![c] = [query |-> q, upTo |-> Len(tables["memory"]),
                           matches |-> [i \in DOMAIN matches |-> matches[i].id],
                           relations |-> {}]]
            /\ Goto(c, IF matches # <<>> /\ Driver THEN "relating" ELSE "answered")
  BY <1>2
<1> DEFINE matches == Matches(q, ranking)
           ids == [i \in DOMAIN matches |-> matches[i].id]
           memory == tables["memory"]
           answer == [query |-> q, upTo |-> Len(memory), matches |-> ids, relations |-> {}]
<1>t. TypeOK /\ "memory" \in Tables
  BY DEF IInv, Tables
<1>4. memory \in Seq(Row) /\ IsFiniteSet(ToSet(memory)) /\ ToSet(memory) \subseteq Row
  BY <1>t, TableTypes
<1>5. rows \in SUBSET ToSet(memory) /\ rows \in SUBSET Row /\ IsFiniteSet(rows)
  <2>1. rows \in SUBSET ToSet(memory)
    BY DEF Candidates, Newest
  <2> QED BY <1>4, <2>1, FS_Subset
<1>6. matches \in Seq(rows)
  BY <1>5, MatchesAreRows
<1>7. /\ found' = [found EXCEPT ![c] = answer]
      /\ pc' = [pc EXCEPT ![c] = IF matches # <<>> /\ Driver THEN "relating" ELSE "answered"]
  BY <1>3 DEF Goto
<1> HIDE DEF matches
<1>8. /\ ids \in Seq(Ids) /\ DOMAIN ids = DOMAIN matches
      /\ (ids # <<>> <=> matches # <<>>)
      /\ \A i \in DOMAIN ids : ids[i] = matches[i].id /\ matches[i] \in rows
  <2>1. \A i \in DOMAIN matches : matches[i] \in rows /\ matches[i] \in Row
    BY <1>5, <1>6
  <2>2. \A i \in DOMAIN matches : matches[i].id \in Ids
    BY <2>1 DEF Row
  <2> QED BY <1>6, <2>1, <2>2
<1>9. \A i \in DOMAIN ids : HasStored(ids[i])
  BY <1>5, <1>8 DEF ToSet, HasStored
<1> HIDE DEF ids
<1>10. answer \in Result
  BY <1>4, <1>8 DEF Result
<1>11. pc[c] = "idle" /\ UNCHANGED <<tables, links, lost, draft, todo, inputs, latest>>
  BY DEF Query
<1>12. found'[c] = answer /\ pc'[c] \in {"relating", "answered"}
  BY <1>t, <1>7 DEF TypeOK
<1>13. TypeOK'
  BY <1>t, <1>7, <1>10, <1>11 DEF TypeOK
<1>14. c \in Runs => RunsKeepOrder(c)'
  <2> SUFFICES ASSUME c \in Runs PROVE RunsKeepOrder(c)'
    OBVIOUS
  <2>1. RunsKeepOrder(c)
    BY DEF IInv
  <2>2. Prepared(c)'
    BY <1>11, <2>1, CommandsKept, PreparedKept DEF RunsKeepOrder
  <2> QED BY <1>11, <1>12, <2>1, <2>2 DEF RunsKeepOrder, HasStored
<1>15. ReadsAreStored(c)'
  <2>1. ReadsAreStored(c)
    BY DEF IInv
  <2>2. found'[c].matches = ids /\ found'[c] # <<>>
    BY <1>12
  <2>3. pc'[c] = "relating" => ids # <<>>
    BY <1>t, <1>7, <1>8 DEF TypeOK
  <2>4. \A i \in DOMAIN found'[c].matches : \E k \in DOMAIN tables'["memory"] :
          tables'["memory"][k].id = found'[c].matches[i]
    BY <1>9, <1>11, <2>2 DEF HasStored
  <2> QED BY <1>11, <1>12, <2>1, <2>2, <2>3, <2>4, CommandsKept DEF ReadsAreStored, HasStored
<1>16. ~HasStored(c)
  BY <1>11 DEF IInv, RunsKeepOrder, Clients
<1>17. pc'[c] = "relating" \/ ~Searched(c)' \/ ~Driver
  BY <1>t, <1>7, <1>8, <1>12 DEF TypeOK, Searched
<1>18. \A d \in Clients \ {c} : found'[d] = found[d] /\ pc'[d] = pc[d]
  BY <1>t, <1>7 DEF TypeOK
<1> HIDE DEF answer
<1> QED BY <1>11, <1>12, <1>13, <1>14, <1>15, <1>16, <1>17, <1>18, StepOfOne

(* Whose memory is stored has linked it, unless Neo4j dropped the relation. *)
LEMMA StoredIsLinked ==
  ASSUME IInv, NEW d \in Clients, HasStored(d), Searched(d), d \notin lost
  PROVE  d \in Runs /\ Relation(d) \in links
<1>1. d \in Runs
  BY DEF IInv, Clients
<1>2. RunsKeepOrder(d)
  BY <1>1 DEF IInv
<1> QED BY <1>1, <1>2 DEF RunsKeepOrder

(* The relations of the best match are read after it was linked.           *)
LEMMA RelateStep ==
  ASSUME IInv, NEW c \in Clients, Relate(c)
  PROVE  IInv'
<1> DEFINE related == {link \in links : Head(found[c].matches) \in {link.source, link.target}}
<1>1. /\ TypeOK /\ pc[c] = "relating" /\ ReadsAreStored(c)
      /\ (c \in Runs => RunsKeepOrder(c))
  BY DEF IInv, Relate
<1>2. UNCHANGED <<tables, links, lost, draft, todo, inputs, latest>>
  BY DEF Relate
<1>3. found[c] \in Result /\ Searched(c)
  BY <1>1 DEF TypeOK, ReadsAreStored, Searched
<1>4. /\ found' = [found EXCEPT ![c] = [found[c] EXCEPT !.relations = related]]
      /\ pc' = [pc EXCEPT ![c] = "answered"]
  BY DEF Relate, Goto
<1>5. related \in SUBSET Link
  BY <1>1 DEF TypeOK
<1>6. \A link \in links : link.target = Head(found[c].matches) => link \in related
  OBVIOUS
<1> HIDE DEF related
<1>7. /\ found'[c] \in Result /\ found'[c].matches = found[c].matches
      /\ found'[c].relations = related /\ found'[c] # <<>> /\ pc'[c] = "answered"
      /\ \A d \in Clients \ {c} : found'[d] = found[d] /\ pc'[d] = pc[d]
  <2>1. /\ found'[c] = [found[c] EXCEPT !.relations = related] /\ pc'[c] = "answered"
        /\ \A d \in Clients \ {c} : found'[d] = found[d] /\ pc'[d] = pc[d]
    BY <1>1, <1>4 DEF TypeOK
  <2>2. found[c] = [query |-> found[c].query, upTo |-> found[c].upTo,
                    matches |-> found[c].matches, relations |-> found[c].relations]
    BY <1>3 DEF Result
  <2>3. found'[c] = [query |-> found[c].query, upTo |-> found[c].upTo,
                     matches |-> found[c].matches, relations |-> related]
    BY <2>1, <2>2
  <2>4. /\ found[c].query \in Queries /\ found[c].upTo \in Nat
        /\ found[c].matches \in Seq(Ids)
    BY <1>3 DEF Result
  <2>5. found'[c] \in Result
    BY <1>5, <2>3, <2>4 DEF Result
  <2> QED BY <2>1, <2>3, <2>5
<1>8. TypeOK'
  BY <1>1, <1>2, <1>4, <1>7 DEF TypeOK
<1>9. ~HasStored(c)
  BY <1>1 DEF IInv, RunsKeepOrder, Clients
<1>10. c \in Runs => RunsKeepOrder(c)'
  <2> SUFFICES ASSUME c \in Runs PROVE RunsKeepOrder(c)'
    OBVIOUS
  <2>1. Prepared(c)'
    BY <1>1, <1>2, CommandsKept, PreparedKept DEF RunsKeepOrder
  <2> QED BY <1>1, <1>2, <1>7, <2>1 DEF RunsKeepOrder, HasStored
<1>11. ReadsAreStored(c)'
  BY <1>1, <1>2, <1>3, <1>7, CommandsKept DEF ReadsAreStored, HasStored, Searched
<1>12. \A d \in Clients : Head(found'[c].matches) = d /\ Searched(d)' /\ d \notin lost
         => Relation(d)' \in found'[c].relations
  <2> SUFFICES ASSUME NEW d \in Clients, Head(found[c].matches) = d, Searched(d)', d \notin lost
               PROVE  Relation(d)' \in related
    BY <1>7
  <2>1. HasStored(d)
    BY <1>3, UnstoredUnfound
  <2>2. d # c /\ Searched(d)
    BY <1>7, <1>9, <2>1 DEF Searched
  <2>3. Relation(d) \in links /\ Relation(d)' = Relation(d)
    BY <1>7, <2>1, <2>2, StoredIsLinked DEF Relation
  <2>4. Relation(d).target = d
    BY DEF Relation
  <2> QED BY <1>6, <2>3, <2>4
<1> QED BY <1>1, <1>2, <1>7, <1>8, <1>9, <1>10, <1>11, <1>12, StepOfOne

(* What a run builds are rows of its own, one for each table of its plan.  *)
LEMMA DraftTypes ==
  ASSUME NEW r \in Runs, NEW plan \in Seq(Tables), NEW artifacts \in Drafts(r, plan)
  PROVE  /\ artifacts \in Artifacts
         /\ \A i \in DOMAIN plan :
              /\ artifacts[plan[i]] \in Row /\ artifacts[plan[i]].id = r
              /\ artifacts[plan[i]].commands = Contains(plan, "command")
<1> DEFINE commands == Contains(plan, "command")
<1>1. r \in Ids
  BY DEF Ids, Clients
<1>2. Instants \subseteq Int
  BY BlackboardAssumption, Zenon
<1>3. commands \in BOOLEAN
  BY DEF Contains
<1>4. /\ \A t \in Tables : Contains(plan, t) => t \in ToSet(plan)
      /\ \A i \in DOMAIN plan : plan[i] \in Tables /\ Contains(plan, plan[i])
  BY DEF Contains, ToSet
<1> HIDE DEF commands
<1>5. PICK at \in [ToSet(plan) -> Instants], text \in Texts :
        artifacts = [t \in Tables |->
                       IF Contains(plan, t)
                       THEN [id |-> r, at |-> at[t], text |-> text, commands |-> commands]
                       ELSE <<>>]
  BY DEF Drafts, commands
<1>6. \A t \in ToSet(plan) :
        [id |-> r, at |-> at[t], text |-> text, commands |-> commands] \in Row
  BY <1>1, <1>2, <1>3, <1>5 DEF Row
<1>7. artifacts \in Artifacts
  BY <1>4, <1>5, <1>6 DEF Artifacts
<1>8. ASSUME NEW i \in DOMAIN plan
      PROVE  artifacts[plan[i]] = [id |-> r, at |-> at[plan[i]], text |-> text,
                                   commands |-> commands]
  BY <1>4, <1>5
<1>9. ASSUME NEW i \in DOMAIN plan
      PROVE  /\ artifacts[plan[i]] \in Row /\ artifacts[plan[i]].id = r
             /\ artifacts[plan[i]].commands = commands
  <2> DEFINE row == [id |-> r, at |-> at[plan[i]], text |-> text, commands |-> commands]
  <2>1. plan[i] \in ToSet(plan)
    BY <1>4
  <2>2. row \in Row
    BY <1>6, <2>1
  <2>3. row.id = r /\ row.commands = commands
    OBVIOUS
  <2>4. artifacts[plan[i]] = row
    BY <1>8
  <2> HIDE DEF row
  <2> QED BY <2>2, <2>3, <2>4
<1> QED BY <1>7, <1>9 DEF commands

(* A plan writes commands before the audit, and a draft with commands has  *)
(* them in its plan.                                                       *)
LEMMA PlanOrder ==
  ASSUME NEW plan \in Plans
  PROVE  /\ plan \in Seq(Tables)
         /\ \A i, j \in DOMAIN plan : i < j => plan[i] # "audit"
         /\ Contains(plan, "command") => \E i \in DOMAIN plan : plan[i] = "command"
<1>1. \/ plan = <<"memory">> \/ plan = <<"memory", "command">>
      \/ plan = <<"memory", "stats">> \/ plan = <<"memory", "audit">>
      \/ plan = <<"memory", "command", "stats">> \/ plan = <<"memory", "command", "audit">>
  BY DEF Plans
<1>2. plan \in Seq(Tables) /\ \A i, j \in DOMAIN plan : i < j => plan[i] # "audit"
  <2>1. CASE plan = <<"memory">>
    BY <2>1 DEF Tables
  <2>2. CASE plan = <<"memory", "command">>
    BY <2>2 DEF Tables
  <2>3. CASE plan = <<"memory", "stats">>
    BY <2>3 DEF Tables
  <2>4. CASE plan = <<"memory", "audit">>
    BY <2>4 DEF Tables
  <2>5. CASE plan = <<"memory", "command", "stats">>
    BY <2>5 DEF Tables
  <2>6. CASE plan = <<"memory", "command", "audit">>
    BY <2>6 DEF Tables
  <2> QED BY <1>1, <2>1, <2>2, <2>3, <2>4, <2>5, <2>6
<1>3. Contains(plan, "command") => \E i \in DOMAIN plan : plan[i] = "command"
  BY <1>2 DEF Contains
<1> QED BY <1>2, <1>3

(* A run has nothing stored when it builds its artifacts.                  *)
LEMMA BuildStep ==
  ASSUME IInv, NEW r \in Runs, Build(r)
  PROVE  IInv'
<1>1. PICK plan \in Plans : \E artifacts \in Drafts(r, plan) :
        /\ draft' = [draft EXCEPT ![r] = artifacts]
        /\ todo' = [todo EXCEPT ![r] = plan]
  BY DEF Build
<1>2. PICK artifacts \in Drafts(r, plan) :
        /\ draft' = [draft EXCEPT ![r] = artifacts]
        /\ todo' = [todo EXCEPT ![r] = plan]
  BY <1>1
<1>3. /\ pc[r] = "idle" /\ pc' = [pc EXCEPT ![r] = "persisting"]
      /\ UNCHANGED <<tables, links, lost, found, inputs, latest>>
  BY DEF Build, Goto
<1>4. TypeOK /\ r \in Clients /\ RunsKeepOrder(r) /\ ReadsAreStored(r)
  BY DEF IInv, Clients
<1>5. /\ artifacts \in Artifacts
      /\ \A i \in DOMAIN plan :
           /\ artifacts[plan[i]] \in Row /\ artifacts[plan[i]].id = r
           /\ artifacts[plan[i]].commands = Contains(plan, "command")
  BY PlanOrder, DraftTypes
<1>6. /\ draft'[r] = artifacts /\ todo'[r] = plan /\ pc'[r] = "persisting"
      /\ \A d \in Clients \ {r} : pc'[d] = pc[d] /\ draft'[d] = draft[d] /\ todo'[d] = todo[d]
  BY <1>2, <1>3, <1>4 DEF TypeOK
<1>7. TypeOK'
  BY <1>2, <1>3, <1>4, <1>5, PlanOrder DEF TypeOK
<1>8. ~Searched(r)' /\ ~Searched(r)
  BY <1>3, <1>4 DEF Searched, ReadsAreStored
<1>9. RunsKeepOrder(r)'
  <2>1. Prepared(r)'
    BY <1>5, <1>6, PlanOrder DEF Prepared
  <2> QED BY <1>3, <1>4, <1>6, <1>8, <2>1, PlanOrder DEF RunsKeepOrder
<1>10. ReadsAreStored(r)'
  BY <1>3, <1>4, <1>6, CommandsKept DEF ReadsAreStored, HasStored
<1> QED BY <1>3, <1>4, <1>6, <1>7, <1>8, <1>9, <1>10, StepOfOne

(* knowledge has what its query found, and nothing stored, when it curates. *)
LEMMA CurateStep ==
  ASSUME IInv, NEW r \in Runs, Curate(r)
  PROVE  IInv'
<1>1. PICK artifacts \in Drafts(r, <<"memory">>) :
        draft' = [draft EXCEPT ![r] = artifacts]
  BY DEF Curate
<1>2. /\ pc[r] = "answered" /\ todo' = [todo EXCEPT ![r] = <<"memory">>]
      /\ pc' = [pc EXCEPT ![r] = IF found[r].matches # <<>> THEN "linking" ELSE "persisting"]
      /\ UNCHANGED <<tables, links, lost, found, inputs, latest>>
  BY DEF Curate, Goto
<1>3. TypeOK /\ r \in Clients /\ RunsKeepOrder(r) /\ ReadsAreStored(r)
  BY DEF IInv, Clients
<1>4. <<"memory">> \in Seq(Tables) /\ DOMAIN <<"memory">> = {1}
  BY DEF Tables
<1>5. /\ artifacts \in Artifacts
      /\ artifacts["memory"] \in Row /\ artifacts["memory"].id = r
      /\ artifacts["memory"].commands = FALSE
  <2>1. Contains(<<"memory">>, "command") = FALSE
    BY DEF Contains
  <2>2. /\ artifacts \in Artifacts
        /\ \A i \in DOMAIN <<"memory">> :
             /\ artifacts[<<"memory">>[i]] \in Row /\ artifacts[<<"memory">>[i]].id = r
             /\ artifacts[<<"memory">>[i]].commands = Contains(<<"memory">>, "command")
    BY <1>4, DraftTypes
  <2>3. 1 \in DOMAIN <<"memory">> /\ <<"memory">>[1] = "memory"
    OBVIOUS
  <2> QED BY <2>1, <2>2, <2>3
<1>6. /\ draft'[r] = artifacts /\ todo'[r] = <<"memory">>
      /\ pc'[r] = IF found[r].matches # <<>> THEN "linking" ELSE "persisting"
      /\ \A d \in Clients \ {r} : pc'[d] = pc[d] /\ draft'[d] = draft[d] /\ todo'[d] = todo[d]
  BY <1>1, <1>2, <1>3 DEF TypeOK
<1>7. TypeOK'
  BY <1>1, <1>2, <1>3, <1>4, <1>5 DEF TypeOK
<1>8. RunsKeepOrder(r)'
  <2>1. Prepared(r)'
    BY <1>4, <1>5, <1>6 DEF Prepared
  <2> QED BY <1>2, <1>3, <1>4, <1>6, <2>1 DEF RunsKeepOrder, Searched, HasStored, ReadsAreStored
<1>9. ReadsAreStored(r)'
  BY <1>2, <1>3, <1>6, CommandsKept DEF ReadsAreStored, HasStored
<1>10. \A d \in Clients : Driver /\ Searched(r)' /\ Head(found'[r].matches) = d /\ Searched(d)'
                          /\ d \notin lost => Relation(d)' \in found'[r].relations
  BY <1>2, <1>3 DEF IInv, LineageIsComplete, Searched, Relation
<1>11. pc'[r] # "done"
  BY <1>6
<1> QED BY <1>2, <1>3, <1>6, <1>7, <1>8, <1>9, <1>10, <1>11, StepOfOne

(* A reader that has begun keeps what its query found, if it made one.     *)
LEMMA ReadersDoNotRun ==
  ASSUME IInv, NEW o \in Readers
  PROVE  o \notin Runs /\ o \in Clients /\ ~HasStored(o) /\ ReadsAreStored(o) /\ TypeOK
BY BlackboardAssumption DEF IInv, Clients

LEMMA CountStatsStep ==
  ASSUME IInv, NEW o \in Readers, CountStats(o)
  PROVE  IInv'
<1>1. /\ pc[o] = "idle" /\ pc' = [pc EXCEPT ![o] = "auditing"]
      /\ inputs' = [inputs EXCEPT ![o] = [inputs[o] EXCEPT !.stats = Len(tables["stats"])]]
      /\ UNCHANGED <<tables, links, lost, draft, todo, found, latest>>
  BY DEF CountStats, Goto
<1>2. o \notin Runs /\ o \in Clients /\ ~HasStored(o) /\ ReadsAreStored(o) /\ TypeOK
  BY ReadersDoNotRun
<1>3. inputs[o] \in [stats : Nat, audit : SUBSET Row, command : SUBSET Row]
  BY <1>2 DEF TypeOK
<1>4. Len(tables["stats"]) \in Nat
  BY <1>2, TableTypes DEF Tables
<1>5. /\ inputs'[o] \in [stats : Nat, audit : SUBSET Row, command : SUBSET Row]
      /\ inputs'[o].audit = inputs[o].audit /\ pc'[o] = "auditing"
      /\ \A d \in Clients \ {o} : pc'[d] = pc[d] /\ inputs'[d] = inputs[d]
  BY <1>1, <1>2, <1>3, <1>4 DEF TypeOK
<1>6. TypeOK'
  BY <1>1, <1>2, <1>5 DEF TypeOK
<1>7. ReadsAreStored(o)' /\ ~Searched(o)'
  BY <1>1, <1>2, <1>5, CommandsKept DEF ReadsAreStored, HasStored, Searched
<1> QED BY <1>1, <1>2, <1>5, <1>6, <1>7, StepOfOne

(* An audit that is read has its commands in the other table already.      *)
LEMMA ReadAuditsStep ==
  ASSUME IInv, NEW o \in Readers, ReadAudits(o)
  PROVE  IInv'
<1>1. PICK rows \in Newest(ToSet(tables["audit"]), AuditWindow) :
        inputs' = [inputs EXCEPT ![o] = [inputs[o] EXCEPT !.audit = rows]]
  BY DEF ReadAudits
<1>2. /\ pc[o] = "auditing" /\ pc' = [pc EXCEPT ![o] = "weighing"]
      /\ UNCHANGED <<tables, links, lost, draft, todo, found, latest>>
  BY DEF ReadAudits, Goto
<1>3. o \notin Runs /\ o \in Clients /\ ~HasStored(o) /\ ReadsAreStored(o) /\ TypeOK
  BY ReadersDoNotRun
<1>4. inputs[o] \in [stats : Nat, audit : SUBSET Row, command : SUBSET Row]
  BY <1>3 DEF TypeOK
<1>5. rows \subseteq ToSet(tables["audit"]) /\ rows \subseteq Row
  <2>1. rows \subseteq ToSet(tables["audit"])
    BY DEF Newest
  <2> QED BY <1>3, <2>1, TableTypes DEF Tables
<1>6. /\ inputs'[o] \in [stats : Nat, audit : SUBSET Row, command : SUBSET Row]
      /\ inputs'[o].audit = rows /\ pc'[o] = "weighing"
      /\ \A d \in Clients \ {o} : pc'[d] = pc[d] /\ inputs'[d] = inputs[d]
  BY <1>1, <1>2, <1>3, <1>4, <1>5 DEF TypeOK
<1>7. TypeOK'
  BY <1>1, <1>2, <1>3, <1>6 DEF TypeOK
<1>8. \A audit \in rows : audit.commands => Commanded(audit.id)
  BY <1>5 DEF IInv
<1>9. ReadsAreStored(o)'
  BY <1>2, <1>3, <1>6, <1>8, CommandsKept DEF ReadsAreStored, HasStored
<1>10. \A d \in Clients : Driver /\ Searched(o)' /\ Head(found'[o].matches) = d /\ Searched(d)'
                          /\ d \notin lost => Relation(d)' \in found'[o].relations
  BY <1>2, <1>3 DEF IInv, LineageIsComplete, Searched, Relation
<1> QED BY <1>2, <1>3, <1>6, <1>7, <1>9, <1>10, StepOfOne

(* The commands of an audit that was read are in the window, or it is full *)
(* of commands as new as the audit.                                        *)
LEMMA ReadCommandsStep ==
  ASSUME IInv, NEW o \in Readers, ReadCommands(o)
  PROVE  IInv'
<1>1. PICK rows \in Newest(ToSet(tables["command"]), CommandWindow) :
        inputs' = [inputs EXCEPT ![o] = [inputs[o] EXCEPT !.command = rows]]
  BY DEF ReadCommands
<1>2. /\ pc[o] = "weighing" /\ pc' = [pc EXCEPT ![o] = "done"]
      /\ UNCHANGED <<tables, links, lost, draft, todo, found, latest>>
  BY DEF ReadCommands, Goto
<1>3. o \notin Runs /\ o \in Clients /\ ~HasStored(o) /\ ReadsAreStored(o) /\ TypeOK
  BY ReadersDoNotRun
<1>4. inputs[o] \in [stats : Nat, audit : SUBSET Row, command : SUBSET Row]
  BY <1>3 DEF TypeOK
<1>5. /\ rows \subseteq Row /\ CommandWindow \in Nat
      /\ IsFiniteSet(ToSet(tables["command"])) /\ ToSet(tables["command"]) \subseteq Row
  <2>1. rows \subseteq ToSet(tables["command"])
    BY DEF Newest
  <2>2. CommandWindow \in Nat
    BY BlackboardAssumption, Zenon
  <2> QED BY <1>3, <2>1, <2>2, TableTypes DEF Tables
<1>6. /\ inputs'[o] \in [stats : Nat, audit : SUBSET Row, command : SUBSET Row]
      /\ inputs'[o].audit = inputs[o].audit /\ inputs'[o].command = rows /\ pc'[o] = "done"
      /\ \A d \in Clients \ {o} : pc'[d] = pc[d] /\ inputs'[d] = inputs[d]
  BY <1>1, <1>2, <1>3, <1>4, <1>5 DEF TypeOK
<1>7. TypeOK'
  BY <1>1, <1>2, <1>3, <1>6 DEF TypeOK
<1>8. ReadsAreStored(o)'
  BY <1>2, <1>3, <1>6, CommandsKept DEF ReadsAreStored, HasStored
<1>9. \A audit \in inputs'[o].audit : audit.commands => Weighed(o, audit)'
  <2> SUFFICES ASSUME NEW audit \in inputs[o].audit, audit.commands
               PROVE  Weighed(o, audit)'
    BY <1>6
  <2>1. PICK command \in ToSet(tables["command"]) : command.id = audit.id
    BY <1>3 DEF ReadsAreStored, Commanded
  <2>2. \/ command \in rows
        \/ Cardinality(rows) = CommandWindow /\ \A other \in rows : other.at >= command.at
    BY <1>5, <2>1, NewestWindow
  <2> QED BY <1>2, <1>6, <2>1, <2>2 DEF Weighed
<1>10. \A d \in Clients : Driver /\ Searched(o)' /\ Head(found'[o].matches) = d /\ Searched(d)'
                          /\ d \notin lost => Relation(d)' \in found'[o].relations
  BY <1>2, <1>3 DEF IInv, LineageIsComplete, Searched, Relation
<1> QED BY <1>2, <1>3, <1>6, <1>7, <1>8, <1>9, <1>10, StepOfOne

(* The report shown is one of those stored, and none of them is newer.     *)
LEMMA WatchShowsLatest ==
  ASSUME IInv, NEW o \in Readers, Watch(o)
  PROVE  /\ latest'[o] \in ToSet(tables["stats"]) /\ latest'[o] \in Row
         /\ \A row \in ToSet(tables["stats"]) : latest'[o].at >= row.at
         /\ \A d \in Clients \ {o} : latest'[d] = latest[d]
         /\ latest' \in [Clients -> {<<>>} \union Row]
<1>1. PICK rows \in LatestStats : \E row \in rows : latest' = [latest EXCEPT ![o] = row]
  BY DEF Watch
<1>2. PICK row \in rows : latest' = [latest EXCEPT ![o] = row]
  BY <1>1
<1>3. TypeOK /\ o \in Clients
  BY ReadersDoNotRun
<1>4. ToSet(tables["stats"]) \subseteq Row /\ IsFiniteSet(ToSet(tables["stats"]))
  BY <1>3, TableTypes DEF Tables
<1>5. row \in ToSet(tables["stats"]) /\ row \in Row
  BY <1>4 DEF LatestStats, Newest
<1>6. \A other \in ToSet(tables["stats"]) : row.at >= other.at
  BY <1>4, NewestIsLatest DEF LatestStats
<1>7. latest'[o] = row
  BY <1>2, <1>3 DEF TypeOK
<1> QED BY <1>2, <1>3, <1>5, <1>6, <1>7 DEF TypeOK

LEMMA WatchStep ==
  ASSUME IInv, NEW o \in Readers, Watch(o)
  PROVE  IInv'
<1>1. /\ pc[o] \in {"idle", "watching"} /\ pc' = [pc EXCEPT ![o] = "watching"]
      /\ UNCHANGED <<tables, links, lost, draft, todo, found, inputs>>
  BY DEF Watch, Goto
<1>2. o \notin Runs /\ o \in Clients /\ ~HasStored(o) /\ ReadsAreStored(o) /\ TypeOK
  BY ReadersDoNotRun
<1>3. /\ latest'[o] \in ToSet(tables["stats"])
      /\ \A d \in Clients \ {o} : latest'[d] = latest[d]
      /\ latest' \in [Clients -> {<<>>} \union Row]
  BY WatchShowsLatest
<1>4. pc'[o] = "watching" /\ \A d \in Clients \ {o} : pc'[d] = pc[d]
  BY <1>1, <1>2 DEF TypeOK
<1>5. TypeOK'
  BY <1>1, <1>2, <1>3 DEF TypeOK
<1>6. ReadsAreStored(o)'
  BY <1>1, <1>2, <1>3, <1>4, CommandsKept DEF ReadsAreStored, HasStored
<1>7. pc[o] = "idle" => ~Searched(o)'
  BY <1>1, <1>2 DEF ReadsAreStored, Searched
<1>8. pc[o] = "watching" =>
        \A d \in Clients : Driver /\ Searched(o)' /\ Head(found'[o].matches) = d /\ Searched(d)'
                           /\ d \notin lost => Relation(d)' \in found'[o].relations
  BY <1>1, <1>2 DEF IInv, LineageIsComplete, Searched, Relation
<1> QED BY <1>1, <1>2, <1>3, <1>4, <1>5, <1>6, <1>7, <1>8, StepOfOne

(* A run links its memory to a stored one before it stores it.             *)
LEMMA LinkEntitiesStep ==
  ASSUME IInv, NEW r \in Runs, LinkEntities(r)
  PROVE  IInv'
<1>1. /\ pc[r] = "linking" /\ pc' = [pc EXCEPT ![r] = "persisting"]
      /\ UNCHANGED <<tables, draft, todo, found, inputs, latest>>
      /\ \/ links' = links \union {Relation(r)} /\ lost' = lost
         \/ links' = links /\ lost' = lost \union {r}
  BY DEF LinkEntities, Goto
<1>2. TypeOK /\ r \in Clients /\ RunsKeepOrder(r) /\ ReadsAreStored(r)
  BY DEF IInv, Clients
<1>3. found[r] \in Result /\ Searched(r) /\ ~HasStored(r)
  BY <1>1, <1>2 DEF TypeOK, RunsKeepOrder, Searched
<1>4. /\ found[r].matches \in Seq(Ids) /\ 1 \in DOMAIN found[r].matches
      /\ Head(found[r].matches) = found[r].matches[1]
  <2>1. found[r].matches \in Seq(Ids) /\ found[r].matches # <<>>
    BY <1>3 DEF Result, Searched
  <2> QED BY <2>1
<1>5. HasStored(Head(found[r].matches)) /\ Relation(r) \in Link
  BY <1>2, <1>3, <1>4 DEF ReadsAreStored, Searched, Relation, Link
<1>6. pc'[r] = "persisting" /\ \A d \in Clients \ {r} : pc'[d] = pc[d]
  BY <1>1, <1>2 DEF TypeOK
<1>7. TypeOK'
  BY <1>1, <1>2, <1>5 DEF TypeOK
<1>8. \A q \in Runs : RunsKeepOrder(q)'
  <2> SUFFICES ASSUME NEW q \in Runs PROVE RunsKeepOrder(q)'
    OBVIOUS
  <2>1. RunsKeepOrder(q) /\ q \in Clients
    BY DEF IInv, Clients
  <2>2. Prepared(q)'
    BY <1>1, <2>1, CommandsKept, PreparedKept DEF RunsKeepOrder
  <2> QED BY <1>1, <1>6, <2>1, <2>2 DEF RunsKeepOrder, HasStored, Searched, Relation
<1>9. \A c \in Clients : ReadsAreStored(c)'
  <2> SUFFICES ASSUME NEW c \in Clients PROVE ReadsAreStored(c)'
    OBVIOUS
  <2>1. ReadsAreStored(c)
    BY DEF IInv
  <2> QED BY <1>1, <1>6, <2>1, CommandsKept DEF ReadsAreStored, HasStored
<1>10. LineageIsComplete'
  BY <1>1, <1>6 DEF IInv, LineageIsComplete, Searched, Relation
<1>11. LineageFollowsCommits'
  <2> SUFFICES ASSUME NEW link \in links'
               PROVE  \E i \in DOMAIN tables["memory"] :
                        /\ tables["memory"][i].id = link.source
                        /\ \A j \in DOMAIN tables["memory"] :
                             tables["memory"][j].id = link.target => i < j
    BY <1>1 DEF LineageFollowsCommits
  <2>1. CASE link \in links
    BY <2>1 DEF IInv, LineageFollowsCommits
  <2>2. CASE link = Relation(r)
    BY <1>3, <1>5, <2>2 DEF HasStored, Relation
  <2> QED BY <1>1, <2>1, <2>2
<1>12. AuditsComeWithCommands'
  BY <1>1, <1>6 DEF IInv, AuditsComeWithCommands, Weighed
<1>13. /\ \A o \in Readers : ~HasStored(o)'
       /\ (\A audit \in ToSet(tables["audit"]) : audit.commands => Commanded(audit.id))'
  BY <1>1, CommandsKept DEF IInv, HasStored
<1> QED BY <1>7, <1>8, <1>9, <1>10, <1>11, <1>12, <1>13 DEF IInv

(* One more row, of its own run, at the end of a table.                    *)
LEMMA CommitStep ==
  ASSUME IInv, NEW r \in Runs, Commit(r)
  PROVE  IInv'
<1> DEFINE t == Head(todo[r])
           row == draft[r][t]
<1>1. /\ pc[r] = "persisting" /\ todo[r] # <<>>
      /\ tables' = [tables EXCEPT ![t] = Append(tables[t], row)]
      /\ todo' = [todo EXCEPT ![r] = Tail(todo[r])]
      /\ pc' = [pc EXCEPT ![r] = IF Len(todo[r]) = 1 THEN "done" ELSE "persisting"]
      /\ UNCHANGED <<links, lost, draft, found, inputs, latest>>
  BY DEF Commit, Goto
<1>2. TypeOK /\ r \in Clients /\ r \notin Readers /\ RunsKeepOrder(r)
  BY BlackboardAssumption DEF IInv, Clients
<1>3. /\ row \in Row /\ row.id = r
      /\ row.commands => Commanded(r) \/ \E i \in DOMAIN todo[r] : todo[r][i] = "command"
  <2>1. todo[r] \in Seq(Tables)
    BY <1>2 DEF TypeOK
  <2>2. t = todo[r][1] /\ 1 \in DOMAIN todo[r]
    BY <1>1, <2>1
  <2> QED BY <1>2, <2>2 DEF RunsKeepOrder, Prepared
<1>4. todo[r] \in Seq(Tables)
  BY <1>2 DEF TypeOK
<1>5. /\ t \in Tables /\ t = todo[r][1] /\ 1 \in DOMAIN todo[r]
      /\ Tail(todo[r]) \in Seq(Tables)
      /\ \A i \in DOMAIN Tail(todo[r]) : i + 1 \in DOMAIN todo[r] /\ Tail(todo[r])[i] = todo[r][i + 1]
      /\ \A i \in DOMAIN todo[r] : i = 1 \/ (i - 1 \in DOMAIN Tail(todo[r])
                                             /\ Tail(todo[r])[i - 1] = todo[r][i] /\ 1 < i)
  BY <1>1, <1>4
<1>6. tables[t] \in Seq(Row)
  BY <1>2, <1>5 DEF TypeOK
<1> HIDE DEF t, row
<1>7. /\ tables'[t] = Append(tables[t], row)
      /\ \A u \in Tables : u # t => tables'[u] = tables[u]
      /\ todo'[r] = Tail(todo[r]) /\ pc'[r] \in {"persisting", "done"}
      /\ \A d \in Clients \ {r} : pc'[d] = pc[d] /\ todo'[d] = todo[d]
  BY <1>1, <1>2, <1>5 DEF TypeOK
<1>8. /\ tables'[t] \in Seq(Row)
      /\ DOMAIN tables'[t] = DOMAIN tables[t] \union {Len(tables[t]) + 1}
      /\ \A i \in DOMAIN tables[t] : tables'[t][i] = tables[t][i] /\ i < Len(tables[t]) + 1
      /\ tables'[t][Len(tables[t]) + 1] = row
      /\ ToSet(tables'[t]) = ToSet(tables[t]) \union {row}
  BY <1>3, <1>6, <1>7, AppendKeeps
<1>9. TypeOK'
  <2>1. tables' \in [Tables -> Seq(Row)]
    BY <1>1, <1>2, <1>7, <1>8 DEF TypeOK
  <2> QED BY <1>1, <1>2, <1>5, <2>1 DEF TypeOK
<1>10. \A u \in Tables : /\ ToSet(tables[u]) \subseteq ToSet(tables'[u])
                         /\ ToSet(tables'[u]) \subseteq ToSet(tables[u]) \union {row}
  BY <1>7, <1>8
<1>11. \A id : /\ HasStored(id) => HasStored(id)'
               /\ id # r /\ HasStored(id)' => HasStored(id)
  <2>1. CASE t = "memory"
    BY <1>3, <1>8, <2>1 DEF HasStored
  <2>2. CASE t # "memory"
    BY <1>7, <2>2 DEF HasStored, Tables
  <2> QED BY <2>1, <2>2
<1>c. \A id : Commanded(id) => Commanded(id)'
  BY <1>10 DEF Commanded, Tables
<1>12. RunsKeepOrder(r)'
  <2>1. \A i, j \in DOMAIN todo'[r] : i < j => todo'[r][i] # "audit"
    BY <1>2, <1>4, <1>5, <1>7 DEF RunsKeepOrder
  <2>2. Prepared(r)'
    <3> SUFFICES ASSUME NEW k \in DOMAIN todo'[r]
                 PROVE  /\ draft'[r][todo'[r][k]] \in Row /\ draft'[r][todo'[r][k]].id = r
                        /\ draft'[r][todo'[r][k]].commands =>
                             \/ Commanded(r)'
                             \/ \E i \in DOMAIN todo'[r] : todo'[r][i] = "command"
      BY DEF Prepared
    <3>1. /\ k + 1 \in DOMAIN todo[r] /\ todo'[r][k] = todo[r][k + 1]
          /\ draft'[r] = draft[r]
      BY <1>1, <1>5, <1>7
    <3>2. /\ draft[r][todo'[r][k]] \in Row /\ draft[r][todo'[r][k]].id = r
          /\ draft[r][todo'[r][k]].commands =>
               Commanded(r) \/ \E i \in DOMAIN todo[r] : todo[r][i] = "command"
      BY <1>2, <3>1 DEF RunsKeepOrder, Prepared
    <3>3. ASSUME NEW i \in DOMAIN todo[r], todo[r][i] = "command"
          PROVE  Commanded(r)' \/ \E j \in DOMAIN todo'[r] : todo'[r][j] = "command"
      <4>1. CASE i = 1
        <5>1. t = "command"
          BY <1>5, <3>3, <4>1
        <5> QED BY <1>3, <1>8, <5>1 DEF Commanded
      <4>2. CASE i # 1
        <5>1. i - 1 \in DOMAIN todo'[r] /\ todo'[r][i - 1] = todo[r][i]
          BY <1>5, <1>7, <4>2
        <5> QED BY <3>3, <5>1
      <4> QED BY <4>1, <4>2
    <3> QED BY <1>c, <3>1, <3>2, <3>3
  <2>3. pc'[r] \in {"persisting", "done"} /\ Searched(r)' /\ r \notin lost' => Relation(r)' \in links'
    BY <1>1, <1>2 DEF RunsKeepOrder, Searched, Relation
  <2>4. inputs'[r] = NoInputs
    BY <1>1, <1>2 DEF RunsKeepOrder
  <2> QED BY <1>7, <2>1, <2>2, <2>3, <2>4 DEF RunsKeepOrder, NoInputs
<1>13. \A q \in Runs : RunsKeepOrder(q)'
  <2> SUFFICES ASSUME NEW q \in Runs, q # r PROVE RunsKeepOrder(q)'
    BY <1>12
  <2>1. RunsKeepOrder(q) /\ q \in Clients \ {r}
    BY DEF IInv, Clients
  <2>2. Prepared(q)'
    BY <1>1, <1>7, <1>c, <2>1, PreparedKept DEF RunsKeepOrder
  <2> QED BY <1>1, <1>7, <1>11, <2>1, <2>2 DEF RunsKeepOrder, Searched, Relation
<1>14. \A c \in Clients : ReadsAreStored(c)'
  <2> SUFFICES ASSUME NEW c \in Clients PROVE ReadsAreStored(c)'
    OBVIOUS
  <2>1. ReadsAreStored(c)
    BY DEF IInv
  <2>2. ToSet(tables["stats"]) \subseteq ToSet(tables'["stats"])
    BY <1>10 DEF Tables
  <2>3. pc'[c] \in {"persisting", "done"} \/ pc'[c] = pc[c]
    BY <1>7
  <2>4. found'[c] # <<>> => \A i \in DOMAIN found'[c].matches : HasStored(found[c].matches[i])'
    BY <1>1, <1>11, <2>1 DEF ReadsAreStored
  <2> QED BY <1>1, <1>c, <2>1, <2>2, <2>3, <2>4 DEF ReadsAreStored
<1>15. (\A audit \in ToSet(tables["audit"]) : audit.commands => Commanded(audit.id))'
  <2> SUFFICES ASSUME NEW audit \in ToSet(tables'["audit"]), audit.commands
               PROVE  Commanded(audit.id)'
    OBVIOUS
  <2>1. CASE audit \in ToSet(tables["audit"])
    BY <1>c, <2>1 DEF IInv
  <2>2. CASE audit \notin ToSet(tables["audit"])
    <3>1. t = "audit" /\ audit = row
      BY <1>7, <1>10, <2>2 DEF Tables
    <3>2. ASSUME NEW i \in DOMAIN todo[r] PROVE todo[r][i] # "command"
      <4>1. CASE i = 1
        BY <1>5, <3>1, <4>1
      <4>2. CASE i # 1
        <5>1. 1 < i
          BY <1>5, <4>2
        <5>2. todo[r][1] # "audit"
          BY <1>2, <1>5, <5>1 DEF RunsKeepOrder
        <5> QED BY <1>5, <3>1, <5>2
      <4> QED BY <4>1, <4>2
    <3>3. Commanded(r) /\ audit.id = r
      BY <1>3, <3>1, <3>2
    <3> QED BY <1>c, <3>3
  <2> QED BY <2>1, <2>2
<1>16. LineageIsComplete'
  BY <1>1, <1>2, <1>7 DEF IInv, LineageIsComplete, Searched, Relation
<1>17. LineageFollowsCommits'
  <2> SUFFICES ASSUME NEW link \in links
               PROVE  \E i \in DOMAIN tables'["memory"] :
                        /\ tables'["memory"][i].id = link.source
                        /\ \A j \in DOMAIN tables'["memory"] :
                             tables'["memory"][j].id = link.target => i < j
    BY <1>1 DEF LineageFollowsCommits
  <2>1. PICK i \in DOMAIN tables["memory"] :
          /\ tables["memory"][i].id = link.source
          /\ \A j \in DOMAIN tables["memory"] : tables["memory"][j].id = link.target => i < j
    BY DEF IInv, LineageFollowsCommits
  <2>2. CASE t = "memory"
    BY <1>8, <2>1, <2>2
  <2>3. CASE t # "memory"
    BY <1>7, <2>1, <2>3 DEF Tables
  <2> QED BY <2>2, <2>3
<1>18. AuditsComeWithCommands'
  <2> SUFFICES ASSUME NEW c \in Clients, pc'[c] = "done", NEW audit \in inputs[c].audit,
                      audit.commands
               PROVE  Weighed(c, audit)'
    BY <1>1 DEF AuditsComeWithCommands
  <2>1. c # r
    BY <1>2 DEF RunsKeepOrder, NoInputs
  <2>2. Weighed(c, audit)
    BY <1>7, <2>1 DEF IInv, AuditsComeWithCommands
  <2>3. ToSet(tables["command"]) \subseteq ToSet(tables'["command"])
    BY <1>10 DEF Tables
  <2> QED BY <1>1, <2>2, <2>3 DEF Weighed
<1>19. \A o \in Readers : ~HasStored(o)'
  BY <1>2, <1>11 DEF IInv
<1> QED BY <1>9, <1>13, <1>14, <1>15, <1>16, <1>17, <1>18, <1>19 DEF IInv

LEMMA StepInvariant ==
  ASSUME IInv, [Next]_vars
  PROVE  IInv'
<1>1. CASE UNCHANGED vars
  <2> USE <1>1 DEF vars
  <2>1. TypeOK' /\ \A o \in Readers : ~HasStored(o)'
    BY DEF IInv, TypeOK, HasStored
  <2>2. ASSUME NEW r \in Runs PROVE RunsKeepOrder(r)'
    <3>1. RunsKeepOrder(r) /\ Prepared(r)'
      BY CommandsKept, PreparedKept DEF IInv, RunsKeepOrder
    <3> QED BY <3>1 DEF RunsKeepOrder, HasStored, Searched, Relation
  <2>3. ASSUME NEW c \in Clients PROVE ReadsAreStored(c)'
    BY CommandsKept DEF IInv, ReadsAreStored, HasStored
  <2>4. (\A audit \in ToSet(tables["audit"]) : audit.commands => Commanded(audit.id))'
    BY CommandsKept DEF IInv
  <2>5. LineageIsComplete' /\ LineageFollowsCommits' /\ AuditsComeWithCommands'
    BY DEF IInv, LineageIsComplete, LineageFollowsCommits, AuditsComeWithCommands, Weighed,
           Searched, Relation
  <2> QED BY <2>1, <2>2, <2>3, <2>4, <2>5 DEF IInv
<1>2. CASE \E c \in Clients : Query(c) \/ Relate(c)
  BY <1>2, QueryStep, RelateStep
<1>3. CASE \E r \in Runs : Build(r) \/ Curate(r) \/ LinkEntities(r) \/ Commit(r)
  BY <1>3, BuildStep, CurateStep, LinkEntitiesStep, CommitStep
<1>4. CASE \E o \in Readers : CountStats(o) \/ ReadAudits(o) \/ ReadCommands(o) \/ Watch(o)
  BY <1>4, CountStatsStep, ReadAuditsStep, ReadCommandsStep, WatchStep
<1> QED BY <1>1, <1>2, <1>3, <1>4 DEF Next

-------------------------------------------------------------------------------
(* The inductive invariant holds, for any clients and any clocks.          *)
THEOREM BlackboardInvariant == Spec => []IInv
<1> QED BY InitInvariant, StepInvariant, PTL DEF Spec

(* Every variable keeps its type.                                          *)
THEOREM BlackboardTypes == Spec => []TypeOK
<1>1. IInv => TypeOK
  BY DEF IInv
<1> QED BY <1>1, BlackboardInvariant, PTL

(* Whoever finds a curated memory as best match reads what it was curated  *)
(* from, unless Neo4j dropped the relation.                                *)
THEOREM LineageDurable == Spec => []LineageIsComplete
<1>1. IInv => LineageIsComplete
  BY DEF IInv
<1> QED BY <1>1, BlackboardInvariant, PTL

(* A relation comes from a memory stored before the one it leads to.       *)
THEOREM LineageFollowed == Spec => []LineageFollowsCommits
<1>1. IInv => LineageFollowsCommits
  BY DEF IInv
<1> QED BY <1>1, BlackboardInvariant, PTL

(* Three unprotected reads see an audit with its commands.                 *)
THEOREM AuditsWithCommands == Spec => []AuditsComeWithCommands
<1>1. IInv => AuditsComeWithCommands
  BY DEF IInv
<1> QED BY <1>1, BlackboardInvariant, PTL

(* The latest report never gets older for who looks again.                 *)
THEOREM LatestMonotone == Spec => LatestNeverGoesBack
<1>1. IInv /\ [Next]_vars =>
        [\A c \in Clients : latest[c] # <<>> => latest'[c].at >= latest[c].at]_vars
  <2> SUFFICES ASSUME IInv, Next, NEW c \in Clients, latest[c] # <<>>
               PROVE  latest'[c].at >= latest[c].at
    OBVIOUS
  <2>1. latest[c] \in ToSet(tables["stats"]) /\ latest[c] \in Row
    BY DEF IInv, ReadsAreStored, TypeOK
  <2>2. latest[c].at >= latest[c].at
    BY <2>1 DEF Row
  <2>3. CASE latest' = latest
    BY <2>2, <2>3
  <2>4. ASSUME NEW o \in Readers, Watch(o) PROVE latest'[c].at >= latest[c].at
    BY <2>1, <2>2, <2>4, WatchShowsLatest
  <2> QED BY <2>3, <2>4 DEF Next, Query, Relate, Build, Curate, LinkEntities, Commit,
                            CountStats, ReadAudits, ReadCommands
<1> QED BY <1>1, BlackboardInvariant, PTL DEF Spec, LatestNeverGoesBack

-------------------------------------------------------------------------------
(* What a query answers is the best there is.                              *)

(* A score is a natural number.                                            *)
LEMMA ScoreIsNat ==
  ASSUME NEW q \in Queries, NEW text
  PROVE  Score(q, text) \in Nat
<1> DEFINE occurring == {i \in DOMAIN q.tokens : q.tokens[i] \in text.words}
           kept == q.filters \intersect text.facts
<1>1. q.tokens \in Seq(ToSet(q.tokens)) /\ IsFiniteSet(q.filters)
  BY BlackboardAssumption, Zenon
<1>2. IsFiniteSet(DOMAIN q.tokens)
  <2>1. DOMAIN q.tokens = 1 .. Len(q.tokens) /\ Len(q.tokens) \in Nat
    BY <1>1
  <2>2. IsFiniteSet(1 .. Len(q.tokens))
    BY <2>1, FS_Interval
  <2> QED BY <2>1, <2>2
<1>3. Cardinality(occurring) \in Nat
  <2>1. occurring \subseteq DOMAIN q.tokens
    OBVIOUS
  <2> HIDE DEF occurring
  <2> QED BY <1>2, <2>1, FS_Subset, FS_CardinalityType
<1>4. Cardinality(kept) \in Nat
  <2>1. kept \subseteq q.filters
    OBVIOUS
  <2> HIDE DEF kept
  <2> QED BY <1>1, <2>1, FS_Subset, FS_CardinalityType
<1>5. Score(q, text) = 2 * Cardinality(occurring)
                         + (IF q.tokens \in text.phrases THEN 5 ELSE 0) + Cardinality(kept)
  BY DEF Score
<1> HIDE DEF occurring, kept
<1> QED BY <1>3, <1>4, <1>5

(* Positions that are closed downwards are the first ones.                 *)
LEMMA Prefix ==
  ASSUME NEW n \in Nat, NEW hits \in SUBSET (1 .. n),
         \A i, j \in 1 .. n : j \in hits /\ i < j => i \in hits
  PROVE  /\ Cardinality(hits) \in 0 .. n
         /\ \A i \in 1 .. n : i \in hits <=> i <= Cardinality(hits)
<1>1. \A m \in Nat : IsFiniteSet(1 .. m) /\ Cardinality(1 .. m) = m
  BY FS_Interval
<1>2. IsFiniteSet(hits) /\ Cardinality(hits) \in Nat /\ Cardinality(hits) <= n
  <2>1. IsFiniteSet(1 .. n) /\ Cardinality(1 .. n) = n /\ hits \subseteq 1 .. n
    BY <1>1
  <2> QED BY <2>1, FS_Subset, FS_CardinalityType
<1>3. ASSUME NEW i \in 1 .. n, i \in hits
      PROVE  i <= Cardinality(hits)
  <2>1. \A k \in 1 .. i : k \in hits
    BY <1>3
  <2>2. 1 .. i \subseteq hits
    BY <2>1
  <2>3. Cardinality(1 .. i) <= Cardinality(hits)
    BY <1>2, <2>2, FS_Subset
  <2> QED BY <1>1, <2>3
<1>4. ASSUME NEW i \in 1 .. n, i \notin hits
      PROVE  ~(i <= Cardinality(hits))
  <2>1. \A k \in hits : k \in 1 .. i - 1
    BY <1>4
  <2>2. hits \subseteq 1 .. i - 1 /\ i - 1 \in Nat
    BY <2>1
  <2>3. Cardinality(hits) <= Cardinality(1 .. i - 1)
    BY <1>1, <2>2, FS_Subset
  <2>4. Cardinality(1 .. i - 1) = i - 1
    BY <1>1, <2>2
  <2> QED BY <1>2, <2>3, <2>4
<1> QED BY <1>2, <1>3, <1>4

(* A ranking holds each of the rows once, the better ones first.           *)
LEMMA RankingOrder ==
  ASSUME NEW q \in Queries, NEW rows, IsFiniteSet(rows), NEW ranking \in Rankings(q, rows)
  PROVE  /\ Cardinality(rows) \in Nat
         /\ ranking \in Seq(rows) /\ Len(ranking) = Cardinality(rows)
         /\ \A i, j \in 1 .. Len(ranking) : ranking[i] = ranking[j] => i = j
         /\ \A row \in rows : \E i \in 1 .. Len(ranking) : ranking[i] = row
         /\ \A i, j \in 1 .. Len(ranking) :
              i < j => Score(q, ranking[i].text) >= Score(q, ranking[j].text)
<1> DEFINE n == Cardinality(rows)
<1>1. n \in Nat /\ IsFiniteSet(1 .. n) /\ Cardinality(1 .. n) = n
  <2>1. n \in Nat
    BY FS_CardinalityType
  <2> HIDE DEF n
  <2> QED BY <2>1, FS_Interval
<1>2. /\ ranking \in [1 .. n -> rows]
      /\ \A i, j \in 1 .. n : i # j => ranking[i] # ranking[j]
  BY DEF Rankings, SetToSeqs
<1>3. ranking \in Seq(rows) /\ Len(ranking) = n
  BY <1>1, <1>2
<1>4. ranking \in Injection(1 .. n, rows)
  BY <1>2 DEF Injection, IsInjective
<1>5. ranking \in Surjection(1 .. n, rows)
  BY <1>1, <1>4, FS_Injection
<1>6. \A row \in rows : \E i \in 1 .. n : ranking[i] = row
  BY <1>5 DEF Surjection
<1>7. ASSUME NEW i \in 1 .. n, NEW j \in 1 .. n, i < j
      PROVE  Score(q, ranking[i].text) >= Score(q, ranking[j].text)
  <2>1. \/ Score(q, ranking[i].text) > Score(q, ranking[j].text)
        \/ Score(q, ranking[i].text) = Score(q, ranking[j].text)
    BY <1>3, <1>7 DEF Rankings
  <2>2. Score(q, ranking[i].text) \in Nat /\ Score(q, ranking[j].text) \in Nat
    BY ScoreIsNat
  <2> QED BY <2>1, <2>2
<1> QED BY <1>1, <1>2, <1>3, <1>6, <1>7

(* The matches are the first of a ranking: as many as score, or the limit.  *)
LEMMA MatchesAreFirst ==
  ASSUME NEW q \in Queries, NEW rows, IsFiniteSet(rows), NEW ranking \in Rankings(q, rows)
  PROVE  \E h \in 0 .. Len(ranking) :
           /\ \A i \in 1 .. Len(ranking) : Score(q, ranking[i].text) > 0 <=> i <= h
           /\ Matches(q, ranking) = SubSeq(ranking, 1, Smaller(q.limit, h))
<1> DEFINE hits == {i \in DOMAIN ranking : Score(q, ranking[i].text) > 0}
           n == Len(ranking)
<1>1. /\ n \in Nat /\ DOMAIN ranking = 1 .. n
      /\ \A i, j \in 1 .. n :
           i < j => Score(q, ranking[i].text) >= Score(q, ranking[j].text)
  BY RankingOrder
<1>2. hits \in SUBSET (1 .. n) /\ \A i \in 1 .. n : i \in hits <=> Score(q, ranking[i].text) > 0
  BY <1>1
<1>3. Matches(q, ranking) = SubSeq(ranking, 1, Smaller(q.limit, Cardinality(hits)))
  BY DEF Matches
<1> HIDE DEF hits, n
<1>4. \A i, j \in 1 .. n : j \in hits /\ i < j => i \in hits
  <2> SUFFICES ASSUME NEW i \in 1 .. n, NEW j \in 1 .. n, j \in hits, i < j
               PROVE  i \in hits
    OBVIOUS
  <2>1. Score(q, ranking[i].text) \in Nat /\ Score(q, ranking[j].text) \in Nat
    BY ScoreIsNat
  <2> QED BY <1>1, <1>2, <2>1
<1>5. /\ Cardinality(hits) \in 0 .. n
      /\ \A i \in 1 .. n : i \in hits <=> i <= Cardinality(hits)
  BY <1>1, <1>2, <1>4, Prefix
<1> QED BY <1>2, <1>3, <1>5 DEF n

(* The ids of the first k of a ranking of rows with ids of their own are k.  *)
LEMMA FirstIds ==
  ASSUME NEW rows \in SUBSET Row, \A a, b \in rows : a.id = b.id => a = b,
         NEW ranking \in Seq(rows), NEW k \in 0 .. Len(ranking), NEW ids,
         \A i, j \in 1 .. Len(ranking) : ranking[i] = ranking[j] => i = j,
         ids \in Seq(Ids), Len(ids) = k, \A i \in 1 .. k : ids[i] = ranking[i].id
  PROVE  /\ Cardinality(ToSet(ids)) = k
         /\ \A i \in 1 .. Len(ranking) : ranking[i].id \in ToSet(ids) <=> i <= k
<1>1. \A i, j \in 1 .. Len(ranking) : ranking[i].id = ranking[j].id => i = j
  <2> SUFFICES ASSUME NEW i \in 1 .. Len(ranking), NEW j \in 1 .. Len(ranking),
                      ranking[i].id = ranking[j].id
               PROVE  i = j
    OBVIOUS
  <2>1. ranking[i] \in rows /\ ranking[j] \in rows
    OBVIOUS
  <2> QED BY <2>1
<1>2. DOMAIN ids = 1 .. k /\ ToSet(ids) = {ids[i] : i \in 1 .. k}
  BY DEF ToSet
<1>3. ids \in Surjection(1 .. k, ToSet(ids)) /\ ids \in Injection(1 .. k, ToSet(ids))
  <2>1. ids \in [1 .. k -> ToSet(ids)]
    BY <1>2
  <2>2. \A i, j \in 1 .. k : ids[i] = ids[j] => i = j
    BY <1>1
  <2> QED BY <1>2, <2>1, <2>2 DEF Surjection, Injection, IsInjective
<1>4. Cardinality(ToSet(ids)) = k
  <2>1. IsFiniteSet(1 .. k) /\ Cardinality(1 .. k) = k
    <3>1. \A n \in Nat : IsFiniteSet(1 .. n) /\ Cardinality(1 .. n) = n
      BY FS_Interval
    <3> QED BY <3>1
  <2> QED BY <1>3, <2>1, FS_Surjection
<1>5. ASSUME NEW i \in 1 .. Len(ranking)
      PROVE  ranking[i].id \in ToSet(ids) <=> i <= k
  <2>1. CASE i <= k
    <3>1. i \in 1 .. k /\ ids[i] = ranking[i].id
      BY <2>1
    <3> QED BY <1>2, <2>1, <3>1
  <2>2. CASE ~(i <= k)
    <3>1. ASSUME NEW j \in 1 .. k PROVE ids[j] # ranking[i].id
      <4>1. j \in 1 .. Len(ranking) /\ j # i /\ ids[j] = ranking[j].id
        BY <2>2
      <4> QED BY <1>1, <4>1
    <3> QED BY <1>2, <2>2, <3>1
  <2> QED BY <2>1, <2>2
<1> QED BY <1>4, <1>5

(* Whatever window and ranking a query gets, what it answers is the best.   *)
LEMMA QueryAnswersBest ==
  ASSUME NEW q \in Queries, NEW store \in SUBSET Row, IsFiniteSet(store),
         \A a, b \in store : a.id = b.id => a = b,
         NEW rows \in Newest(store, 3 * q.limit), NEW ranking \in Rankings(q, rows)
  PROVE  BestMatch(q, ToSet([i \in DOMAIN Matches(q, ranking) |-> Matches(q, ranking)[i].id]),
                   store)
<1> DEFINE matches == Matches(q, ranking)
           ids == [i \in DOMAIN matches |-> matches[i].id]
           n == Len(ranking)
<1>1. rows \subseteq store /\ rows \in SUBSET Row /\ IsFiniteSet(rows)
  <2>1. rows \subseteq store
    BY DEF Newest
  <2> QED BY <2>1, FS_Subset
<1>2. q.limit \in Nat /\ q.limit \in 1 .. 100
  <2>1. q.limit \in 1 .. 100
    BY BlackboardAssumption, Zenon
  <2> QED BY <2>1
<1>3. /\ ranking \in Seq(rows) /\ n \in Nat
      /\ \A i, j \in 1 .. n : ranking[i] = ranking[j] => i = j
      /\ \A row \in rows : \E i \in 1 .. n : ranking[i] = row
      /\ \A i, j \in 1 .. n :
           i < j => Score(q, ranking[i].text) >= Score(q, ranking[j].text)
  BY <1>1, RankingOrder
<1>4. PICK h \in 0 .. n :
        /\ \A i \in 1 .. n : Score(q, ranking[i].text) > 0 <=> i <= h
        /\ matches = SubSeq(ranking, 1, Smaller(q.limit, h))
  BY <1>1, MatchesAreFirst
<1> DEFINE k == Smaller(q.limit, h)
<1>5. k \in 0 .. n /\ k \in Nat /\ (k = h \/ k = q.limit) /\ k <= h
  BY <1>2, <1>3, <1>4 DEF Smaller
<1>6. /\ ids \in Seq(Ids) /\ Len(ids) = k
      /\ \A i \in 1 .. k : ids[i] = ranking[i].id
  <2>1. matches = SubSeq(ranking, 1, k)
    BY <1>4
  <2> HIDE DEF matches, k, n
  <2>2. /\ Len(matches) = k /\ DOMAIN matches = 1 .. k
        /\ \A i \in 1 .. k : matches[i] = ranking[i] /\ ranking[i] \in rows
    BY <1>3, <1>5, <2>1 DEF n
  <2>3. \A i \in 1 .. k : ids[i] = ranking[i].id /\ ranking[i].id \in Ids
    BY <1>1, <2>2 DEF Row
  <2> QED BY <1>5, <2>2, <2>3
<1>f. /\ k \in Nat /\ n \in Nat /\ h \in Nat /\ k <= n /\ k <= h
      /\ \A i \in 1 .. k : i \in 1 .. n /\ i <= h
  BY <1>3, <1>5
<1> HIDE DEF matches, ids, k, n
<1>7. /\ Cardinality(ToSet(ids)) = k
      /\ \A i \in 1 .. n : ranking[i].id \in ToSet(ids) <=> i <= k
  <2>1. \A a, b \in rows : a.id = b.id => a = b
    BY <1>1
  <2>2. k \in 0 .. Len(ranking)
    BY <1>f DEF n
  <2>3. \A i, j \in 1 .. Len(ranking) : ranking[i] = ranking[j] => i = j
    BY <1>3 DEF n
  <2>4. /\ Cardinality(ToSet(ids)) = k
        /\ \A i \in 1 .. Len(ranking) : ranking[i].id \in ToSet(ids) <=> i <= k
    <3>1. rows \in SUBSET Row /\ ranking \in Seq(rows)
      BY <1>1, <1>3
    <3>2. ids \in Seq(Ids) /\ Len(ids) = k /\ \A i \in 1 .. k : ids[i] = ranking[i].id
      BY <1>6
    <3> QED BY <2>1, <2>2, <2>3, <3>1, <3>2, FirstIds
  <2> QED BY <2>4 DEF n
<1>8. ASSUME NEW other \in store, other.id \in ToSet(ids)
      PROVE  \E i \in 1 .. k : ranking[i] = other
  <2>1. PICK i \in 1 .. k : other.id = ids[i]
    BY <1>6, <1>8 DEF ToSet
  <2>2. ranking[i] \in rows /\ ranking[i].id = other.id
    <3>1. i \in 1 .. Len(ranking)
      BY <1>f DEF n
    <3>2. ids[i] = ranking[i].id
      BY <1>6
    <3> QED BY <1>3, <2>1, <3>1, <3>2
  <2> QED BY <1>1, <2>2
<1>9. ASSUME NEW row \in store, row.id \in ToSet(ids)
      PROVE  Score(q, row.text) > 0
  <2>1. PICK i \in 1 .. k : ranking[i] = row
    BY <1>8, <1>9
  <2>2. i \in 1 .. n /\ i <= h
    BY <1>f
  <2> QED BY <1>4, <2>1, <2>2
<1>10. ASSUME NEW row \in store, row.id \notin ToSet(ids)
       PROVE  \/ Score(q, row.text) = 0
              \/ Cardinality({other \in store \ {row} : other.at >= row.at}) >= 3 * q.limit
              \/ /\ Cardinality(ToSet(ids)) = q.limit
                 /\ \A other \in store : other.id \in ToSet(ids) =>
                      Score(q, other.text) >= Score(q, row.text)
  <2>1. CASE row \notin rows
    <3> DEFINE newer == {other \in store \ {row} : other.at >= row.at}
    <3>1. Cardinality(rows) = 3 * q.limit /\ \A w \in rows : w.at >= row.at
      <4>1. 3 * q.limit \in Nat
        BY <1>2
      <4> QED BY <2>1, <4>1, NewestWindow
    <3>2. rows \subseteq newer /\ newer \subseteq store
      BY <1>1, <2>1, <3>1
    <3> HIDE DEF newer
    <3>3. Cardinality(rows) <= Cardinality(newer) /\ Cardinality(newer) \in Nat
      BY <3>2, FS_Subset, FS_CardinalityType
    <3>4. Cardinality(newer) >= 3 * q.limit
      BY <1>2, <3>1, <3>3
    <3> QED BY <3>4 DEF newer
  <2>2. CASE row \in rows
    <3>1. PICK j \in 1 .. n : ranking[j] = row
      BY <1>3, <2>2
    <3>2. ~(j <= k)
      BY <1>7, <1>10, <3>1
    <3>3. CASE k = h
      <4>1. ~(Score(q, row.text) > 0)
        BY <1>4, <3>1, <3>2, <3>3
      <4>2. Score(q, row.text) \in Nat
        BY ScoreIsNat
      <4> QED BY <4>1, <4>2
    <3>4. CASE k = q.limit
      <4>1. ASSUME NEW other \in store, other.id \in ToSet(ids)
            PROVE  Score(q, other.text) >= Score(q, row.text)
        <5>1. PICK i \in 1 .. k : ranking[i] = other
          BY <1>8, <4>1
        <5>2. i \in 1 .. n /\ i < j
          BY <1>3, <1>5, <3>2
        <5> QED BY <1>3, <3>1, <5>1, <5>2
      <4> QED BY <1>7, <3>4, <4>1
    <3> QED BY <1>5, <3>3, <3>4
  <2> QED BY <2>1, <2>2
<1>11. BestMatch(q, ToSet(ids), store)
  BY <1>9, <1>10 DEF BestMatch
<1> QED BY <1>11 DEF ids, matches

-------------------------------------------------------------------------------
(* Answers stay the best on what was stored when they were computed.       *)

(* A plan writes its memory first, and once.                               *)
LEMMA PlanStoresFirst ==
  ASSUME NEW plan \in Plans, NEW i \in DOMAIN plan, plan[i] = "memory"
  PROVE  i = 1
<1>1. \/ plan = <<"memory">> \/ plan = <<"memory", "command">>
      \/ plan = <<"memory", "stats">> \/ plan = <<"memory", "audit">>
      \/ plan = <<"memory", "command", "stats">> \/ plan = <<"memory", "command", "audit">>
  BY DEF Plans
<1> QED BY <1>1

(* What a table begins with is the same after another row.                 *)
LEMMA AppendKeepsFirst ==
  ASSUME NEW s \in Seq(Row), NEW row \in Row, NEW k \in 0 .. Len(s)
  PROVE  SubSeq(Append(s, row), 1, k) = SubSeq(s, 1, k)
OBVIOUS

(* A client whose answer is the best keeps it so while the table of         *)
(* memories only gets longer.                                              *)
LEMMA AnswerKept ==
  ASSUME TypeOK, SearchInv, NEW c \in Clients, found[c] # <<>>,
         \/ tables'["memory"] = tables["memory"]
         \/ \E row \in Row : tables'["memory"] = Append(tables["memory"], row),
         found'[c].query = found[c].query, found'[c].matches = found[c].matches,
         found'[c].upTo = found[c].upTo
  PROVE  /\ found'[c].upTo \in 0 .. Len(tables'["memory"])
         /\ BestMatch(found'[c].query, ToSet(found'[c].matches),
                      ToSet(SubSeq(tables'["memory"], 1, found'[c].upTo)))
<1> DEFINE memory == tables["memory"]
           k == found[c].upTo
<1>1. memory \in Seq(Row) /\ k \in 0 .. Len(memory)
  BY DEF TypeOK, Tables, SearchInv
<1>2. BestMatch(found[c].query, ToSet(found[c].matches), ToSet(SubSeq(memory, 1, k)))
  BY DEF SearchInv, AnswersAreTheBest
<1>3. /\ SubSeq(tables'["memory"], 1, k) = SubSeq(memory, 1, k)
      /\ k \in 0 .. Len(tables'["memory"])
  <2>1. CASE tables'["memory"] = memory
    BY <1>1, <2>1
  <2>2. ASSUME NEW row \in Row, tables'["memory"] = Append(memory, row)
        PROVE  /\ SubSeq(tables'["memory"], 1, k) = SubSeq(memory, 1, k)
               /\ k \in 0 .. Len(tables'["memory"])
    <3>1. Len(Append(memory, row)) = Len(memory) + 1 /\ Len(memory) \in Nat
      BY <1>1
    <3>2. k \in 0 .. Len(Append(memory, row))
      BY <1>1, <3>1
    <3> HIDE DEF memory, k
    <3> QED BY <1>1, <2>2, <3>2, AppendKeepsFirst
  <2> QED BY <2>1, <2>2
<1> QED BY <1>2, <1>3

(* A step that stores no memory and answers no query.                      *)
LEMMA SearchKept ==
  ASSUME TypeOK, SearchInv,
         tables'["memory"] = tables["memory"],
         \A c \in Clients : found'[c] # <<>> =>
           /\ found[c] # <<>>
           /\ found'[c].query = found[c].query
           /\ found'[c].matches = found[c].matches
           /\ found'[c].upTo = found[c].upTo,
         \A r \in Runs : \A i \in DOMAIN todo'[r] :
           todo'[r][i] = "memory" => i = 1 /\ ~HasStored(r)
  PROVE  SearchInv'
<1>1. \A id : HasStored(id)' <=> HasStored(id)
  BY DEF HasStored
<1>2. \A i, j \in DOMAIN tables'["memory"] :
        tables'["memory"][i].id = tables'["memory"][j].id => i = j
  BY DEF SearchInv
<1>3. ASSUME NEW c \in Clients, found'[c] # <<>>
      PROVE  /\ found'[c].upTo \in 0 .. Len(tables'["memory"])
             /\ BestMatch(found'[c].query, ToSet(found'[c].matches),
                          ToSet(SubSeq(tables'["memory"], 1, found'[c].upTo)))
  BY <1>3, AnswerKept
<1>4. AnswersAreTheBest'
  BY <1>3 DEF AnswersAreTheBest
<1> QED BY <1>1, <1>2, <1>3, <1>4 DEF SearchInv

(* A query answers with the best of what is stored.                        *)
LEMMA QueryKeepsSearch ==
  ASSUME IInv, SearchInv, NEW c \in Clients, Query(c)
  PROVE  SearchInv'
<1> DEFINE memory == tables["memory"]
           store == ToSet(memory)
           Answered(q, ranking) ==
             found' = [found EXCEPT ![c] =
               [query |-> q, upTo |-> Len(memory),
                matches |-> [i \in DOMAIN Matches(q, ranking) |-> Matches(q, ranking)[i].id],
                relations |-> {}]]
<1>1. PICK q \in Queries : \E rows \in Candidates(q) : \E ranking \in Rankings(q, rows) :
        Answered(q, ranking)
  BY DEF Query
<1>2. PICK rows \in Candidates(q) : \E ranking \in Rankings(q, rows) : Answered(q, ranking)
  BY <1>1
<1>3. PICK ranking \in Rankings(q, rows) : Answered(q, ranking)
  BY <1>2
<1>t. TypeOK /\ "memory" \in Tables /\ UNCHANGED <<tables, todo>>
  BY DEF IInv, Tables, Query
<1>4. memory \in Seq(Row) /\ IsFiniteSet(store) /\ store \in SUBSET Row
  BY <1>t, TableTypes
<1>5. \A a, b \in store : a.id = b.id => a = b
  BY DEF SearchInv, ToSet
<1> DEFINE ids == [i \in DOMAIN Matches(q, ranking) |-> Matches(q, ranking)[i].id]
<1>6. BestMatch(q, ToSet(ids), store)
  <2>1. rows \in Newest(store, 3 * q.limit)
    BY DEF Candidates
  <2> HIDE DEF store
  <2> QED BY <1>4, <1>5, <2>1, QueryAnswersBest
<1> HIDE DEF ids
<1>7. /\ found'[c].query = q /\ found'[c].matches = ids /\ found'[c].upTo = Len(memory)
      /\ \A d \in Clients \ {c} : found'[d] = found[d]
  BY <1>3, <1>t DEF TypeOK, ids
<1>8. ASSUME NEW d \in Clients, found'[d] # <<>>
      PROVE  /\ found'[d].upTo \in 0 .. Len(tables'["memory"])
             /\ BestMatch(found'[d].query, ToSet(found'[d].matches),
                          ToSet(SubSeq(tables'["memory"], 1, found'[d].upTo)))
  <2>1. CASE d = c
    <3>1. SubSeq(memory, 1, Len(memory)) = memory /\ Len(memory) \in 0 .. Len(memory)
      BY <1>4
    <3>2. tables'["memory"] = memory
      BY <1>t
    <3> HIDE DEF memory
    <3> QED BY <1>6, <1>7, <2>1, <3>1, <3>2 DEF store
  <2>2. CASE d # c
    BY <1>7, <1>8, <1>t, <2>2, AnswerKept
  <2> QED BY <2>1, <2>2
<1>9. AnswersAreTheBest'
  BY <1>8 DEF AnswersAreTheBest
<1>10. \A id : HasStored(id)' <=> HasStored(id)
  BY <1>t DEF HasStored
<1>11. /\ \A i, j \in DOMAIN tables'["memory"] :
            tables'["memory"][i].id = tables'["memory"][j].id => i = j
       /\ \A r \in Runs : \A i \in DOMAIN todo'[r] :
            todo'[r][i] = "memory" => i = 1 /\ ~HasStored(r)'
  BY <1>t, <1>10 DEF SearchInv
<1> QED BY <1>8, <1>9, <1>11 DEF SearchInv

(* Reading the relations of the best match changes no match.               *)
LEMMA RelateKeepsSearch ==
  ASSUME IInv, SearchInv, NEW c \in Clients, Relate(c)
  PROVE  SearchInv'
<1> DEFINE related == {link \in links : Head(found[c].matches) \in {link.source, link.target}}
<1>1. /\ TypeOK /\ found[c] # <<>> /\ UNCHANGED <<tables, todo>>
      /\ found' = [found EXCEPT ![c].relations = related]
  BY DEF IInv, Relate, ReadsAreStored
<1> HIDE DEF related
<1>2. found[c] \in Result /\ found \in [Clients -> {<<>>} \union Result]
  BY <1>1 DEF TypeOK
<1>3. /\ found'[c].query = found[c].query /\ found'[c].matches = found[c].matches
      /\ found'[c].upTo = found[c].upTo
  BY <1>1, <1>2 DEF Result
<1>4. \A d \in Clients \ {c} : found'[d] = found[d]
  BY <1>1, <1>2
<1>5. \A d \in Clients : found'[d] # <<>> =>
        /\ found[d] # <<>> /\ found'[d].query = found[d].query
        /\ found'[d].matches = found[d].matches /\ found'[d].upTo = found[d].upTo
  BY <1>1, <1>3, <1>4
<1>6. \A r \in Runs : \A i \in DOMAIN todo'[r] :
        todo'[r][i] = "memory" => i = 1 /\ ~HasStored(r)
  BY <1>1 DEF SearchInv
<1> QED BY <1>1, <1>5, <1>6, SearchKept

(* A run that builds its artifacts has its memory in front of them.        *)
LEMMA PlanKeepsSearch ==
  ASSUME IInv, SearchInv, NEW r \in Runs, Build(r) \/ Curate(r)
  PROVE  SearchInv'
<1>1. PICK plan \in Plans : todo' = [todo EXCEPT ![r] = plan]
  <2>1. <<"memory">> \in Plans
    <3>1. <<"memory">> = <<"memory">> \o <<>> \o <<>>
      OBVIOUS
    <3> QED BY <3>1 DEF Plans
  <2> QED BY <2>1 DEF Build, Curate
<1>2. /\ TypeOK /\ UNCHANGED <<tables, found>> /\ ~HasStored(r)
      /\ todo \in [Clients -> Seq(Tables)] /\ r \in Clients
  BY DEF IInv, TypeOK, RunsKeepOrder, Build, Curate, Clients
<1>3. ASSUME NEW s \in Runs, NEW i \in DOMAIN todo'[s], todo'[s][i] = "memory"
      PROVE  i = 1 /\ ~HasStored(s)
  <2>1. CASE s = r
    <3>1. todo'[s] = plan
      BY <1>1, <1>2, <2>1
    <3> QED BY <1>2, <1>3, <2>1, <3>1, PlanStoresFirst
  <2>2. CASE s # r
    <3>1. todo'[s] = todo[s]
      BY <1>1, <1>2, <2>2 DEF Clients
    <3> QED BY <1>3, <3>1 DEF SearchInv
  <2> QED BY <2>1, <2>2
<1>4. \A d \in Clients : found'[d] = found[d]
  BY <1>2
<1> QED BY <1>2, <1>3, <1>4, SearchKept

(* A run that commits its memory has not stored it before.                 *)
LEMMA CommitKeepsSearch ==
  ASSUME IInv, SearchInv, NEW r \in Runs, Commit(r)
  PROVE  SearchInv'
<1> DEFINE t == Head(todo[r])
           row == draft[r][t]
           memory == tables["memory"]
<1>1. /\ pc[r] = "persisting" /\ todo[r] # <<>>
      /\ tables' = [tables EXCEPT ![t] = Append(tables[t], row)]
      /\ todo' = [todo EXCEPT ![r] = Tail(todo[r])]
      /\ found' = found
  BY DEF Commit
<1>2. TypeOK /\ r \in Clients /\ RunsKeepOrder(r)
  BY DEF IInv, Clients
<1>3. row \in Row /\ row.id = r
  <2>1. todo[r] \in Seq(Tables)
    BY <1>2 DEF TypeOK
  <2>2. t = todo[r][1] /\ 1 \in DOMAIN todo[r]
    BY <1>1, <2>1
  <2> QED BY <1>2, <2>2 DEF RunsKeepOrder, Prepared
<1>4. todo[r] \in Seq(Tables)
  BY <1>2 DEF TypeOK
<1>5. /\ t \in Tables /\ t = todo[r][1] /\ 1 \in DOMAIN todo[r]
      /\ \A i \in DOMAIN Tail(todo[r]) :
           i + 1 \in DOMAIN todo[r] /\ Tail(todo[r])[i] = todo[r][i + 1] /\ i + 1 # 1
  BY <1>1, <1>4
<1>6. memory \in Seq(Row) /\ "memory" \in Tables
  BY <1>2 DEF TypeOK, Tables
<1> HIDE DEF t, row
<1>7. /\ todo'[r] = Tail(todo[r]) /\ \A s \in Runs \ {r} : todo'[s] = todo[s]
      /\ t = "memory" => tables'["memory"] = Append(memory, row)
      /\ t # "memory" => tables'["memory"] = memory
  BY <1>1, <1>2, <1>5, <1>6 DEF TypeOK, Clients
<1>8. ASSUME NEW i \in DOMAIN todo'[r]
      PROVE  todo'[r][i] # "memory"
  BY <1>5, <1>7 DEF SearchInv
<1>9. CASE t # "memory"
  <2>1. tables'["memory"] = tables["memory"]
    BY <1>7, <1>9
  <2>2. \A s \in Runs : \A i \in DOMAIN todo'[s] :
          todo'[s][i] = "memory" => i = 1 /\ ~HasStored(s)
    BY <1>7, <1>8 DEF SearchInv
  <2> QED BY <1>1, <1>2, <2>1, <2>2, SearchKept
<1>10. CASE t = "memory"
  <2>1. ~HasStored(r)
    BY <1>5, <1>10 DEF SearchInv
  <2>2. /\ tables'["memory"] = Append(memory, row)
        /\ DOMAIN Append(memory, row) = DOMAIN memory \union {Len(memory) + 1}
        /\ \A i \in DOMAIN memory : Append(memory, row)[i] = memory[i]
        /\ Append(memory, row)[Len(memory) + 1] = row
    BY <1>3, <1>6, <1>7, <1>10, AppendKeeps
  <2>3. \A i \in DOMAIN memory : memory[i].id # r
    BY <2>1 DEF HasStored
  <2>4. \A i, j \in DOMAIN memory : memory[i].id = memory[j].id => i = j
    BY DEF SearchInv
  <2> HIDE DEF memory
  <2>5. \A i, j \in DOMAIN tables'["memory"] :
          tables'["memory"][i].id = tables'["memory"][j].id => i = j
    BY <1>3, <2>2, <2>3, <2>4
  <2>6. \A s \in Runs \ {r} : HasStored(s)' => HasStored(s)
    BY <1>3, <2>2 DEF HasStored, memory
  <2>7. \A s \in Runs : \A i \in DOMAIN todo'[s] :
          todo'[s][i] = "memory" => i = 1 /\ ~HasStored(s)'
    BY <1>7, <1>8, <2>6 DEF SearchInv
  <2>8. ASSUME NEW c \in Clients, found'[c] # <<>>
        PROVE  /\ found'[c].upTo \in 0 .. Len(tables'["memory"])
               /\ BestMatch(found'[c].query, ToSet(found'[c].matches),
                            ToSet(SubSeq(tables'["memory"], 1, found'[c].upTo)))
    <3>1. \E new \in Row : tables'["memory"] = Append(tables["memory"], new)
      BY <1>3, <2>2 DEF memory
    <3>2. found'[c] = found[c]
      BY <1>1
    <3> QED BY <1>2, <2>8, <3>1, <3>2, AnswerKept
  <2>9. AnswersAreTheBest'
    BY <2>8 DEF AnswersAreTheBest
  <2> QED BY <2>5, <2>7, <2>8, <2>9 DEF SearchInv
<1> QED BY <1>9, <1>10

(* The clients find nothing but the best, and no memory is stored twice, in *)
(* every step.                                                             *)
LEMMA StepKeepsSearch ==
  ASSUME IInv, SearchInv, [Next]_vars
  PROVE  SearchInv'
<1> DEFINE Idle == tables' = tables /\ found' = found /\ todo' = todo
<1>1. ASSUME Idle PROVE SearchInv'
  <2>1. \A r \in Runs : \A i \in DOMAIN todo'[r] :
          todo'[r][i] = "memory" => i = 1 /\ ~HasStored(r)
    BY <1>1 DEF SearchInv
  <2>2. \A d \in Clients : found'[d] = found[d]
    BY <1>1
  <2> QED BY <1>1, <2>1, <2>2, SearchKept DEF IInv
<1>2. ASSUME NEW c \in Clients, Query(c) \/ Relate(c)
      PROVE  SearchInv'
  BY <1>2, QueryKeepsSearch, RelateKeepsSearch
<1>3. ASSUME NEW r \in Runs, Build(r) \/ Curate(r) \/ LinkEntities(r) \/ Commit(r)
      PROVE  SearchInv'
  <2>1. CASE LinkEntities(r)
    BY <1>1, <2>1 DEF LinkEntities
  <2> QED BY <1>3, <2>1, PlanKeepsSearch, CommitKeepsSearch
<1>4. ASSUME NEW o \in Readers, CountStats(o) \/ ReadAudits(o) \/ ReadCommands(o) \/ Watch(o)
      PROVE  SearchInv'
  BY <1>1, <1>4 DEF CountStats, ReadAudits, ReadCommands, Watch
<1>5. CASE UNCHANGED vars
  BY <1>1, <1>5 DEF vars
<1> HIDE DEF Idle
<1> QED BY <1>2, <1>3, <1>4, <1>5 DEF Next

(* The memories of earlier processes are stored once, and nobody has asked. *)
LEMMA InitSearch == Init => SearchInv
<1> SUFFICES ASSUME Init PROVE SearchInv
  OBVIOUS
<1>1. \A i, j \in DOMAIN History : History[i].id = History[j].id => i = j
  BY BlackboardAssumption, Zenon
<1>2. tables["memory"] = History
  BY DEF Init, Tables
<1>3. \A r \in Runs : todo[r] = <<>>
  BY DEF Init, Clients
<1>4. \A c \in Clients : found[c] = <<>>
  BY DEF Init
<1> QED BY <1>1, <1>2, <1>3, <1>4 DEF SearchInv, AnswersAreTheBest

(* A query forgets nothing without a reason: for any memories, window and   *)
(* limit and whatever is stored meanwhile, a memory that scores and is not  *)
(* matched had newer ones fill the window or better ones the answer.       *)
THEOREM SearchesAreBest == Spec => []AnswersAreTheBest
<1>1. Spec => []SearchInv
  BY InitSearch, StepKeepsSearch, BlackboardInvariant, PTL DEF Spec
<1>2. SearchInv => AnswersAreTheBest
  BY DEF SearchInv
<1> QED BY <1>1, <1>2, PTL

===============================================================================
