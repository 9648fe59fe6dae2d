----------------------------- MODULE GraphQuery -----------------------------
(***************************************************************************)
(* Queries of the graph (rg-index, rg-query).  An engine is built from the *)
(* assertions of the storage, which go into its index one by one; what it  *)
(* answers is an operator on the finished index and the storage.           *)
(***************************************************************************)
EXTENDS Naturals, Sequences, FiniteSets, SequencesExt

CONSTANTS
  Assertion,          \* that may be asserted
  Exclusive,          \* pairs of predicates the ontology declares exclusive
  Instant,            \* valid times that are asked about
  MaxTx               \* bound of the exploration

VARIABLES
  graph,   \* the storage's assertions by id
  tx,      \* transaction time of the last event
  index    \* entries <<key, id>> of each index, and the assertions in it

queryVars == <<graph, tx, index>>

None == {}
HasInstant(interval, t) == t >= interval.start /\ \A end \in interval.end : t < end
Overlaps(i, j) == (\A end \in j.end : i.start < end) /\ (\A end \in i.end : j.start < end)
IsEntity(object) == object.kind = "Entity"
IsScalar(object) == object.kind \notin {"Entity", "Null"}

-----------------------------------------------------------------------------
(***************************************************************************)
(* The index.  A confidence, in percent, falls into one of eleven buckets. *)
(***************************************************************************)
ConfidenceBucket(c) == IF c \div 10 < 10 THEN c \div 10 ELSE 10

IndexName == {"by_subject", "by_predicate", "by_object", "by_entity", "by_context",
              "by_confidence", "by_valid_start", "by_tx_start"}

\* A slip the properties must notice: what an assertion is about is its subject alone.
KeysOfSubject(name, a) ==
  CASE name \in {"by_subject", "by_entity"} -> {a.subject}
    [] name = "by_predicate" -> {a.predicate}
    [] name = "by_object" -> {a.object}
    [] name = "by_context" -> {a.context}
    [] name = "by_confidence" -> {ConfidenceBucket(a.confidence)}
    [] name = "by_valid_start" -> {a.valid.start}
    [] name = "by_tx_start" -> {a.known.start}

Keys(name, a) ==
  CASE name = "by_subject" -> {a.subject}
    [] name = "by_predicate" -> {a.predicate}
    [] name = "by_object" -> {a.object}
    [] name = "by_entity" -> {a.subject} \cup {e \in {a.object.of} : IsEntity(a.object)}
    [] name = "by_context" -> {a.context}
    [] name = "by_confidence" -> {ConfidenceBucket(a.confidence)}
    [] name = "by_valid_start" -> {a.valid.start}
    [] name = "by_tx_start" -> {a.known.start}

NoIndex == [entries |-> [n \in IndexName |-> {}], assertions |-> [i \in {} |-> 0]]

Put(f, key, value) == [k \in DOMAIN f \cup {key} |-> IF k = key THEN value ELSE f[k]]

Lookup(name, key) == {index.assertions[e[2]] : e \in {f \in index.entries[name] : f[1] = key}}
UpTo(name, t) == {index.assertions[e[2]] : e \in {f \in index.entries[name] : f[1] <= t}}

ValidAt(t) == {a \in UpTo("by_valid_start", t) : a.status = "Active" /\ HasInstant(a.valid, t)}
KnownAt(t) == {a \in UpTo("by_tx_start", t) : a.status = "Active" /\ HasInstant(a.known, t)}
AdjacentAt(e, t) == {a \in Lookup("by_entity", e) : a.status = "Active" /\ HasInstant(a.valid, t)}

(***************************************************************************)
(* Contradictions: every pair, the lesser id first, falls under one rule   *)
(* at most, the first that applies.                                        *)
(***************************************************************************)
Replaced(l, r) ==
  /\ l.predicate = r.predicate /\ l.object = r.object
  /\ \/ l.status = "Active" /\ r.status # "Active" /\ l.confidence > r.confidence
     \/ r.status = "Active" /\ l.status # "Active" /\ r.confidence > l.confidence

Rule(l, r) ==
  IF Replaced(l, r) THEN "LowerConfidenceReplacement"
  ELSE IF l.status # "Active" \/ r.status # "Active" THEN "none"
  ELSE IF {l.predicate, r.predicate} \in Exclusive THEN "MutuallyExclusivePredicates"
  ELSE IF l.predicate # r.predicate \/ l.object = r.object THEN "none"
  ELSE IF IsScalar(l.object) /\ IsScalar(r.object) THEN "IncompatibleScalarValues"
  ELSE "ExactPredicateConflict"

\* A slip the properties must notice: contexts are not compared.
ClassifyEverywhere(l, r) ==
  IF l.subject = r.subject /\ Overlaps(l.valid, r.valid) THEN Rule(l, r) ELSE "none"

ClassifyContradiction(l, r) ==
  IF l.subject = r.subject /\ l.context = r.context /\ Overlaps(l.valid, r.valid)
  THEN Rule(l, r) ELSE "none"

ContradictionsOf(as) ==
  {c \in [a : {x.id : x \in as}, b : {x.id : x \in as}, type : {"LowerConfidenceReplacement",
          "MutuallyExclusivePredicates", "IncompatibleScalarValues", "ExactPredicateConflict"}] :
     \E l, r \in as : l.id = c.a /\ r.id = c.b /\ l.id < r.id /\ ClassifyContradiction(l, r) = c.type}

Contradictions == ContradictionsOf({index.assertions[i] : i \in DOMAIN index.assertions})

-----------------------------------------------------------------------------
(***************************************************************************)
(* Graph and path queries, over the storage and its own indexes.  A field  *)
(* of a query that is not asked for is None.                               *)
(***************************************************************************)
Asked(option, value) == option = None \/ option = {value}
At(option, interval) == \A t \in option : HasInstant(interval, t)

GraphCandidates(q) ==
  LET by(field, value) == {i \in DOMAIN graph : graph[i][field] = value}
  IN  CASE q.subject # None -> UNION {by("subject", s) : s \in q.subject}
        [] q.subject = None /\ q.predicate # None -> UNION {by("predicate", p) : p \in q.predicate}
        [] q.subject = None /\ q.predicate = None /\ q.object # None ->
             UNION {by("object", o) : o \in q.object}
        [] OTHER -> DOMAIN graph

MatchesGraphQuery(a, q) ==
  /\ Asked(q.subject, a.subject) /\ Asked(q.predicate, a.predicate) /\ Asked(q.object, a.object)
  /\ At(q.valid_at, a.valid) /\ At(q.known_at, a.known)
  /\ Asked(q.context, a.context) /\ \A m \in q.min_confidence : a.confidence >= m

ExecuteGraph(q) ==   \* in the order of ids, the first ones up to the limit
  LET found == SetToSortSeq({i \in GraphCandidates(q) : MatchesGraphQuery(graph[i], q)}, <)
  IN  IF q.limit = None THEN found
      ELSE SubSeq(found, 1, CHOOSE n \in {Len(found)} \cup q.limit :
                              \A m \in {Len(found)} \cup q.limit : n <= m)

MatchesPathEdge(a, q, depth) ==
  /\ depth + 1 \in DOMAIN q.predicates => a.predicate = q.predicates[depth + 1]
  /\ At(q.valid_at, a.valid) /\ \A m \in q.min_confidence : a.confidence >= m

Edges(current, visited) ==
  {i \in DOMAIN graph : graph[i].subject = current /\ IsEntity(graph[i].object)
                        /\ graph[i].object.of \notin visited}

RECURSIVE SearchPaths(_, _, _, _)
SearchPaths(q, current, visited, hops) ==
  IF Len(hops) = q.max_depth \/ (q.predicates # <<>> /\ Len(hops) >= Len(q.predicates)) THEN {}
  ELSE UNION {LET next == graph[i].object.of
              IN  {p \in {Append(hops, i)} : Asked(q.end, next)}
                    \cup SearchPaths(q, next, visited \cup {next}, Append(hops, i)) :
                i \in {j \in Edges(current, visited) : MatchesPathEdge(graph[j], q, Len(hops))}}

ExecutePath(q) == SearchPaths(q, q.start, {q.start}, <<>>)   \* nothing at depth 0

-----------------------------------------------------------------------------
(***************************************************************************)
(* Events of the storage, after which an engine is built anew.             *)
(***************************************************************************)
Event(g) == tx < MaxTx /\ tx' = tx + 1 /\ graph' = g /\ index' = NoIndex

AddAssertion(a) ==
  /\ a.id \notin DOMAIN graph
  /\ Event(Put(graph, a.id,
       [id |-> a.id, subject |-> a.subject, predicate |-> a.predicate, object |-> a.object,
        valid |-> a.valid, context |-> a.context, confidence |-> a.confidence,
        status |-> "Active", known |-> [start |-> tx + 1, end |-> None]]))

Retract(i) ==
  /\ graph[i].status = "Active"
  /\ Event([graph EXCEPT ![i].status = "Retracted", ![i].known.end = {tx + 1}])

UpdateConfidence(i) ==
  graph[i].confidence < 90 /\ Event([graph EXCEPT ![i].confidence = 90])

InsertAssertion(i) ==
  /\ i \notin DOMAIN index.assertions
  /\ index' = [entries |-> [n \in IndexName |->
                 index.entries[n] \cup {<<k, i>> : k \in Keys(n, graph[i])}],
               assertions |-> Put(index.assertions, i, graph[i])]
  /\ UNCHANGED <<graph, tx>>

QueryInit == graph = [i \in {} |-> 0] /\ tx = 0 /\ index = NoIndex

QueryNext ==
  \/ \E a \in Assertion : AddAssertion(a)
  \/ \E i \in DOMAIN graph : Retract(i) \/ UpdateConfidence(i) \/ InsertAssertion(i)

-----------------------------------------------------------------------------
Graph == {graph[i] : i \in DOMAIN graph}
Built == DOMAIN index.assertions = DOMAIN graph
Entities == UNION {Keys("by_entity", a) : a \in Graph}

(***************************************************************************)
(* A finished index leaves nothing out: what it has about an entity, a     *)
(* value, a time or a bucket is what the storage has (TemporalIndex).      *)
(***************************************************************************)
IndexLeavesNothingOut ==
  Built =>
    /\ \A e \in Entities, t \in Instant :
         AdjacentAt(e, t) = {a \in ValidAt(t) : a.subject = e \/ a.object = [kind |-> "Entity", of |-> e]}
    /\ \A t \in Instant :
         /\ ValidAt(t) = {a \in Graph : a.status = "Active" /\ HasInstant(a.valid, t)}
         /\ KnownAt(t) = {a \in Graph : a.status = "Active" /\ a.known.start <= t}
    /\ \A a \in Graph : \A n \in IndexName : \A k \in Keys(n, a) : a \in Lookup(n, k)

(***************************************************************************)
(* Two assertions contradict each other whichever is inserted first, and   *)
(* while both are active exactly when they say of one subject in one       *)
(* context, at some instant both hold, what cannot both be so; an interval *)
(* that is empty overlaps as if it were not (classify_contradiction).      *)
(***************************************************************************)
ContradictionsAreMutual ==
  Built =>
    /\ \A l, r \in Graph : ClassifyContradiction(l, r) = ClassifyContradiction(r, l)
    /\ \A l, r \in {a \in Graph : a.status = "Active" /\ a.valid.end # {a.valid.start}} : l.id < r.id =>
         ((\E c \in Contradictions : c.a = l.id /\ c.b = r.id)
            <=> /\ l.subject = r.subject /\ l.context = r.context
                /\ \E t \in Instant : HasInstant(l.valid, t) /\ HasInstant(r.valid, t)
                /\ \/ l.predicate = r.predicate /\ l.object # r.object
                   \/ {l.predicate, r.predicate} \in Exclusive)

(***************************************************************************)
(* A path search finds every way of at most so many hops that visits no    *)
(* entity twice, and no other (search_paths).                              *)
(***************************************************************************)
IsWay(p, start) ==
  /\ \A n \in DOMAIN p : IsEntity(graph[p[n]].object)
  /\ \A n \in DOMAIN p : graph[p[n]].subject = IF n = 1 THEN start ELSE graph[p[n - 1]].object.of
  /\ \A m, n \in DOMAIN p : m # n => graph[p[m]].object.of # graph[p[n]].object.of
  /\ \A n \in DOMAIN p : graph[p[n]].object.of # start

PathsAreWays ==
  index = NoIndex => \A s \in Entities, depth \in 0..3, at \in {None, {1}} :
    ExecutePath([start |-> s, end |-> None, predicates |-> <<>>, valid_at |-> at,
                 max_depth |-> depth, min_confidence |-> None])
      = {p \in UNION {[1..n -> DOMAIN graph] : n \in 1..depth} :
           IsWay(p, s) /\ \A n \in DOMAIN p : At(at, graph[p[n]].valid)}

(***************************************************************************)
(* What a query answers for an earlier transaction time does not change,   *)
(* but with the confidence of an assertion, which keeps no history         *)
(* (matches_graph_query); and a retraction makes no two active assertions  *)
(* contradict each other (classify_contradiction).                         *)
(***************************************************************************)
KnownQuery(s, t) ==
  [subject |-> s, predicate |-> None, object |-> None, valid_at |-> None, known_at |-> {t},
   context |-> None, min_confidence |-> None, limit |-> None]

Conflicting(g) == {c \in ContradictionsOf({g[i] : i \in DOMAIN g}) : c.type # "LowerConfidenceReplacement"}

PastAnswersStay ==
  /\ \A t \in 0..tx, s \in {None} \cup {{e} : e \in Entities} :
       ExecuteGraph(KnownQuery(s, t))' = ExecuteGraph(KnownQuery(s, t))
  /\ DOMAIN graph' = DOMAIN graph => Conflicting(graph') \subseteq Conflicting(graph)
=============================================================================
