----------------------------- MODULE Maintenance -----------------------------
(***************************************************************************)
(* Maintenance jobs (rg-maintenance) over the events of a storage.  A job  *)
(* proposes actions; an incremental run looks at what is newer than the    *)
(* cursor, which the run before it returned.  An engine runs its jobs as   *)
(* of one transaction time, here the last event's.                         *)
(***************************************************************************)
EXTENDS GraphQuery

CONSTANTS
  Named,        \* entities that may be created: id, type, name and its normal form
  Cited,        \* sources that may be added: id and trust
  StaleLag, LowTrust,
  AutoApply,    \* whether the policy asks for destructive actions to be applied
  MaxRuns       \* bound of the exploration

VARIABLES
  entities, trusted,        \* of the storage, with the time they came
  cursors,                  \* of each job, after its last run
  report, health_history,
  proposed                  \* targets of the actions of all runs so far

maintenanceVars == <<graph, tx, index, entities, trusted, cursors, report, health_history, proposed>>
jobVars == <<cursors, report, health_history, proposed>>

Job == {"DetectDuplicateEntities", "SuggestEntityMerges", "DetectStaleAssertions", "DetectContradictions",
        "RefreshSummaries", "RecomputeCommunities", "RecalibrateSourceTrust", "CompactEventLog", "RebuildIndexes"}

ChangedSince(t, cursor) == \A after \in cursor : t > after

-----------------------------------------------------------------------------
(***************************************************************************)
(* What the jobs look for.                                                 *)
(***************************************************************************)
DuplicateEntityPairs(cursor) ==
  {<<l.id, r.id>> : <<l, r>> \in {p \in Range(entities) \X Range(entities) :
     /\ p[1].id < p[2].id /\ p[1].type = p[2].type
     /\ p[1].name # None /\ p[1].name = p[2].name
     /\ ChangedSince(p[1].tx, cursor) /\ ChangedSince(p[2].tx, cursor)}}

ChangedAssertions(cursor) == {a \in Graph : ChangedSince(a.known.start, cursor)}

StaleAssertions(cursor) ==
  {a \in ChangedAssertions(cursor) : a.status = "Active" /\ tx - a.known.start >= StaleLag}

\* A slip the properties must notice: both sides of a contradiction must be new.
NewContradictions(cursor) ==
  LET changed == {a.id : a \in ChangedAssertions(cursor)}
  IN  {c \in ContradictionsOf(Graph) : {c.a, c.b} \subseteq changed}

ContradictionsSince(cursor) ==
  LET changed == {a.id : a \in ChangedAssertions(cursor)}
  IN  {c \in ContradictionsOf(Graph) : cursor = None \/ {c.a, c.b} \cap changed # {}}

BrokenRelationships ==
  {<<a.id, a.object.of>> : a \in {b \in Graph : IsEntity(b.object) /\ b.object.of \notin DOMAIN entities}}

LowTrustSources == {s \in Range(trusted) : \E t \in s.trust : t < LowTrust}

-----------------------------------------------------------------------------
(***************************************************************************)
(* Reports.  Nothing destructive is ever applied: what would be is made    *)
(* review only.                                                            *)
(***************************************************************************)
Action(kind, target, review, destructive, auto) ==
  [kind |-> kind, target |-> target, requires_review |-> review,
   destructive_if_applied |-> destructive, auto_applied |-> auto]
Proposal(kind, target) == Action(kind, target, TRUE, FALSE, FALSE)

SuppressForbiddenAutoApply(a) ==
  IF a.destructive_if_applied /\ a.auto_applied
  THEN [a EXCEPT !.auto_applied = FALSE, !.requires_review = TRUE] ELSE a

Merges(cursor) == {Action("SuggestEntityMerge", p, TRUE, TRUE, AutoApply) : p \in DuplicateEntityPairs(cursor)}

Housekeeping(job, cursor) ==
  CASE job = "RecalibrateSourceTrust" ->
         {Proposal("RecalibrateSourceTrust", <<s.id>>) : s \in {u \in LowTrustSources : ChangedSince(u.tx, cursor)}}
    [] job = "CompactEventLog" -> {Action("CompactEventLog", <<>>, TRUE, TRUE, AutoApply)}
    [] job = "RebuildIndexes" ->
         {Proposal("ReportBrokenRelationship", b) : b \in BrokenRelationships}
           \cup {Action("RebuildIndexes", <<>>, FALSE, FALSE, FALSE)}

ActionsOf(job, cursor) ==
  CASE job \in {"DetectDuplicateEntities", "SuggestEntityMerges"} -> Merges(cursor)
    [] job = "DetectStaleAssertions" -> {Proposal("MarkAssertionStale", <<a.id>>) : a \in StaleAssertions(cursor)}
    [] job = "DetectContradictions" ->
         {Proposal("ClusterContradictions", <<c.a, c.b>>) : c \in ContradictionsSince(cursor)}
    [] job = "RefreshSummaries" -> {Proposal("RefreshSummary", <<a.subject>>) : a \in ChangedAssertions(cursor)}
    [] job = "RecomputeCommunities" ->
         {Proposal("RecomputeCommunity", <<e>>) : e \in UNION {Keys("by_entity", a) : a \in ChangedAssertions(cursor)}}
    [] OTHER -> Housekeeping(job, cursor)

\* Of what an incremental run looks at, but for relationships and sources.
GraphHealth(cursor, actions) ==
  LET found == Cardinality(DuplicateEntityPairs(cursor)) + Cardinality(StaleAssertions(cursor))
               + Cardinality(ContradictionsSince(cursor)) + Cardinality(BrokenRelationships)
               + Cardinality(LowTrustSources)
      penalty == found + Cardinality({a \in actions : a.requires_review})
  IN  [recorded_at |-> tx, found |-> found, score |-> IF penalty < 20 THEN 20 - penalty ELSE 0]

RunJob(job, cursor) ==
  /\ Len(health_history) < MaxRuns
  /\ LET actions == {SuppressForbiddenAutoApply(a) : a \in ActionsOf(job, cursor)}
         health == GraphHealth(cursor, actions)
     IN  /\ report' = {[job |-> job, cursor |-> cursor, actions |-> actions, health |-> health]}
         /\ health_history' = Append(health_history, health)   \* a merge suggestion replaces what it appended
         /\ proposed' = proposed \cup {[job |-> job, target |-> a.target] : a \in actions}
         /\ cursors' = [cursors EXCEPT ![job] = {tx}]
  /\ UNCHANGED <<graph, tx, index, entities, trusted>>

-----------------------------------------------------------------------------
CreateEntity(e) ==
  /\ e.id \notin DOMAIN entities
  /\ Event(graph)
  /\ entities' = Put(entities, e.id, [id |-> e.id, type |-> e.type, name |-> e.name, tx |-> tx + 1])
  /\ UNCHANGED trusted

AddSource(s) ==
  /\ s.id \notin DOMAIN trusted
  /\ Event(graph)
  /\ trusted' = Put(trusted, s.id, [id |-> s.id, trust |-> s.trust, tx |-> tx + 1])
  /\ UNCHANGED entities

MaintenanceInit ==
  /\ QueryInit
  /\ entities = [i \in {} |-> 0] /\ trusted = [i \in {} |-> 0]
  /\ cursors = [j \in Job |-> None] /\ report = {} /\ health_history = <<>> /\ proposed = {}

MaintenanceNext ==
  \/ /\ \/ \E a \in Assertion : AddAssertion(a)
        \/ \E i \in DOMAIN graph : Retract(i) \/ UpdateConfidence(i)
     /\ UNCHANGED <<entities, trusted>> /\ UNCHANGED jobVars
  \/ /\ (\E e \in Named : CreateEntity(e)) \/ (\E s \in Cited : AddSource(s))
     /\ UNCHANGED jobVars
  \/ \E job \in Job : \E cursor \in {None, cursors[job]} : RunJob(job, cursor)

-----------------------------------------------------------------------------
Targets(job) == {p.target : p \in {q \in proposed : q.job = job}}

(***************************************************************************)
(* Maintenance only proposes: no action that destroys is applied, whatever *)
(* the policy asks for, and whatever changes the graph awaits a review     *)
(* (suppress_forbidden_auto_apply).                                        *)
(***************************************************************************)
DestructionIsReviewed ==
  \A r \in report : \A a \in r.actions :
    /\ ~a.auto_applied
    /\ a.destructive_if_applied \/ a.kind # "RebuildIndexes" => a.requires_review

(***************************************************************************)
(* Incremental runs, each from the cursor of the one before, miss no       *)
(* contradiction of two active assertions and no community, though they    *)
(* look at changes only; an incremental run never reports worse health     *)
(* than a full one would (detect_contradictions, recompute_communities).   *)
(***************************************************************************)
IncrementalRunsCover ==
  \A r \in report :
    /\ r.job = "DetectContradictions" /\ cursors[r.job] = {tx} =>
         {<<c.a, c.b>> : c \in Conflicting(graph)} \subseteq Targets(r.job)
    /\ r.job \in {"RecomputeCommunities", "RefreshSummaries"} /\ cursors[r.job] = {tx} =>
         {<<a.subject>> : a \in Graph} \subseteq Targets(r.job)
    /\ r.health.recorded_at = tx =>
         r.health.found <= GraphHealth(None, {}).found

\* A run takes note of itself: one snapshot of the health for each job that ran.
EachRunIsRecorded ==
  [][report' # report => Len(health_history') = Len(health_history) + 1
                         /\ \E r \in report' : r.health = Last(health_history')]_maintenanceVars
=============================================================================
