---------------------------- MODULE SelfRevision ----------------------------
(***************************************************************************)
(* SelfRevisionEngine: jobs that look over the kernel, all of it or what   *)
(* entered after a cursor, and suggest what to review.  A suggestion is    *)
(* its kind and its target; evidence and trace are shown with it.  The     *)
(* conflicts of this model are unresolved ones.                            *)
(***************************************************************************)
EXTENDS KernelReads

CONSTANTS
  KnownPredicates,  \* of the policy
  LowConfidence,    \* of the policy, a percent
  StaleLag,         \* of the policy
  SoundLinks        \* causal links with a mechanism, notes and confidence

\* A cursor is an option: the transaction time seen before.
ChangedSince(a, cursor) == \A t \in cursor : Detail[a].tx > t
Changed(cursor) == {a \in DOMAIN atoms : ChangedSince(a, cursor)}
Conflicted == UNION conflicts

Suggest(kind, targets) == {[kind |-> kind, target |-> t] : t \in targets}

EntityDeduplication(cursor) ==
  LET names == {a \in Changed(cursor) : Detail[a].predicate = "ENTITY_NAME"}
      alike == {p \in names \X names : Detail[p[1]].object = Detail[p[2]].object
                                         /\ Detail[p[1]].tenant = Detail[p[2]].tenant}
      pairs == {{atoms[p[1]].subject, atoms[p[2]].subject} : p \in alike}
  IN  Suggest("SuggestEntityDeduplication", {e \in pairs : Cardinality(e) = 2})

SourceTrustRecalibration(cursor) ==
  Suggest("RecalibrateSourceTrust",
          UNION {atoms[a].sources : a \in
                   {b \in Changed(cursor) : \/ b \in Conflicted
                                            \/ Detail[b].confidence <= LowConfidence
                                            \/ Detail[b].taint # "Trusted"}})

OntologyDriftDetection(cursor) ==
  IF KnownPredicates = {} THEN {}
  ELSE Suggest("FlagOntologyDrift", {Detail[a].predicate : a \in Changed(cursor)} \ KnownPredicates)

ContradictionClustering(cursor) ==
  Suggest("ClusterContradictions", {c \in conflicts : c \cap Changed(cursor) # {}})

\* A slip the properties must notice: only summaries that changed themselves.
SummariesChanged(cursor) ==
  Suggest("InvalidateSummary", {a \in Changed(cursor) : atoms[a].summary})

SummaryInvalidation(cursor) ==
  Suggest("InvalidateSummary",
          {a \in DOMAIN atoms :
             /\ atoms[a].summary
             /\ \/ ChangedSince(a, cursor)
                \/ \E d \in atoms[a].deps : \/ d \in Conflicted
                                            \/ revisions[d] # <<>>
                                            \/ d \in DOMAIN atoms /\ atoms[d].belief # "Accepted"})

MemoryConsolidation(cursor) ==
  LET memories == {a \in Changed(cursor) : IsMemory(a) /\ atoms[a].agent # NoAgent}
      Alike(a) == {b \in memories : /\ atoms[b].agent = atoms[a].agent
                                    /\ Detail[b].object = Detail[a].object}
  IN  Suggest("ConsolidateMemory", {s \in {Alike(a) : a \in memories} : Cardinality(s) > 1})

StaleBeliefDetection(cursor, run_at) ==
  Suggest("MarkStaleBelief",
          {a \in Changed(cursor) : /\ atoms[a].belief \in {"Candidate", "Disputed", "Unknown"}
                                   /\ run_at - Detail[a].tx >= StaleLag})

DependencyInvalidation(cursor) ==
  Suggest("InvalidateDependencies",
          {a \in Changed(cursor) : TransitiveDependents(a) # {} /\ atoms[a].belief # "Accepted"})

CausalHypothesisRefinement == Suggest("RefineCausalHypothesis", causes \ SoundLinks)

RunAll(cursor, run_at) ==
  [suggestions |->
     UNION {EntityDeduplication(cursor), SourceTrustRecalibration(cursor),
            OntologyDriftDetection(cursor), ContradictionClustering(cursor),
            SummaryInvalidation(cursor), MemoryConsolidation(cursor),
            StaleBeliefDetection(cursor, run_at), DependencyInvalidation(cursor),
            CausalHypothesisRefinement},
   next_cursor |-> {run_at}]

(***************************************************************************)
(* A full run sees whatever an incremental one sees, a set of memories at  *)
(* least as a part; it suggests every summary of an atom that is disputed, *)
(* revised or no longer accepted, and every atom no longer accepted that   *)
(* something, a summary say, rests on; and an incremental run misses no    *)
(* such summary, whatever its cursor (report, summary_invalidation).       *)
(***************************************************************************)
FullRunSeesAll ==
  LET full == RunAll({}, 3).suggestions
  IN  \A t \in 0..2 :
        LET later == RunAll({t}, 3).suggestions
        IN  /\ \A s \in later : \/ s \in full
                                \/ /\ s.kind = "ConsolidateMemory"
                                   /\ \E f \in full : f.kind = s.kind /\ s.target \subseteq f.target
            /\ \A a \in DOMAIN atoms : \A d \in atoms[a].deps \cap DOMAIN atoms :
                 atoms[a].summary /\ (atoms[d].belief # "Accepted" \/ ExplainConflict(d) # {}) =>
                   /\ [kind |-> "InvalidateSummary", target |-> a] \in later
                   /\ atoms[d].belief = "Accepted"
                        \/ [kind |-> "InvalidateDependencies", target |-> d] \in full
=============================================================================
