--------------------------- MODULE MaintainedViews ---------------------------
(***************************************************************************)
(* IncrementalComputation of crates/rg-kernel: kernel events applied one   *)
(* by one to the kernel and, in step, to its maintained views, each with   *)
(* the delta it returns.  An event that does not validate changes nothing. *)
(*                                                                         *)
(* The three lookups by subject, source and agent are one set of pairs.    *)
(* The event log itself is left out: it only grows, and nothing reads it.  *)
(***************************************************************************)
EXTENDS Kernel

CONSTANTS
  Links,        \* dependencies that may be added, as <<from, to>>
  Causes,       \* causal links, with evidence, that may be inserted
  Trust,        \* source trust scores
  FullTrust,    \* the score of a source nobody rated
  MaxEvents,    \* bound on the events of a behaviour
  MaxTime       \* bound on transaction times

VARIABLES
  views,        \* MaintainedViews
  sequence,     \* next_sequence: the number of the last event
  delta,        \* what the last event returned
  now           \* the latest transaction time of an event

vars == <<kernelVars, views, sequence, delta, now>>

ViewName ==
  {"Graph", "Contradictions", "Summaries", "SourceTrust", "AgentMemory",
   "Beliefs", "Dependencies", "Causality"}

ASSUME ViewAssumption ==
  /\ Links \subseteq AtomId \X AtomId
  /\ Causes \subseteq EventId \X EventId
  /\ FullTrust \in Trust
  /\ MaxEvents \in Nat
  /\ MaxTime \in Nat

NoDelta ==
  [kind |-> "None", views |-> {}, atoms |-> {}, stale |-> {}, risky |-> {},
   impacted |-> {}]

ViewsInit ==
  /\ KernelInit
  /\ views = [found |-> {}, beliefs |-> [a \in {} |-> a], disputes |-> {},
              trust |-> [s \in {} |-> s], summaries |-> [a \in {} |-> a],
              dependents |-> {}, versions |-> [v \in ViewName |-> 0]]
  /\ sequence = 0
  /\ delta = NoDelta
  /\ now = 0

-----------------------------------------------------------------------------
(***************************************************************************)
(* The views' own updates.                                                 *)
(***************************************************************************)
IndexAtom(v, atom) ==
  LET keys == {atom.subject} \cup atom.sources \cup ({atom.agent} \ {NoAgent})
      rated == DOMAIN v.trust
      indexed == [v EXCEPT
        !.found = @ \cup (keys \X {atom.id}),
        !.beliefs = Put(@, atom.id, atom.belief),
        !.trust = [s \in rated \cup atom.sources |->
                     IF s \in rated THEN @[s] ELSE FullTrust]]
  IN IF ~atom.summary THEN indexed
     ELSE [indexed EXCEPT
       !.dependents = @ \cup (atom.deps \X {atom.id}),
       !.summaries = Put(@, atom.id, [deps |-> atom.deps, stale |-> FALSE])]

StaleBy(v, roots) == {s \in AtomId : \E r \in roots : <<r, s>> \in v.dependents}

MarkSummariesStale(v, roots) ==
  [v EXCEPT !.summaries = [s \in DOMAIN @ |->
     IF s \in StaleBy(v, roots) THEN [@[s] EXCEPT !.stale = TRUE] ELSE @[s]]]

\* A slip the properties must notice: the belief view keeps what it had.
RefreshNoBeliefs(v, ids) == v

\* The current belief of some atoms, copied from the kernel after its update.
RefreshBeliefs(v, ids) ==
  LET known == ids \cap DOMAIN atoms'
  IN [v EXCEPT !.beliefs = [a \in DOMAIN @ \cup known |->
        IF a \in known THEN atoms'[a].belief ELSE @[a]]]

\* touch_view for each name, and the delta the event returns.
Publish(v, d) ==
  /\ sequence' = sequence + 1
  /\ views' = [v EXCEPT !.versions = [n \in ViewName |->
                 IF n \in d.views THEN sequence' ELSE @[n]]]
  /\ delta' = d

\* A slip the properties must notice: a change of summaries is not named.
SummariesNever(test) == {}

SummariesIf(test) == IF test THEN {"Summaries"} ELSE {}

\* Events are stamped with the time the system learns of them.
Stamp(time) ==
  /\ now <= time
  /\ now' = time

-----------------------------------------------------------------------------
(***************************************************************************)
(* apply_event, one action per kind of event.                              *)
(***************************************************************************)
AtomInserted(atom, time) ==
  LET indexed == IndexAtom(views, atom)
      replaced == RefreshBeliefs(indexed, atom.supersedes)
      stale == StaleBy(indexed, atom.supersedes)
  IN /\ Stamp(time)
     /\ InsertAtom(atom, time)
     /\ Publish(MarkSummariesStale(replaced, atom.supersedes),
          [NoDelta EXCEPT
             !.kind = "AtomInserted",
             !.atoms = {atom.id} \cup atom.supersedes,
             !.stale = stale,
             !.views = {"Graph", "Beliefs"}
                 \cup (IF atom.sources # {} THEN {"SourceTrust"} ELSE {})
                 \cup (IF atom.agent # NoAgent THEN {"AgentMemory"} ELSE {})
                 \cup SummariesIf(atom.summary \/ stale # {})])

\* A slip the properties must notice: what is derived further down is not marked.
AffectedDirect(a) == {a}

Affected(a) == {a} \cup TransitiveDependents(a)

BeliefRevised(a, next, time) ==
  LET impacted == TransitiveDependents(a)
      risky == {p \in impacted \cap DOMAIN atoms : atoms[p].plan}
      stale == StaleBy(views, Affected(a))
  IN /\ Stamp(time)
     /\ ReviseBelief(a, next, time)
     /\ Publish(MarkSummariesStale([views EXCEPT !.beliefs[a] = next], Affected(a)),
          [NoDelta EXCEPT
             !.kind = "BeliefRevised",
             !.atoms = {a},
             !.impacted = impacted,
             !.risky = risky,
             !.stale = stale,
             !.views = {"Beliefs"} \cup SummariesIf(stale # {} \/ risky # {})])

ConflictAdded(conflict) ==
  LET disputed == [views EXCEPT !.disputes = @ \cup {<<a, conflict>> : a \in conflict}]
      stale == StaleBy(views, conflict)
  IN /\ AddConflict(conflict)
     /\ Publish(MarkSummariesStale(RefreshBeliefs(disputed, conflict), conflict),
          [NoDelta EXCEPT
             !.kind = "ConflictAdded",
             !.atoms = conflict,
             !.stale = stale,
             !.views = {"Contradictions", "Beliefs"} \cup SummariesIf(stale # {})])
     /\ UNCHANGED now

DependencyAdded(from, to) ==
  /\ AddDependency(from, to)
  /\ Publish(views, [NoDelta EXCEPT !.kind = "DependencyAdded",
                                    !.atoms = {from, to},
                                    !.views = {"Dependencies"}])
  /\ UNCHANGED now

CausalAtomInserted(cause, effect) ==
  /\ InsertCause(cause, effect)
  /\ Publish(views, [NoDelta EXCEPT !.kind = "CausalAtomInserted",
                                    !.views = {"Causality"}])
  /\ UNCHANGED now

SourceTrustUpdated(source, score) ==
  /\ Publish([views EXCEPT !.trust = Put(@, source, score)],
             [NoDelta EXCEPT !.kind = "SourceTrustUpdated",
                             !.views = {"SourceTrust"}])
  /\ UNCHANGED <<kernelVars, now>>

ViewsNext ==
  /\ sequence < MaxEvents
  /\ \/ \E atom \in Claims, time \in 1..MaxTime : AtomInserted(atom, time)
     \/ \E a \in AtomId, next \in Revised, time \in 1..MaxTime :
          BeliefRevised(a, next, time)
     \/ \E conflict \in Conflicts : ConflictAdded(conflict)
     \/ \E link \in Links : DependencyAdded(link[1], link[2])
     \/ \E link \in Causes : CausalAtomInserted(link[1], link[2])
     \/ \E source \in SourceId, score \in Trust : SourceTrustUpdated(source, score)

ViewsSpec == ViewsInit /\ [][ViewsNext]_vars

-----------------------------------------------------------------------------
(***************************************************************************)
(* Properties.                                                             *)
(***************************************************************************)
IsViews(v) ==
  /\ v \in [found : SUBSET ((Entity \cup SourceId \cup Agent) \X AtomId),
            beliefs : {v.beliefs}, disputes : SUBSET (AtomId \X SUBSET AtomId),
            trust : {v.trust}, summaries : {v.summaries},
            dependents : SUBSET (AtomId \X AtomId), versions : [ViewName -> Nat]]
  /\ v.beliefs \in [DOMAIN v.beliefs -> BeliefState]
  /\ v.trust \in [DOMAIN v.trust -> Trust]
  /\ v.summaries \in [DOMAIN v.summaries -> [deps : SUBSET AtomId, stale : BOOLEAN]]

\* The kernel, the views and the last delta are well formed, and no view is
\* newer than the last event.
ViewsTypeOK ==
  /\ KernelTypeOK
  /\ IsViews(views)
  /\ \A n \in ViewName : views.versions[n] <= sequence
  /\ sequence \in Nat
  /\ now \in Nat
  /\ delta.atoms \cup delta.stale \cup delta.risky \subseteq AtomId

\* The step inserts an atom under an id, which may have been in use.
Replaced(a) == \E c \in Claims : c.id = a /\ \E t \in 1..MaxTime : InsertAtom(c, t)

\* What was believed of an atom before now is what will be answered for that
\* time ever after, whatever is inserted, superseded or revised later: belief_at
\* reads it back from the revisions.  A conflict is the exception, for it turns
\* "Accepted" into "Disputed" without a revision; so is an atom whose id is
\* inserted again.
PastBeliefKept ==
  [][\A a \in DOMAIN atoms, t \in 0..(now - 1) :
       \/ BeliefAt(a, t)' = BeliefAt(a, t)
       \/ BeliefAt(a, t) = "Accepted" /\ BeliefAt(a, t)' = "Disputed"
       \/ Replaced(a)]_vars

\* docs/core/core-invariants.md: "Supersession, dispute, retraction, and
\* refutation are recorded as revisions at transaction time."  The belief in an
\* atom changes only together with a revision of it.
BeliefChangesRecorded ==
  [][\A a \in DOMAIN atoms :
       \/ atoms'[a].belief = atoms[a].belief
       \/ revisions'[a] # revisions[a]
       \/ Replaced(a)]_vars

\* The smallest set that holds the successors of a node and their successors.
Downstream(rel, root) ==
  {b \in AtomId :
     \A S \in SUBSET AtomId :
       (\A e \in rel : e[1] \in {root} \cup S => e[2] \in S) => b \in S}

\* The pairs the atoms themselves name.
DerivedFrom == UNION {atoms[b].deps \X {b} : b \in DOMAIN atoms}

\* The impact of a retraction is exactly what the dependency graph leads to, and
\* covers every atom that rests on the retracted one by the atoms' own
\* dependencies, in whatever order they were inserted and whatever links,
\* conflicts and cycles were added.
ImpactIsComplete ==
  \A a \in AtomId :
    /\ TransitiveDependents(a) = Downstream(edges, a)
    /\ Downstream(DerivedFrom, a) \subseteq TransitiveDependents(a)

\* The views agree with the kernel although each event updates them by code of
\* its own: current beliefs and conflicts exactly, and every atom is found under
\* its subject, sources and agent and every summary under its dependencies.
ViewsMatchKernel ==
  /\ views.beliefs = [a \in DOMAIN atoms |-> atoms[a].belief]
  /\ views.disputes = {p \in AtomId \X conflicts : p[1] \in p[2]}
  /\ \A a \in DOMAIN atoms :
       /\ ({atoms[a].subject} \cup atoms[a].sources \cup ({atoms[a].agent} \ {NoAgent}))
            \X {a} \subseteq views.found
       /\ atoms[a].sources \subseteq DOMAIN views.trust
       /\ atoms[a].summary =>
            /\ a \in DOMAIN views.summaries
            /\ views.summaries[a].deps = atoms[a].deps
            /\ atoms[a].deps \X {a} \subseteq views.dependents

Fresh(v, s) == s \in DOMAIN v.summaries /\ ~v.summaries[s].stale

\* A summary that stays fresh over an event rests on nothing whose belief the
\* event changed; a revision also reaches the summaries of everything derived
\* from the revised atom; and a stale summary becomes fresh only when it is
\* inserted again.
SummariesGoStale ==
  [][\A s \in DOMAIN views.summaries :
       /\ Fresh(views, s) /\ Fresh(views', s) =>
            \A d \in views.summaries[s].deps \cap DOMAIN atoms :
              atoms'[d].belief = atoms[d].belief \/ Replaced(d) \/ Replaced(s)
       /\ delta'.kind = "BeliefRevised" /\ atoms[s].summary
            /\ (\E a \in delta'.atoms : s \in Downstream(DerivedFrom, a))
            => ~Fresh(views', s)
       /\ ~Fresh(views, s) /\ Fresh(views', s) => Replaced(s)]_vars

\* The delta of an event leaves nothing out: every view whose content changed,
\* every atom whose current belief changed, every summary that went stale and
\* every plan that rests on a revised atom is named in it, and exactly the named
\* views carry its number.  The dependency graph is the exception: inserting an
\* atom or a conflict changes it without naming it.
DeltaTellsAll ==
  [][/\ views'.found # views.found => "Graph" \in delta'.views
     /\ views'.disputes # views.disputes => "Contradictions" \in delta'.views
     /\ views'.summaries # views.summaries => "Summaries" \in delta'.views
     /\ views'.trust # views.trust => "SourceTrust" \in delta'.views
     /\ views'.beliefs # views.beliefs => "Beliefs" \in delta'.views
     /\ causes' # causes => "Causality" \in delta'.views
     /\ \A n \in ViewName :
          views'.versions[n] = IF n \in delta'.views THEN sequence'
                               ELSE views.versions[n]
     /\ \A a \in DOMAIN views'.beliefs \ delta'.atoms :
          a \in DOMAIN views.beliefs /\ views'.beliefs[a] = views.beliefs[a]
     /\ \A s \in DOMAIN views.summaries :
          Fresh(views, s) /\ ~Fresh(views', s) => s \in delta'.stale
     /\ delta'.kind = "BeliefRevised" =>
          \A a \in delta'.atoms :
            \A p \in Downstream(DerivedFrom, a) \cap DOMAIN atoms :
              atoms[p].plan => p \in delta'.risky]_vars
=============================================================================
