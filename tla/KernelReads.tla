---------------------------- MODULE KernelReads ----------------------------
(***************************************************************************)
(* What RealityKernel answers: the trace and the impact of a dependency,   *)
(* the state of an entity at a point of both times, permissions, and the   *)
(* causal paths from and to an event.  Answers are sets; the order they    *)
(* are listed in is left out.                                              *)
(***************************************************************************)
EXTENDS Kernel, TLC

CONSTANTS
  Detail,  \* of each atom, what never changes: predicate, object, valid and
           \* transaction interval, claim type, evidence, permission, ...
  Instant  \* the times a belief may be revised at

\* Times and counts are natural numbers; rank is the order of the ids.
ASSUME DetailAssumption ==
  /\ \A a \in AtomId : /\ Detail[a].tx \in Nat /\ Detail[a].confidence \in Nat
                       /\ Detail[a].tokens \in Nat /\ Detail[a].rank \in Nat
  /\ \A a, b \in AtomId : Detail[a].rank = Detail[b].rank => a = b
  /\ Instant \subseteq Nat

(***************************************************************************)
(* The kernel under its callers: any mutating call at any point, an atom   *)
(* inserted again, a revision stamped earlier than one already there.      *)
(***************************************************************************)
KernelNext ==
  \/ \E c \in Claims : InsertAtom(c, Detail[c.id].tx)
  \/ \E c \in Conflicts : AddConflict(c)
  \/ \E a \in AtomId, next \in Revised, t \in Instant : ReviseBelief(a, next, t)
  \/ \E from, to \in AtomId : AddDependency(from, to)
  \/ \E cause, effect \in EventId : InsertCause(cause, effect)

KernelSpec == KernelInit /\ [][KernelNext]_kernelVars

-----------------------------------------------------------------------------

InInterval(t, from, until) == from <= t /\ t < until
VisibleAt(a, valid, known) ==
  /\ InInterval(valid, Detail[a].from, Detail[a].until)
  /\ InInterval(known, Detail[a].tx, Detail[a].tx_until)

\* A slip the properties must notice: the belief of now answers for then.
SupportedNow(a, belief) ==
  /\ atoms[a].belief \in {"Accepted", "Disputed"}
  /\ atoms[a].sources # {} /\ Detail[a].evidence /\ Detail[a].usable

\* Of an atom and the belief it is given: RealityAtom::is_supported_for_ai.
SupportedForAi(a, belief) ==
  /\ belief \in {"Accepted", "Disputed"}
  /\ atoms[a].sources # {} /\ Detail[a].evidence
  /\ Detail[a].usable
  /\ Detail[a].claim \notin {"Simulation", "Hypothesis"}
  /\ Detail[a].taint \notin {"PromptInjectionRisk", "Poisoned"}

\* A policy is the set of beliefs it shows.
CurrentBelief(valid, known, policy) ==
  LET seen == {a \in DOMAIN atoms : VisibleAt(a, valid, known)}
      Of(wanted) == {a \in seen : atoms[a].belief \in wanted}
  IN  [accepted |-> Of({"Accepted"}), disputed |-> Of({"Disputed"}),
       superseded |-> Of({"Superseded"}), rejected |-> Of({"Retracted", "Refuted"}),
       visible |-> Of(policy)]

EntityState(entity, valid, known) ==
  LET seen == {a \in DOMAIN atoms : atoms[a].subject = entity /\ VisibleAt(a, valid, known)}
      Of(wanted) == {a \in seen : BeliefAt(a, known) = wanted}
      shown == Of("Accepted") \cup Of("Disputed") \cup Of("Superseded")
  IN  [accepted |-> Of("Accepted"), disputed |-> Of("Disputed"), superseded |-> Of("Superseded"),
       conflicts |-> {c \in conflicts : c \cap shown # {}}]

-----------------------------------------------------------------------------
(***************************************************************************)
(* Dependencies: the steps walked from an atom, and what a retraction or a *)
(* false source takes down with it.                                        *)
(***************************************************************************)
\* The nodes the queue brings up: round by round, what an edge leads to.
Reached(root) ==
  LET met[n \in Nat] ==
        IF n = 0 THEN {root}
        ELSE LET before == met[n - 1]
             IN  before \cup {e[2] : e \in {d \in edges : d[1] \in before}}
  IN  met[Cardinality(edges)]

\* Each node brought up, taken once, shows the edges that start at it.
TraceFrom(root) ==
  LET nodes == Reached(root) IN {e \in edges : e[1] \in nodes}

ExplainSupport(a) ==
  LET support == atoms[a].deps
  IN  [supporting_atoms |-> support,
       source_ids |-> UNION {atoms[b].sources : b \in {a} \cup (support \cap DOMAIN atoms)},
       dependency_trace |-> TraceFrom(a)]

ExplainConflict(a) == {c \in conflicts : a \in c}

ImpactIfRetracted(a) == [atoms |-> TransitiveDependents(a), steps |-> TraceFrom(a)]

IsBelief(a) == Detail[a].claim = "Derived"
IsMemory(a) == Detail[a].claim = "AgentMemory"

CollapseIfSourceFalse(a) ==
  LET collapsed == TransitiveDependents(a)
      known == collapsed \cap DOMAIN atoms
      beliefs == {b \in known : IsBelief(b)}
      plans == {b \in known \ beliefs : atoms[b].plan}
  IN  [atoms |-> collapsed, beliefs |-> beliefs, plans |-> plans,
       memories |-> {b \in known \ (beliefs \cup plans) : IsMemory(b)},
       steps |-> TraceFrom(a)]

-----------------------------------------------------------------------------
(***************************************************************************)
(* Permissions: an empty scope allows everything, and a summary needs each *)
(* atom it rests on to be allowed as well.                                 *)
(***************************************************************************)
ScopeAllows(permission, scope) == scope = {} \/ permission \in scope

SummaryLeaks(a, scope) ==
  {d \in atoms[a].deps \cap DOMAIN atoms :
     atoms[a].summary /\ ~ScopeAllows(Detail[d].permission, scope)}

PermittedAtom(a, scope) ==
  ScopeAllows(Detail[a].permission, scope) /\ SummaryLeaks(a, scope) = {}

-----------------------------------------------------------------------------
(***************************************************************************)
(* Causal paths, as sequences of links, up to a depth and without leaving  *)
(* an event again that is still being walked.  A walk holds the events it  *)
(* set out from: going up, the effects of its links, going down, the       *)
(* causes; so it goes on as long as the event it has come to is not one.   *)
(***************************************************************************)
LinksInto(event) == {c \in causes : c[2] = event}
LinksFrom(event) == {c \in causes : c[1] = event}

\* A slip the properties must notice: the walk ends at the direct causes.
UpstreamDirect(event) ==
  [n \in Nat |-> IF n = 0 THEN {<<c>> : c \in LinksInto(event)} ELSE {}]

\* The paths of n + 1 links that end, and below that start, at the event.
WalkUpstream(event) ==
  LET paths[n \in Nat] ==
        IF n = 0 THEN {<<c>> : c \in LinksInto(event)}
        ELSE UNION {{<<c>> \o suffix : c \in LinksInto(suffix[1][1])} :
                      suffix \in {p \in paths[n - 1] : \A i \in DOMAIN p : p[1][1] # p[i][2]}}
  IN  paths

WalkDownstream(event) ==
  LET paths[n \in Nat] ==
        IF n = 0 THEN {<<c>> : c \in LinksFrom(event)}
        ELSE UNION {{Append(prefix, c) : c \in LinksFrom(prefix[n][2])} :
                      prefix \in {p \in paths[n - 1] : \A i \in DOMAIN p : p[n][2] # p[i][1]}}
  IN  paths

WhatCaused(event, depth) == UNION {WalkUpstream(event)[n] : n \in 0..depth - 1}
WhatMightHappenNext(event, depth) == UNION {WalkDownstream(event)[n] : n \in 0..depth - 1}

WhatBreaksWithout(event, depth) ==
  UNION {{path[i][2] : i \in DOMAIN path} : path \in WhatMightHappenNext(event, depth)}

-----------------------------------------------------------------------------
(***************************************************************************)
(* Causes and effects are two views of one set of paths: a path that never *)
(* meets an event twice, save that it may close on its start, is found     *)
(* from its end as a cause exactly when it is found from its start as an   *)
(* effect; and an event that fails takes down what links lead to within    *)
(* the depth, the cycles included (walk_upstream, walk_downstream).        *)
(***************************************************************************)
LedTo(event, depth) ==
  LET after[n \in Nat] ==
        IF n = 0 THEN {event}
        ELSE LET before == after[n - 1] IN {c[2] : c \in {d \in causes : d[1] \in before}}
  IN  UNION {after[n] : n \in 1..depth}

Simple(path) ==
  \A i, j \in DOMAIN path : i # j => path[i][1] # path[j][1] /\ path[i][2] # path[j][2]

CausesMirrorEffects ==
  \A depth \in 0..3, x, y \in EventId :
    /\ {p \in WhatCaused(y, depth) : Simple(p) /\ p[1][1] = x} =
         {p \in WhatMightHappenNext(x, depth) : Simple(p) /\ p[Len(p)][2] = y}
    /\ WhatBreaksWithout(x, depth) = LedTo(x, depth)

(***************************************************************************)
(* Each answer about a change tells the same story: the steps shown are    *)
(* those that lead to the atoms named, no more and no fewer; what a false  *)
(* source collapses is what its retraction impacts; and each belief, plan  *)
(* and memory among it that the kernel knows is named exactly once         *)
(* (trace_from, transitive_dependents, collapse_if_source_false).          *)
(***************************************************************************)
ImpactIsExplained ==
  \A a \in DOMAIN atoms :
    LET impact == ImpactIfRetracted(a)
        collapse == CollapseIfSourceFalse(a)
    IN  /\ impact.atoms = {e[2] : e \in impact.steps}
        /\ \A e \in impact.steps : e[1] = a \/ e[1] \in impact.atoms
        /\ collapse.atoms = impact.atoms
        /\ collapse.beliefs \cup collapse.plans \cup collapse.memories =
             {b \in impact.atoms \cap DOMAIN atoms : IsBelief(b) \/ atoms[b].plan \/ IsMemory(b)}
        /\ \A b \in atoms[a].deps \cap DOMAIN atoms :
             /\ atoms[b].sources \subseteq ExplainSupport(a).source_ids
             /\ a \in ImpactIfRetracted(b).atoms

(***************************************************************************)
(* Walks end and agree from either end: what caused an event and what it   *)
(* might lead to mirror each other, and everything an impact names rests   *)
(* on what is retracted (walk_upstream, walk_downstream, trace_from,       *)
(* transitive_dependents).                                                 *)
(***************************************************************************)
TracesAgree == CausesMirrorEffects /\ ImpactIsExplained
=============================================================================
