--------------------------- MODULE Counterfactual ---------------------------
(***************************************************************************)
(* What would follow: causal paths and impact traces over links that were  *)
(* inserted (rg-causal), and the counterfactual of an intervention in a    *)
(* snapshot of the graph (rg-sim), whose own causal walk is here too.      *)
(* Confidences are in percent.                                             *)
(***************************************************************************)
EXTENDS GraphQuery, Integers, FiniteSetsExt

CONSTANTS
  Link,          \* causal links that may be inserted: id, cause, effect, confidence
  CausalEvent,   \* causal events that may be inserted: id, entities, assertions
  Intervention,  \* kind, and the assertion, replacement, event or link it is about
  DeltaRule,     \* rules of a request: predicate, delta
  Depth,         \* depths that are asked for
  MaxSteps       \* bound of the exploration: events of the graph and links

VARIABLES
  outgoing, incoming,   \* links by the event that is their cause, their effect
  happened,             \* causal events by id
  inserted              \* links inserted so far

causalVars == <<outgoing, incoming, happened, inserted>>

At0(f, key) == IF key \in DOMAIN f THEN f[key] ELSE {}
Ran(path) == {path[n] : n \in DOMAIN path}

-----------------------------------------------------------------------------
(***************************************************************************)
(* The causal graph.  Of two links of one id at one event the first stays. *)
(***************************************************************************)
PushLink(links, link) == IF \E l \in links : l.id = link.id THEN links ELSE links \cup {link}

InsertLink(link) ==
  /\ inserted' = inserted \cup {link}
  /\ outgoing' = Put(outgoing, link.cause, PushLink(At0(outgoing, link.cause), link))
  /\ incoming' = Put(incoming, link.effect, PushLink(At0(incoming, link.effect), link))
  /\ UNCHANGED happened

InsertEvent(event) ==
  /\ happened' = Put(happened, event.id, event)
  /\ UNCHANGED <<outgoing, incoming, inserted>>

RECURSIVE WalkDownstream(_, _, _, _)
WalkDownstream(q, current, visited, path) ==
  IF Len(path) >= q.max_depth THEN {}
  ELSE UNION {LET here == Append(path, l)
                  reached == l.effect \in q.end
              IN  {p \in {here} : reached \/ q.end = None}
                    \cup (IF reached THEN {} ELSE WalkDownstream(q, l.effect, visited \cup {l.effect}, here)) :
                l \in {k \in At0(outgoing, current) :
                         k.effect \notin visited /\ \A minimum \in q.min_confidence : k.confidence >= minimum}}

DownstreamPaths(q) == WalkDownstream(q, q.start, {q.start}, <<>>)

RECURSIVE WalkUpstream(_, _, _, _)
WalkUpstream(current, depth, visited, path) ==
  IF Len(path) >= depth THEN {}
  ELSE UNION {LET here == <<l>> \o path IN {here} \cup WalkUpstream(l.cause, depth, visited \cup {l.cause}, here) :
                l \in {k \in At0(incoming, current) : k.cause \notin visited}}

UpstreamCauses(event, depth) == WalkUpstream(event, depth, {event}, <<>>)

\* Of a path: the product of its links', rounded to a percent.
PropagatedConfidence(path) ==
  LET scale == 100 ^ (Len(path) - 1)
  IN  (2 * FoldLeft(LAMBDA c, l : c * l.confidence, 1, path) + scale) \div (2 * scale)

(***************************************************************************)
(* Impact traces of rg-causal.                                             *)
(***************************************************************************)
EndOf(path) == path[Len(path)].effect
CollectCausalImpacts(events) ==
  [entities |-> UNION {happened[e].entities : e \in events \cap DOMAIN happened},
   assertions |-> UNION {happened[e].assertions : e \in events \cap DOMAIN happened}]

Trace(events, entities, assertions, downstream, upstream) ==
  [events |-> events, entities |-> entities, assertions |-> assertions, downstream |-> downstream, upstream |-> upstream]

RemoveEvent(event, depth) ==
  LET paths == DownstreamPaths([start |-> event, end |-> None, max_depth |-> depth, min_confidence |-> None])
      events == {event} \cup {EndOf(p) : p \in paths}
      impacts == CollectCausalImpacts(events)
  IN  Trace(events, impacts.entities, impacts.assertions,
            UNION {{l.effect : l \in Ran(p)} : p \in paths} \ {event}, {p[1].cause : p \in UpstreamCauses(event, depth)})

RemoveAssertionTrace(i) ==
  Trace({}, IF i \in DOMAIN graph /\ graph[i].status = "Active" THEN Keys("by_entity", graph[i]) ELSE {},
        {i} \cap DOMAIN graph, {}, {})

Simulate(intervention, depth) ==
  CASE intervention.kind = "RemoveEvent" -> RemoveEvent(intervention.event, depth)
    [] intervention.kind = "RemoveAssertion" -> RemoveAssertionTrace(intervention.assertion)
    [] intervention.kind = "AddEvent" -> Trace({intervention.event}, {}, {}, {}, {})
    [] OTHER -> Trace({}, {}, {}, {}, {})       \* a link that is disabled changes nothing

-----------------------------------------------------------------------------
(***************************************************************************)
(* The counterfactual of rg-sim: the active assertions after the           *)
(* intervention.  Of two with one id the one that was there stays.         *)
(***************************************************************************)
ActiveAt(a, t) == a.status = "Active" /\ HasInstant(a.valid, t)
ActiveAssertions(t) == {graph[i] : i \in {j \in DOMAIN graph : ActiveAt(graph[j], t)}}
AssertionEntities(a) == Keys("by_entity", a)

With(assertions, a, t) ==
  assertions \cup {b \in {a} : ActiveAt(b, t) /\ \A c \in assertions : c.id # b.id}
Known(i) == {graph[j] : j \in {i} \cap DOMAIN graph}
Delta(a, before, after) == [assertion |-> a, before |-> before, after |-> after]

Mutation(assertions, entities, changed, events, deltas) ==
  [assertions |-> assertions, entities |-> entities, changed |-> changed, events |-> events, deltas |-> deltas]

ApplyIntervention(i, t) ==
  LET active == ActiveAssertions(t)
      without == {a \in active : a.id # i.assertion}
      touched == UNION {AssertionEntities(a) : a \in Known(i.assertion)}
  IN  CASE i.kind = "AddAssertion" ->
             Mutation(With(active, i.replacement, t), AssertionEntities(i.replacement), {i.replacement.id}, {},
                      {Delta(i.replacement.id, None, {i.replacement.confidence})})
        [] i.kind = "RemoveAssertion" ->
             Mutation(without, touched, {i.assertion}, {},
                      {Delta(a.id, {a.confidence}, None) : a \in Known(i.assertion)})
        [] i.kind = "ModifyAssertion" ->
             Mutation(With(without, i.replacement, t), touched \cup AssertionEntities(i.replacement), {i.assertion}, {},
                      {Delta(a.id, {a.confidence}, {i.replacement.confidence}) : a \in Known(i.assertion)})
        [] OTHER -> Mutation(active, {}, {}, {i.event}, {})

Adjacency(assertions, e) ==
  {<<a.object.of, a.id>> : a \in {b \in assertions : IsEntity(b.object) /\ b.subject = e}}
    \cup {<<a.subject, a.id>> : a \in {b \in assertions : b.object = [kind |-> "Entity", of |-> e]}}

RECURSIVE PathsFrom(_, _, _, _)
PathsFrom(assertions, path, visited, depth) ==
  IF depth = 0 THEN {}
  ELSE UNION {LET here == [path EXCEPT !.end = edge[1], !.assertions = Append(@, edge[2])]
              IN  {here} \cup PathsFrom(assertions, here, visited \cup {edge[1]}, depth - 1) :
                edge \in {d \in Adjacency(assertions, path.end) : d[1] \notin visited /\ d[2] \notin Ran(path.assertions)}}

AffectedPaths(assertions, starts, depth) ==
  UNION {PathsFrom(assertions, [start |-> s, end |-> s, assertions |-> <<>>], {s}, depth) : s \in starts}

Clamp(c) == IF c < 0 THEN 0 ELSE IF c > 100 THEN 100 ELSE c

\* Each rule starts from the confidence there is, not from what another one left.
ConfidenceDeltas(mutation, impacted) ==
  mutation.deltas \cup
    UNION {{Delta(a.id, {a.confidence}, {Clamp(a.confidence + r.delta)}) : r \in {s \in DeltaRule : s.predicate = a.predicate}} :
             a \in {b \in mutation.assertions : b.id \in impacted \ mutation.changed}}

Evaluate(intervention, t, depth) ==
  LET mutation == ApplyIntervention(intervention, t)
      paths == AffectedPaths(mutation.assertions, mutation.entities, depth)
      impacted == UNION {Ran(p.assertions) : p \in paths}
  IN  [changed |-> mutation.changed, events |-> mutation.events, paths |-> paths, assertions |-> impacted,
       entities |-> mutation.entities \cup {p.end : p \in paths}, deltas |-> ConfidenceDeltas(mutation, impacted)]

\* Its causal walk looks at the depth within the loop, at links of its own copy of the graph.
RECURSIVE WalkPaths(_, _, _, _)
WalkPaths(q, current, visited, path) ==
  UNION {LET here == Append(path, l)
         IN  (IF q.end = None \/ l.effect \in q.end THEN {here} ELSE {})
               \cup (IF l.effect \in q.end THEN {} ELSE WalkPaths(q, l.effect, visited \cup {l.effect}, here)) :
           l \in {k \in At0(outgoing, current) :
                    /\ Len(path) < q.max_depth
                    /\ \A minimum \in q.min_confidence : k.confidence >= minimum
                    /\ k.effect \notin visited}}

CausalPaths(q) == IF q.max_depth = 0 THEN {} ELSE WalkPaths(q, q.start, {q.start}, <<>>)
PathConfidence(path) == Min({100} \cup {l.confidence : l \in Ran(path)})

-----------------------------------------------------------------------------
CounterfactualInit ==
  /\ QueryInit
  /\ outgoing = [e \in {} |-> {}] /\ incoming = [e \in {} |-> {}] /\ happened = [e \in {} |-> 0]
  /\ inserted = {}

CounterfactualNext ==
  \/ /\ tx + Cardinality(inserted) < MaxSteps
     /\ (\E a \in Assertion : AddAssertion(a)) \/ (\E i \in DOMAIN graph : Retract(i))
     /\ UNCHANGED causalVars
  \/ /\ \/ \E link \in Link : tx + Cardinality(inserted) < MaxSteps /\ link \notin inserted /\ InsertLink(link)
        \/ \E event \in CausalEvent : InsertEvent(event)
     /\ UNCHANGED queryVars

CausalEvents == UNION {{l.cause, l.effect} : l \in inserted}
IdsUnique == \A l, k \in inserted : l.id = k.id => l = k
Question(start, end, depth, minimum) == [start |-> start, end |-> end, max_depth |-> depth, min_confidence |-> minimum]

(***************************************************************************)
(* Cause and effect mirror each other as long as no link id stands for two *)
(* links: what is found downstream of an event is what finds it upstream.  *)
(* The two walks that search downstream agree, the confidence that is      *)
(* propagated is never above that of the weakest link, and removing an     *)
(* event never affects one that it is not upstream of (CausalGraph,        *)
(* CounterfactualEngine::remove_event).                                    *)
(***************************************************************************)
CausesMirrorEffects ==
  \A e \in CausalEvents, depth \in Depth :
    /\ \A end \in {None} \cup {{f} : f \in CausalEvents}, minimum \in {None, {60}} :
         LET paths == DownstreamPaths(Question(e, end, depth, minimum))
         IN  /\ paths = CausalPaths(Question(e, end, depth, minimum))
             /\ \A p \in paths : PropagatedConfidence(p) <= PathConfidence(p)
    /\ IdsUnique =>
         /\ \A f \in CausalEvents \ {e} :
              {p \in UpstreamCauses(f, depth) : p[1].cause = e} = {p \in DownstreamPaths(Question(e, None, depth, None)) : EndOf(p) = f}
         /\ \A f \in RemoveEvent(e, depth).events \ {e} : e \in RemoveEvent(f, depth).upstream

(***************************************************************************)
(* A counterfactual reaches exactly the entities that are that near to     *)
(* what was changed, whichever way the assertions point, in the world that *)
(* is left: what was removed carries no impact, and every confidence that  *)
(* changes is one of an assertion changed or reached (evaluate).           *)
(***************************************************************************)
RECURSIVE Near(_, _, _)
Near(assertions, S, depth) ==
  IF depth = 0 THEN S
  ELSE Near(assertions, S \cup UNION {{a.subject, a.object.of} : a \in
              {b \in assertions : IsEntity(b.object) /\ ({b.subject, b.object.of} \cap S # {})}}, depth - 1)

ImpactIsNear ==
  \A i \in Intervention, t \in Instant, depth \in Depth :
    LET mutation == ApplyIntervention(i, t)
        result == Evaluate(i, t, depth)
    IN  /\ result.entities = Near(mutation.assertions, mutation.entities, depth)
        /\ i.kind = "RemoveAssertion" => i.assertion \notin result.assertions
        /\ result.assertions \subseteq {a.id : a \in mutation.assertions}
        /\ \A d \in result.deltas : d.assertion \in result.changed \cup result.assertions
        /\ i.kind \notin {"AddAssertion", "ModifyAssertion"} => \A a \in mutation.assertions : a = graph[a.id]
=============================================================================
