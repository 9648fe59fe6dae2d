-------------------------- MODULE TruthMaintenance --------------------------
(***************************************************************************)
(* The truth maintenance system: sources, assertions, assumptions, derived *)
(* assertions and answers as nodes of a dependency graph, and retractions  *)
(* that invalidate what rests on a node, directly or not.                  *)
(*                                                                         *)
(* A node that can be invalidated is recorded with a status: Retracted of  *)
(* an assumption, Invalidated of a derived assertion and the presence of   *)
(* invalidated_by on an answer are one value here.                         *)
(***************************************************************************)
EXTENDS Naturals, FiniteSets

CONSTANTS
  Evidence,   \* sources and assertions: nodes without a status
  Assumption,
  Derived,
  Answer,
  Record,     \* what callers record: a node and what it rests on
  MaxRecords  \* bound of the exploration: calls that record

VARIABLES
  dependencies,          \* edges from a node to what rests on it
  reverse_dependencies,  \* the same edges, kept the other way round
  status,                \* of each recorded node
  invalidated_by,        \* the root that last invalidated an answer
  records                \* calls so far

truthVars == <<dependencies, reverse_dependencies, status, invalidated_by, records>>

Node == Evidence \cup Assumption \cup Derived \cup Answer

(***************************************************************************)
(* transitive_from: breadth first from the direct dependents, so that the  *)
(* root itself is in only when it lies on a cycle.                         *)
(***************************************************************************)
DirectDependents(nodes) == {n \in Node : \E m \in nodes : <<m, n>> \in dependencies}

\* A slip the properties must notice: what rests on a dependent is forgotten.
DependentsOnly(root) == DirectDependents({root})

TransitiveDependents(root) ==
  LET Ring[k \in Nat] == IF k = 0 THEN DirectDependents({root})
                         ELSE Ring[k - 1] \cup DirectDependents(Ring[k - 1])
  IN  Ring[Cardinality(Node)]

TraceSteps(root) ==
  {e \in dependencies : e[1] = root \/ e[1] \in TransitiveDependents(root)}

(***************************************************************************)
(* The nodes of explanation_dependency_tree, a walk towards the evidence   *)
(* that stops where it meets its own path.                                 *)
(***************************************************************************)
RECURSIVE ExplanationNodes(_, _)
ExplanationNodes(node, path) ==
  IF node \in path THEN {node}
  ELSE {node} \cup UNION {ExplanationNodes(e[2], path \cup {node}) :
                            e \in {d \in reverse_dependencies : d[1] = node}}

(***************************************************************************)
(* Recording an assumption, a derived assertion or an answer again starts  *)
(* it anew, whatever befell what it rests on.                              *)
(***************************************************************************)
AddDependencies(node, on) ==
  /\ dependencies' = dependencies \cup (on \X {node})
  /\ reverse_dependencies' = reverse_dependencies \cup ({node} \X on)

RecordNode(node, on) ==
  /\ records < MaxRecords
  /\ records' = records + 1
  /\ AddDependencies(node, on)
  /\ status' = [n \in DOMAIN status \cup {node} |->
                  IF n = node THEN "Supported" ELSE status[n]]

AddBelief(r) ==
  /\ r.node \in Assumption \cup Derived
  /\ RecordNode(r.node, r.on)
  /\ UNCHANGED invalidated_by

RecordAnswer(r) ==
  /\ r.node \in Answer
  /\ RecordNode(r.node, r.on)
  /\ invalidated_by' = [a \in DOMAIN invalidated_by \ {r.node} |-> invalidated_by[a]]

Invalidate(nodes) == [n \in DOMAIN status |-> IF n \in nodes THEN "Invalidated" ELSE status[n]]

PropagateRetraction(root) ==
  LET reached == TransitiveDependents(root)
      answers == reached \cap Answer \cap DOMAIN status
  IN  /\ status' = Invalidate(reached)
      /\ invalidated_by' = [a \in DOMAIN invalidated_by \cup answers |->
                              IF a \in answers THEN root ELSE invalidated_by[a]]
      /\ UNCHANGED <<dependencies, reverse_dependencies, records>>

TruthInit ==
  /\ dependencies = {} /\ reverse_dependencies = {}
  /\ status = [n \in {} |-> ""] /\ invalidated_by = [n \in {} |-> ""] /\ records = 0

TruthNext ==
  \/ \E r \in Record : AddBelief(r) \/ RecordAnswer(r)
  \/ \E root \in Node : PropagateRetraction(root)

(***************************************************************************)
(* What a retraction of a node would invalidate is exactly what names that *)
(* node in its explanation, cycles included; and its trace tells, for each *)
(* node invalidated, the step that reached it from the root or from        *)
(* another such node (transitive_dependents over the forward edges,        *)
(* explanation_dependency_tree over the reverse ones, invalidation_trace). *)
(***************************************************************************)
ExplanationsMatchRetractions ==
  \A root, n \in Node :
    /\ root # n =>
         (n \in TransitiveDependents(root) <=> root \in ExplanationNodes(n, {}))
    /\ n \in TransitiveDependents(root) => \E e \in TraceSteps(root) : e[2] = n

(***************************************************************************)
(* An answer carries the root that invalidated it exactly when it stands   *)
(* invalidated, and that root still explains it: no edge is ever dropped,  *)
(* whatever is recorded again in between (record_answer,                   *)
(* propagate_retraction).                                                  *)
(***************************************************************************)
InvalidationIsExplained ==
  \A a \in Answer \cap DOMAIN status :
    /\ status[a] = "Invalidated" <=> a \in DOMAIN invalidated_by
    /\ a \in DOMAIN invalidated_by => invalidated_by[a] \in ExplanationNodes(a, {})
=============================================================================
