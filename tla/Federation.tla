----------------------------- MODULE Federation -----------------------------
(***************************************************************************)
(* Federated graphs: nodes that a principal may read or not, queries       *)
(* planned over them and executed later, joins between two of them, and    *)
(* the resolution of entities across graphs.  The scores that order        *)
(* evidence are left out; a plan holds what it fixes, the targets and the  *)
(* graphs skipped.                                                         *)
(***************************************************************************)
EXTENDS Naturals, FiniteSets

CONSTANTS
  Node,      \* graph nodes as they may be added: id, boundary, readers, results
  Asker,     \* principals
  Entity,    \* local and canonical entities
  MaxLinks,  \* bound of the exploration: links of entities
  MaxPlans,  \* bound of the exploration: plans kept
  Anyone     \* in the readers of a node with public read

VARIABLES
  nodes,    \* the node of each graph id
  plans,    \* the plans made and not yet executed
  aliases,  \* the canonical entity of each linked one
  members   \* pairs of graph and local entity, of each canonical one

federationVars == <<nodes, plans, aliases, members>>

CanRead(node, asker) == {Anyone, asker} \cap node.readers # {}

PlanQuery(asker) ==
  LET targets == {g \in DOMAIN nodes : CanRead(nodes[g], asker)}
  IN  [by |-> asker, targets |-> targets, skipped |-> DOMAIN nodes \ targets]

Label(graph) == [graph |-> graph, boundary |-> nodes[graph].boundary]

ExecutePlan(plan) ==
  LET found == plan.targets \cap DOMAIN nodes
  IN  [partial_results |-> {[label |-> Label(g), evidence |-> nodes[g].results] : g \in found},
       merged_evidence |-> UNION {{[label |-> Label(g), item |-> i] : i \in nodes[g].results} : g \in found},
       warnings |-> plan.skipped \cup (plan.targets \ found)]

EvaluateJoin(join, asker) ==  \* of two graphs that are there
  LET left == nodes[join.left]
      right == nodes[join.right]
  IN  \/ join.policy
      \/ /\ CanRead(left, asker) /\ CanRead(right, asker)
         /\ join.restricted => left.boundary = right.boundary

Resolve(e) ==
  LET canonical == IF e \in DOMAIN aliases THEN aliases[e] ELSE e
  IN  IF canonical \in DOMAIN members THEN members[canonical] ELSE {}

AddNode(node) ==
  /\ nodes' = [g \in DOMAIN nodes \cup {node.id} |-> IF g = node.id THEN node ELSE nodes[g]]
  /\ UNCHANGED <<plans, aliases, members>>

Plan(asker) ==
  /\ Cardinality(plans) < MaxPlans
  /\ plans' = plans \cup {PlanQuery(asker)}
  /\ UNCHANGED <<nodes, aliases, members>>

Link(local, graph, canonical) ==
  LET known == IF canonical \in DOMAIN members THEN members[canonical] ELSE {}
  IN  /\ Cardinality(UNION {members[c] : c \in DOMAIN members}) < MaxLinks
      /\ aliases' = [e \in DOMAIN aliases \cup {local} |->
                       IF e = local THEN canonical ELSE aliases[e]]
      /\ members' = [c \in DOMAIN members \cup {canonical} |->
                       IF c = canonical THEN known \cup {<<graph, local>>} ELSE members[c]]
      /\ UNCHANGED <<nodes, plans>>

FederationInit == nodes = <<>> /\ plans = {} /\ aliases = <<>> /\ members = <<>>

FederationNext ==
  \/ \E node \in Node : AddNode(node)
  \/ \E asker \in Asker : Plan(asker)
  \/ \E local, canonical \in Entity, node \in Node : Link(local, node.id, canonical)

(***************************************************************************)
(* No graph is lost silently: each one that a plan knew is answered in the *)
(* pack or named in a warning, also when the federation changed since; all *)
(* evidence comes from a target of the plan, under that graph's own label; *)
(* without a policy, a join is between graphs that a query of the same     *)
(* principal would reach; and an entity linked across graphs is a member   *)
(* of what it resolves to, however often it was linked again.              *)
(***************************************************************************)
FederationAccounts ==
  /\ \A plan \in plans :
       LET pack == ExecutePlan(plan)
       IN  /\ plan.targets \cup plan.skipped =
                {r.label.graph : r \in pack.partial_results} \cup pack.warnings
           /\ \A e \in pack.merged_evidence :
                /\ e.label.graph \in plan.targets \ plan.skipped
                /\ e.item \in nodes[e.label.graph].results
                /\ \E r \in pack.partial_results : r.label = e.label /\ e.item \in r.evidence
  /\ \A left, right \in DOMAIN nodes, restricted \in BOOLEAN, asker \in Asker :
       EvaluateJoin([left |-> left, right |-> right, policy |-> FALSE, restricted |-> restricted],
                    asker)
         => {left, right} \subseteq PlanQuery(asker).targets
  /\ \A e \in DOMAIN aliases : \E m \in Resolve(e) : m[2] = e
=============================================================================
