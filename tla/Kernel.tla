------------------------------- MODULE Kernel -------------------------------
(***************************************************************************)
(* RealityKernel of crates/rg-kernel: atoms with a current belief, the     *)
(* revisions of each atom's belief, conflicts, the dependency graph and    *)
(* causal links.  The actions are the kernel's mutating calls; what a      *)
(* query answers is an operator.  MaintainedViews.tla drives them.         *)
(*                                                                         *)
(* Abstractions.  An atom keeps the fields some call of this part reads;   *)
(* its value, valid time, evidence and confidence are left out.  A         *)
(* ConflictSet is the set of its atoms.  A dependency is a pair: its type, *)
(* strength and explanation are only shown, never read.  Answers and       *)
(* simulations, which no event can link, are left out of the graph.        *)
(***************************************************************************)
EXTENDS Integers, Sequences, FiniteSets, Functions

CONSTANTS
  AtomId, Entity, SourceId, Agent, EventId,
  NoAgent,      \* the agent scope of an atom that has none
  Claims,       \* the atoms that may be inserted
  Conflicts,    \* the conflicts that may be added, each a set of atoms
  Revised       \* the beliefs an atom may be revised to

VARIABLES
  atoms,        \* id -> atom, for the ids inserted so far
  revisions,    \* id -> its belief revisions, in the order of the Vec
  conflicts,
  edges,        \* <<from, to>>: `to` depends on `from`
  causes        \* <<cause, effect>>

kernelVars == <<atoms, revisions, conflicts, edges, causes>>

BeliefState ==
  {"Candidate", "Accepted", "Disputed", "Superseded", "Retracted",
   "Refuted", "Simulated", "Unknown"}

Atom ==
  [id : AtomId, summary : BOOLEAN, plan : BOOLEAN, belief : BeliefState,
   subject : Entity, sources : SUBSET SourceId, agent : Agent \cup {NoAgent},
   deps : SUBSET AtomId, supersedes : SUBSET AtomId,
   contradicts : SUBSET AtomId]

Revision == [at : Nat, previous : BeliefState, next : BeliefState]

ASSUME KernelAssumption ==
  /\ Claims \subseteq Atom
  /\ \A c \in Claims : c.id \notin c.contradicts
  /\ Conflicts \subseteq SUBSET AtomId
  /\ Revised \subseteq BeliefState
  /\ NoAgent \notin Agent

\* The lists an atom and a conflict carry are finite.
ASSUME FiniteAssumption ==
  /\ \A c \in Claims : IsFiniteSet(c.deps) /\ IsFiniteSet(c.supersedes)
  /\ \A conflict \in Conflicts : IsFiniteSet(conflict)

Put(f, k, v) == [x \in DOMAIN f \cup {k} |-> IF x = k THEN v ELSE f[x]]

KernelInit ==
  /\ atoms = [a \in {} |-> a]
  /\ revisions = [a \in AtomId |-> <<>>]
  /\ conflicts = {}
  /\ edges = {}
  /\ causes = {}

-----------------------------------------------------------------------------
(***************************************************************************)
(* What depends on an atom.  The queue of the traversal takes a node again *)
(* each time another path reaches it; only the first visit counts.         *)
(***************************************************************************)
\* The nodes an edge leads to, in some order of the map's keys.
Keys(from) ==
  LET succ == {to \in AtomId : <<from, to>> \in edges}
  IN CHOOSE keys \in [1..Cardinality(succ) -> succ] : Range(keys) = succ

\* A slip the properties must notice: only the first step is followed.
VisitDirect(w) ==
  IF w.queue = <<>> THEN w
  ELSE [queue |-> Tail(w.queue), found |-> Append(w.found, Head(w.queue))]

Visit(w) ==
  LET node == Head(w.queue) IN
  IF w.queue = <<>> THEN w
  ELSE IF node \in Range(w.found) THEN [w EXCEPT !.queue = Tail(@)]
  ELSE [queue |-> Tail(w.queue) \o Keys(node), found |-> Append(w.found, node)]

\* Each edge is queued at most twice: at the root and when its start is visited.
TransitiveDependents(root) ==
  LET walk[n \in Nat] ==
        IF n = 0 THEN [queue |-> Keys(root), found |-> <<>>]
        ELSE Visit(walk[n - 1])
  IN Range(walk[2 * Cardinality(edges)].found)

-----------------------------------------------------------------------------
(***************************************************************************)
(* Beliefs.                                                                *)
(***************************************************************************)
Revise(at, from, to) == [at |-> at, previous |-> from, next |-> to]

\* sort_by_key is stable: a record stands behind the earlier ones and, of the
\* records of its own time, behind those that stood before it.
SortedByTime(recs) ==
  LET Rank(i) == Cardinality({j \in DOMAIN recs :
                                \/ recs[j].at < recs[i].at
                                \/ recs[j].at = recs[i].at /\ j <= i})
  IN [r \in DOMAIN recs |-> recs[CHOOSE i \in DOMAIN recs : Rank(i) = r]]

\* Going back from the last revision, the last one to set the answer is the
\* first one in the list that is later than the time asked about.
BeliefAt(a, time) ==
  LET later == {i \in DOMAIN revisions[a] : time < revisions[a][i].at}
  IN IF later = {} THEN atoms[a].belief
     ELSE revisions[a][CHOOSE i \in later : \A j \in later : i <= j].previous

-----------------------------------------------------------------------------
(***************************************************************************)
(* The mutating calls.                                                     *)
(***************************************************************************)
\* A slip the properties must notice: what a new atom replaces is not recorded.
InsertAtomSilently(atom, time) ==
  /\ atoms' = Put([a \in DOMAIN atoms |->
                     IF a \in atom.supersedes
                     THEN [atoms[a] EXCEPT !.belief = "Superseded"]
                     ELSE atoms[a]],
                  atom.id, atom)
  /\ edges' = edges \cup ((atom.deps \cup atom.supersedes) \X {atom.id})
  /\ UNCHANGED <<revisions, conflicts, causes>>

InsertAtom(atom, time) ==
  /\ atoms' = Put([a \in DOMAIN atoms |->
                     IF a \in atom.supersedes
                     THEN [atoms[a] EXCEPT !.belief = "Superseded"]
                     ELSE atoms[a]],
                  atom.id, atom)
  /\ revisions' = [a \in AtomId |->
                     IF a \in atom.supersedes \cap DOMAIN atoms
                     THEN Append(revisions[a],
                                 Revise(time, atoms[a].belief, "Superseded"))
                     ELSE revisions[a]]
  /\ edges' = edges \cup ((atom.deps \cup atom.supersedes) \X {atom.id})
  /\ UNCHANGED <<conflicts, causes>>

\* A slip the properties must notice: an atom contradicts itself.
ContestedItself(atom, conflict) ==
  [atom EXCEPT
     !.contradicts = IF @ \cap conflict = {} THEN @ \cup conflict ELSE @,
     !.belief = IF @ = "Accepted" THEN "Disputed" ELSE @]

Contested(atom, conflict) ==
  [atom EXCEPT
     !.contradicts = IF @ \cap conflict = {} THEN @ \cup (conflict \ {atom.id})
                     ELSE @,
     !.belief = IF @ = "Accepted" THEN "Disputed" ELSE @]

AddConflict(conflict) ==
  /\ atoms' = [a \in DOMAIN atoms |-> IF a \in conflict
                                      THEN Contested(atoms[a], conflict)
                                      ELSE atoms[a]]
  /\ edges' = edges \cup {e \in conflict \X conflict : e[1] # e[2]}
  /\ conflicts' = conflicts \cup {conflict}
  /\ UNCHANGED <<revisions, causes>>

ReviseBelief(a, next, time) ==
  /\ a \in DOMAIN atoms
  /\ atoms' = [atoms EXCEPT ![a].belief = next]
  /\ revisions' = [revisions EXCEPT
       ![a] = SortedByTime(Append(@, Revise(time, atoms[a].belief, next)))]
  /\ UNCHANGED <<conflicts, edges, causes>>

AddDependency(from, to) ==
  /\ edges' = edges \cup {<<from, to>>}
  /\ UNCHANGED <<atoms, revisions, conflicts, causes>>

InsertCause(cause, effect) ==
  /\ cause # effect
  /\ causes' = causes \cup {<<cause, effect>>}
  /\ UNCHANGED <<atoms, revisions, conflicts, edges>>

-----------------------------------------------------------------------------
KernelTypeOK ==
  /\ DOMAIN atoms \subseteq AtomId
  /\ atoms \in [DOMAIN atoms -> Atom]
  /\ \A a \in DOMAIN atoms : atoms[a].id = a /\ a \notin atoms[a].contradicts
  /\ revisions \in [AtomId -> Seq(Revision)]
  /\ conflicts \subseteq SUBSET AtomId
  /\ edges \subseteq AtomId \X AtomId
  /\ causes \subseteq EventId \X EventId
=============================================================================
