---------------------------- MODULE ModelContext ----------------------------
(***************************************************************************)
(* ModelContextCompiler: the context that a model is given for a task,     *)
(* cut by time, permissions and a token budget, with what it must know of  *)
(* contradictions and of what was left out.                                *)
(***************************************************************************)
EXTENDS KernelReads

CONSTANT Request  \* what may be asked: agent, times (options), scope, budget,
                  \* the terms its task mentions, and whether its risk is high

\* Tokens are counted.
ASSUME RequestAssumption == \A r \in Request : r.budget \in Nat

Weight(condition, n) == IF condition THEN n ELSE 0

Relevance(a, r) ==
  Weight(atoms[a].subject \in r.mentions, 4) + Weight(Detail[a].predicate \in r.mentions, 3)
    + Weight(Detail[a].object \in r.mentions, 4)
    + Weight(IsMemory(a) /\ atoms[a].agent = r.agent, 5)
    + Weight(atoms[a].belief = "Disputed", 2)

Preferred(a, b, r) ==
  \/ Relevance(a, r) > Relevance(b, r)
  \/ /\ Relevance(a, r) = Relevance(b, r)
     /\ \/ Detail[a].confidence > Detail[b].confidence
        \/ Detail[a].confidence = Detail[b].confidence /\ Detail[a].rank < Detail[b].rank

InTime(a, r) ==
  /\ \A v \in r.valid_at : InInterval(v, Detail[a].from, Detail[a].until) \/ IsMemory(a)
  /\ \A k \in r.known_at : InInterval(k, Detail[a].tx, Detail[a].tx_until)

\* A slip the properties must notice: what does not fit is forgotten.
TakeOrForget(pack, a) ==
  IF pack.tokens + Detail[a].tokens <= pack.budget
  THEN [pack EXCEPT !.tokens = @ + Detail[a].tokens, !.atoms = @ \cup {a}]
  ELSE pack

\* Atoms are taken by relevance as long as they fit; a smaller one may still
\* fit after one that did not.
Take(pack, a) ==
  IF pack.tokens + Detail[a].tokens <= pack.budget
  THEN [pack EXCEPT !.tokens = @ + Detail[a].tokens, !.atoms = @ \cup {a}]
  ELSE [pack EXCEPT !.excluded = @ \cup {a}]

\* sort_by: each atom stands behind those that are preferred to it.
Sorted(set, r) ==
  [i \in 1..Cardinality(set) |->
     CHOOSE a \in set : Cardinality({b \in set : Preferred(b, a, r)}) = i - 1]

Packed(set, r) ==
  LET order == Sorted(set, r)
      pack[n \in 0..Cardinality(set)] ==
        IF n = 0 THEN [tokens |-> 0, budget |-> r.budget, atoms |-> {}, excluded |-> {}]
        ELSE Take(pack[n - 1], order[n])
  IN  pack[Cardinality(set)]

Compile(r) ==
  LET seen == {a \in DOMAIN atoms : InTime(a, r)}
      filtered == {a \in seen : ~PermittedAtom(a, r.scope)}
      imagined == {a \in seen \ filtered : Detail[a].claim \in {"Simulation", "Hypothesis"}}
      pack == Packed(seen \ (filtered \cup imagined), r)
      contradictions == {c \in conflicts : c \cap pack.atoms # {}}
      missing == (IF pack.atoms = {} THEN {"context"} ELSE {})
                   \cup (IF contradictions # {} /\ r.risky THEN {"contradiction"} ELSE {})
                   \cup (IF filtered # {} THEN {"permission"} ELSE {})
                   \cup (IF pack.excluded # {} THEN {"budget"} ELSE {})
      KnownFor(a) == IF r.known_at = {} THEN Detail[a].tx ELSE CHOOSE k \in r.known_at : TRUE
  IN  [atoms |-> pack.atoms, tokens |-> pack.tokens, excluded |-> pack.excluded,
       source_ids |-> UNION {atoms[a].sources : a \in pack.atoms},
       beliefs |-> {<<a, BeliefAt(a, KnownFor(a))>> : a \in pack.atoms},
       memories |-> {a \in pack.atoms : IsMemory(a) /\ atoms[a].agent = r.agent},
       contradictions |-> contradictions, missing |-> missing,
       safe |-> {a \in pack.atoms : /\ atoms[a].belief \in {"Accepted", "Disputed"}
                                    /\ Detail[a].confidence >= 70},
       actions |-> (IF contradictions # {} THEN {"ReviewContradiction"} ELSE {})
                     \cup (IF missing # {} THEN {"RetrieveEvidence"} ELSE {})
                     \cup (IF r.risky THEN {"VerifyClaim"} ELSE {}),
       filtered |-> filtered, warnings |-> imagined]

(***************************************************************************)
(* A context never hides what it leaves out: an atom of that time is in    *)
(* it, filtered, imagined or too big for what was left of the budget, and  *)
(* the first two reasons and the last are declared; a conflict of an atom  *)
(* given comes with it, and when the risk is high asks for a review; and   *)
(* an atom too big would not have fitted even in the end (compile).        *)
(***************************************************************************)
ContextDeclaresGaps ==
  \A r \in Request : \A context \in {Compile(r)} :
    /\ {a \in DOMAIN atoms : InTime(a, r)} =
         context.atoms \cup context.excluded \cup context.filtered \cup context.warnings
    /\ \A a \in context.atoms : Detail[a].permission \in r.scope \/ r.scope = {}
    /\ context.tokens <= r.budget
    /\ \A a \in context.excluded :
         context.tokens + Detail[a].tokens > r.budget /\ "budget" \in context.missing
    /\ context.filtered # {} => "permission" \in context.missing
    /\ \A a \in context.atoms : \A c \in ExplainConflict(a) :
         c \in context.contradictions /\ "ReviewContradiction" \in context.actions
    /\ context.missing # {} => "RetrieveEvidence" \in context.actions
=============================================================================
