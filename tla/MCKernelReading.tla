--------------------------- MODULE MCKernelReading ---------------------------
(***************************************************************************)
(* The readers of the kernel, for TLC: a few public calls of the kernel    *)
(* lead to each state, and every answer is checked there.  Causal links    *)
(* and atoms do not read each other, so a behaviour has one or the other.  *)
(***************************************************************************)
EXTENDS QueryVm, ModelContext, SelfRevision

CONSTANTS
  claim, derived, brief,   \* a claim, a memory derived from it or replacing it, a summary
  person, other, press, analyst, rain, flood, loss,
  MaxSteps                 \* bound of the exploration: calls of the kernel

VARIABLE steps

AnAtom(id, deps, supersedes, belief, plan) ==
  [id |-> id, summary |-> id = brief, plan |-> plan, belief |-> belief,
   subject |-> IF id = claim THEN person ELSE other,
   sources |-> IF id = brief THEN {} ELSE {press},
   agent |-> IF id = claim THEN NoAgent ELSE analyst,
   deps |-> deps, supersedes |-> supersedes, contradicts |-> {}]

ReadClaims ==
  {AnAtom(claim, {}, {}, "Accepted", FALSE), AnAtom(derived, {claim}, {}, "Candidate", TRUE),
   AnAtom(derived, {}, {claim}, "Accepted", FALSE), AnAtom(brief, {derived}, {}, "Accepted", FALSE),
   AnAtom(brief, {claim}, {derived}, "Disputed", FALSE)}

AnObject(form) == [form |-> form, of |-> person]

ReadDetail ==
  [a \in {claim, derived, brief} |->
     [predicate |-> IF a = brief THEN "SUMMARY" ELSE "ENTITY_NAME",
      object |-> AnObject(IF a = claim THEN "value" ELSE "reference"),
      from |-> IF a = derived THEN 2 ELSE 1, until |-> IF a = claim THEN 2 ELSE 9,
      tx |-> IF a = claim THEN 1 ELSE 2, tx_until |-> 9,
      claim |-> CASE a = claim -> "Derived" [] a = derived -> "AgentMemory" [] a = brief -> "Summary",
      evidence |-> a # brief, permission |-> IF a = claim THEN "Restricted" ELSE "Public",
      taint |-> IF a = derived THEN "Untrusted" ELSE "Trusted", usable |-> TRUE,
      confidence |-> IF a = claim THEN 90 ELSE 60, tokens |-> IF a = claim THEN 18 ELSE 16,
      rank |-> CASE a = claim -> 1 [] a = derived -> 2 [] a = brief -> 3, tenant |-> "t"]]

ReadPatterns ==
  {[subject |-> s, predicate |-> q, object |-> o] :
     s \in {{}, {person}}, q \in {{}, {"ENTITY_NAME"}},
     o \in {{}, {AnObject("value")}, {AnObject("reference")}}}

ReadRequests ==
  {[agent |-> analyst, valid_at |-> v, known_at |-> {2}, scope |-> scope, budget |-> budget,
    mentions |-> {person}, risky |-> TRUE] :
     v \in {{}, {1}}, scope \in {{}, {"Public"}}, budget \in {20, 36}}

ReadConflicts == {{claim, derived}, {claim, derived, brief}}

Init == KernelInit /\ steps = 0

Next ==
  /\ steps < MaxSteps
  /\ steps' = steps + 1
  /\ KernelNext
  /\ causes' = {} \/ atoms' = <<>>
=============================================================================
