------------------------- MODULE MCMaintainedViews -------------------------
(***************************************************************************)
(* MaintainedViews on three atoms: a claim, what is derived from it and a  *)
(* summary of that, each also in a variant that supersedes another atom,   *)
(* rests on another one or takes the id again.                             *)
(***************************************************************************)
EXTENDS MaintainedViews

CONSTANTS claim, derived, brief, person, press, analyst, cause, effect

NewAtom(id, deps, supersedes) ==
  [id |-> id, summary |-> id = brief, plan |-> FALSE, belief |-> "Accepted",
   subject |-> person, sources |-> {press}, agent |-> NoAgent, deps |-> deps,
   supersedes |-> supersedes, contradicts |-> {}]

MCClaims ==
  {NewAtom(claim, {}, {}),
   [NewAtom(claim, {}, {derived}) EXCEPT !.belief = "Candidate"],
   [NewAtom(derived, {claim}, {}) EXCEPT !.plan = TRUE, !.agent = analyst],
   NewAtom(derived, {}, {claim}),
   NewAtom(brief, {derived}, {}),
   [NewAtom(brief, {claim}, {}) EXCEPT !.sources = {}],
   [NewAtom(brief, {claim}, {derived}) EXCEPT !.summary = FALSE]}

MCConflicts == {{claim, derived}, {claim, derived, brief}}
MCRevised == {"Accepted", "Retracted"}
MCLinks == {<<claim, derived>>, <<brief, claim>>}
MCCauses == {<<cause, effect>>, <<cause, cause>>}
=============================================================================
