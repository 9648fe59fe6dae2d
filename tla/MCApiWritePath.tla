--------------------------- MODULE MCApiWritePath ---------------------------
(***************************************************************************)
(* ApiWritePath with the three commands that the HTTP handlers send: a     *)
(* source, an entity and an assertion that needs both.                     *)
(***************************************************************************)
EXTENDS ApiWritePath

CONSTANTS e1, s1, a1, text, high

MCRequests ==
  {[kind |-> "create_entity", id |-> e1],
   [kind |-> "add_source", id |-> s1, scoreInRange |-> TRUE],
   [kind |-> "add_assertion", id |-> a1, subject |-> e1, object |-> text,
    sources |-> {s1}, confidence |-> high]}
=============================================================================
