----------------------------- MODULE Governance -----------------------------
(***************************************************************************)
(* The governance engine: a permission policy, built up rule by rule, and  *)
(* the evidence packs that it cuts down to what a principal may read.  A   *)
(* redaction is of a whole source or of one field of its excerpts.         *)
(***************************************************************************)
EXTENDS Naturals, Sequences, SequencesExt

CONSTANTS
  Principal,  \* records: id, tenant and agent of those who ask
  Pack,       \* the evidence packs that may be asked for
  Rule,       \* what may be added to a policy, records with a kind
  PolicyTenant,
  MaxAudit    \* bound of the exploration: audit events

VARIABLES
  policy,    \* read_scopes, source_policies, memory_policies and redactions
  audit_log  \* of the engine that has the policy

governanceVars == <<policy, audit_log>>

CanReadTenant(p) == p.tenant = PolicyTenant /\ p.tenant \in policy.read_scopes

IsDeleted(source) == [source |-> source, field |-> "all"] \in policy.redactions
RedactedFields(source) == {r.field : r \in {d \in policy.redactions : d.source = source}}

CanReadSource(p, source) ==
  /\ ~IsDeleted(source)
  /\ source \in DOMAIN policy.source_policies => p.id \in policy.source_policies[source]

CanReadMemory(memory, agent) ==
  memory \in DOMAIN policy.memory_policies =>
    LET rule == policy.memory_policies[memory]
    IN  rule.public \/ agent \in rule.agents

CanReadAssertion(p, a) ==
  /\ CanReadTenant(p)
  /\ a.context = p.tenant
  /\ \A source \in a.sources : CanReadSource(p, source)

(***************************************************************************)
(* enforce_evidence_pack: what is left of a pack, and what was denied.  An *)
(* excerpt shows the fields that no redaction of its source names.         *)
(***************************************************************************)
Enforce(p, pack) ==
  LET allowed == {a \in pack.assertions : CanReadAssertion(p, a)}
      ids == {a.id : a \in allowed}
      quoted == UNION {a.sources : a \in allowed}
  IN  [assertions |-> allowed,
       entities |-> pack.entities \cap UNION {a.entities : a \in allowed},
       sources |-> {[id |-> s, shows |-> {"snippet", "uri"} \ RedactedFields(s)] :
                      s \in {t \in pack.sources \cap quoted : ~IsDeleted(t)}},
       paths |-> {hops \in pack.paths : hops \subseteq ids},
       contradictions |-> {pair \in pack.contradictions : pair \subseteq ids},
       denials |-> {a.id : a \in pack.assertions \ allowed}
                     \cup {s \in pack.sources \ quoted : ~CanReadSource(p, s)},
       audited |-> {[by |-> p.id, assertion |-> a.id, allowed |-> a \in allowed] :
                      a \in pack.assertions}]

EnforceEvidencePack(p, pack) ==
  LET events == Enforce(p, pack).audited
  IN  /\ Len(audit_log) < MaxAudit
      /\ audit_log' = audit_log \o SetToSeq(events)
      /\ UNCHANGED policy

AddRule(rule) ==
  /\ audit_log = <<>>  \* a policy is complete before an engine takes it
  /\ policy' =
       CASE rule.kind = "read" -> [policy EXCEPT !.read_scopes = @ \cup {rule.tenant}]
         [] rule.kind = "source" ->
              [policy EXCEPT !.source_policies =
                 [s \in DOMAIN @ \cup {rule.source} |->
                    IF s = rule.source THEN rule.principals ELSE @[s]]]
         [] rule.kind = "memory" ->
              [policy EXCEPT !.memory_policies =
                 [m \in DOMAIN @ \cup {rule.memory} |-> IF m = rule.memory THEN rule ELSE @[m]]]
         [] rule.kind = "redaction" ->
              [policy EXCEPT !.redactions = @ \cup {[source |-> rule.source, field |-> rule.field]}]
  /\ UNCHANGED audit_log

GovernanceInit ==
  /\ policy = [read_scopes |-> {}, source_policies |-> <<>>, memory_policies |-> <<>>,
               redactions |-> {}]
  /\ audit_log = <<>>

GovernanceNext ==
  \/ \E rule \in Rule : AddRule(rule)
  \/ \E p \in Principal, pack \in Pack : EnforceEvidencePack(p, pack)

(***************************************************************************)
(* A governed pack stands on its own: an excerpt, entity, path or          *)
(* contradiction of it comes with assertions of it, nothing in it rests on *)
(* a source that the principal would be denied, what is missing of its     *)
(* assertions is denied, and each one asked for leaves its decision in the *)
(* audit (enforce_evidence_pack_inner, check_source_access).               *)
(***************************************************************************)
GovernedPackIsClosed ==
  \A p \in Principal, pack \in Pack :
    LET governed == Enforce(p, pack)
        ids == {a.id : a \in governed.assertions}
    IN  /\ \A a \in governed.assertions : \A s \in a.sources : CanReadSource(p, s)
        /\ \A s \in governed.sources :
             /\ CanReadSource(p, s.id)
             /\ \E a \in governed.assertions : s.id \in a.sources
             /\ s.shows \cap RedactedFields(s.id) = {}
        /\ \A e \in governed.entities : \E a \in governed.assertions : e \in a.entities
        /\ \A set \in governed.paths \cup governed.contradictions : set \subseteq ids
        /\ \A a \in pack.assertions :
             /\ a.id \in ids \/ a.id \in governed.denials
             /\ [by |-> p.id, assertion |-> a.id, allowed |-> a.id \in ids] \in governed.audited
        /\ p.tenant # PolicyTenant => governed.assertions = {}

(***************************************************************************)
(* A redaction added to a policy takes away and never reveals: whoever     *)
(* asks, for whichever pack, is then given no assertion, excerpt, field,   *)
(* path or contradiction that the policy kept back before (with_redaction).*)
(***************************************************************************)
RedactionNeverReveals ==
  [][policy'.redactions # policy.redactions =>
       \A p \in Principal, pack \in Pack :
         LET before == Enforce(p, pack)
             after == Enforce(p, pack)'
         IN  /\ after.assertions \subseteq before.assertions
             /\ after.paths \subseteq before.paths
             /\ after.contradictions \subseteq before.contradictions
             /\ before.denials \subseteq after.denials
             /\ \A s \in after.sources :
                  \E t \in before.sources : t.id = s.id /\ s.shows \subseteq t.shows
    ]_governanceVars
=============================================================================
