---------------------------- MODULE ServiceProofs ----------------------------
(***************************************************************************)
(* What holds of the services around the graph for every set of agents,    *)
(* memories, packs, rules, graphs and events, and every order of calls.    *)
(***************************************************************************)
EXTENDS Services, FiniteSetTheorems, FunctionTheorems, WellFoundedInduction, TLAPS

-----------------------------------------------------------------------------
(***************************************************************************)
(* Governance.                                                             *)
(***************************************************************************)
LEMMA GovernedPack == GovernedPackIsClosed
  <1> SUFFICES ASSUME NEW p \in PolicyPrincipal, NEW pack \in Pack
               PROVE  LET governed == Access!Enforce(p, pack)
                          ids == {a.id : a \in governed.assertions}
                      IN  /\ \A a \in governed.assertions : \A s \in a.sources : Access!CanReadSource(p, s)
                          /\ \A s \in governed.sources :
                               /\ Access!CanReadSource(p, s.id)
                               /\ \E a \in governed.assertions : s.id \in a.sources
                               /\ s.shows \cap Access!RedactedFields(s.id) = {}
                          /\ \A e \in governed.entities : \E a \in governed.assertions : e \in a.entities
                          /\ \A set \in governed.paths \cup governed.contradictions : set \subseteq ids
                          /\ \A a \in pack.assertions :
                               /\ a.id \in ids \/ a.id \in governed.denials
                               /\ [by |-> p.id, assertion |-> a.id, allowed |-> a.id \in ids]
                                    \in governed.audited
                          /\ p.tenant # PolicyTenant => governed.assertions = {}
    BY DEF GovernedPackIsClosed, Access!GovernedPackIsClosed
  <1> DEFINE allowed == {a \in pack.assertions : Access!CanReadAssertion(p, a)}
             ids == {a.id : a \in allowed}
             quoted == UNION {a.sources : a \in allowed}
             governed == Access!Enforce(p, pack)
  <1>1. /\ governed.assertions = allowed
        /\ governed.entities = pack.entities \cap UNION {a.entities : a \in allowed}
        /\ governed.sources = {[id |-> s, shows |-> {"snippet", "uri"} \ Access!RedactedFields(s)] :
                                 s \in {t \in pack.sources \cap quoted : ~Access!IsDeleted(t)}}
        /\ governed.paths = {hops \in pack.paths : hops \subseteq ids}
        /\ governed.contradictions = {pair \in pack.contradictions : pair \subseteq ids}
        /\ governed.denials = {a.id : a \in pack.assertions \ allowed}
                     \cup {s \in pack.sources \ quoted : ~Access!CanReadSource(p, s)}
        /\ governed.audited = {[by |-> p.id, assertion |-> a.id, allowed |-> a \in allowed] :
                      a \in pack.assertions}
    BY DEF Access!Enforce
  <1>2. \A a \in allowed : \A s \in a.sources : Access!CanReadSource(p, s)
    BY DEF Access!CanReadAssertion
  <1>3. \A a, b \in pack.assertions : a.id = b.id => a = b
    BY PackAssumption
  <1>4. \A a \in pack.assertions : a.id \in ids <=> a \in allowed
    BY <1>3
  <1>5. {a.id : a \in governed.assertions} = ids
    BY <1>1
  <1> HIDE DEF governed
  <1>6. \A s \in governed.sources :
          /\ Access!CanReadSource(p, s.id)
          /\ \E a \in governed.assertions : s.id \in a.sources
          /\ s.shows \cap Access!RedactedFields(s.id) = {}
    <2> SUFFICES ASSUME NEW s \in pack.sources \cap quoted, ~Access!IsDeleted(s),
                        NEW r, r = [id |-> s, shows |-> {"snippet", "uri"} \ Access!RedactedFields(s)]
                 PROVE  /\ Access!CanReadSource(p, r.id)
                        /\ \E a \in governed.assertions : r.id \in a.sources
                        /\ r.shows \cap Access!RedactedFields(r.id) = {}
      BY <1>1
    <2>1. r.id = s /\ r.shows = {"snippet", "uri"} \ Access!RedactedFields(s)
      OBVIOUS
    <2>2. PICK a \in allowed : s \in a.sources
      OBVIOUS
    <2> HIDE DEF allowed
    <2> QED BY <1>1, <1>2, <2>1, <2>2
  <1>7. \A e \in governed.entities : \E a \in governed.assertions : e \in a.entities
    BY <1>1
  <1>8. \A set \in governed.paths \cup governed.contradictions : set \subseteq ids
    BY <1>1
  <1>9. \A a \in pack.assertions :
          /\ a.id \in ids \/ a.id \in governed.denials
          /\ [by |-> p.id, assertion |-> a.id, allowed |-> a.id \in ids] \in governed.audited
    <2> SUFFICES ASSUME NEW a \in pack.assertions
                 PROVE  /\ a.id \in ids \/ a.id \in governed.denials
                        /\ [by |-> p.id, assertion |-> a.id, allowed |-> a.id \in ids] \in governed.audited
      OBVIOUS
    <2>1. a.id \in ids \/ a.id \in governed.denials
      BY <1>1
    <2>2. (a.id \in ids) = (a \in allowed)
      BY <1>4
    <2>3. [by |-> p.id, assertion |-> a.id, allowed |-> a \in allowed] \in governed.audited
      BY <1>1
    <2> QED BY <2>1, <2>2, <2>3
  <1>10. p.tenant # PolicyTenant => governed.assertions = {}
    BY <1>1 DEF Access!CanReadAssertion, Access!CanReadTenant
  <1>11. governed = Access!Enforce(p, pack)
    BY DEF governed
  <1> HIDE DEF ids, allowed
  <1> QED BY <1>1, <1>2, <1>5, <1>6, <1>7, <1>8, <1>9, <1>10, <1>11

(* A policy is a record of the four kinds of rules it was given.           *)
PolicyOK ==
  policy = [read_scopes |-> policy.read_scopes, source_policies |-> policy.source_policies,
            memory_policies |-> policy.memory_policies, redactions |-> policy.redactions]

LEMMA PolicyKept ==
  ASSUME PolicyOK, [Access!GovernanceNext]_Access!governanceVars
  PROVE  PolicyOK'
  <1>1. CASE UNCHANGED Access!governanceVars
    BY <1>1 DEF PolicyOK, Access!governanceVars
  <1>2. ASSUME NEW rule \in PolicyRule, Access!AddRule(rule) PROVE PolicyOK'
    <2>1. rule.kind \in {"read", "source", "memory", "redaction"}
      BY RuleAssumption
    <2> QED BY <1>2, <2>1 DEF PolicyOK, Access!AddRule
  <1>3. ASSUME NEW p \in PolicyPrincipal, NEW pack \in Pack, Access!EnforceEvidencePack(p, pack)
        PROVE  PolicyOK'
    BY <1>3 DEF PolicyOK, Access!EnforceEvidencePack
  <1> QED BY <1>1, <1>2, <1>3 DEF Access!GovernanceNext

(* A step that changes the redactions adds some and leaves the rest alone. *)
LEMMA RedactionsGrow ==
  ASSUME PolicyOK, [Access!GovernanceNext]_Access!governanceVars,
         policy'.redactions # policy.redactions
  PROVE  /\ policy.redactions \subseteq policy'.redactions
         /\ policy'.read_scopes = policy.read_scopes
         /\ policy'.source_policies = policy.source_policies
  <1>1. ~UNCHANGED Access!governanceVars
    BY DEF Access!governanceVars
  <1>2. ASSUME NEW p \in PolicyPrincipal, NEW pack \in Pack, Access!EnforceEvidencePack(p, pack)
        PROVE  FALSE
    BY <1>2 DEF Access!EnforceEvidencePack
  <1>3. PICK rule \in PolicyRule : Access!AddRule(rule)
    BY <1>1, <1>2 DEF Access!GovernanceNext
  <1>4. rule.kind \in {"read", "source", "memory", "redaction"}
    BY RuleAssumption
  <1>5. CASE rule.kind = "redaction"
    BY <1>3, <1>5 DEF PolicyOK, Access!AddRule
  <1>6. CASE rule.kind # "redaction"
    BY <1>3, <1>4, <1>6 DEF PolicyOK, Access!AddRule
  <1> QED BY <1>5, <1>6

(* So whoever asks then is given less.                                     *)
LEMMA RedactionStep ==
  ASSUME PolicyOK, [Access!GovernanceNext]_Access!governanceVars,
         policy'.redactions # policy.redactions, NEW p \in PolicyPrincipal, NEW pack \in Pack
  PROVE  LET before == Access!Enforce(p, pack)
             after == Access!Enforce(p, pack)'
         IN  /\ after.assertions \subseteq before.assertions
             /\ after.paths \subseteq before.paths
             /\ after.contradictions \subseteq before.contradictions
             /\ before.denials \subseteq after.denials
             /\ \A s \in after.sources :
                  \E t \in before.sources : t.id = s.id /\ s.shows \subseteq t.shows
  <1>1. /\ policy.redactions \subseteq policy'.redactions
        /\ policy'.read_scopes = policy.read_scopes
        /\ policy'.source_policies = policy.source_policies
    BY RedactionsGrow
  <1>2. ASSUME NEW s PROVE /\ Access!IsDeleted(s) => Access!IsDeleted(s)'
                           /\ Access!RedactedFields(s) \subseteq Access!RedactedFields(s)'
                           /\ Access!CanReadSource(p, s)' => Access!CanReadSource(p, s)
    BY <1>1 DEF Access!IsDeleted, Access!RedactedFields, Access!CanReadSource
  <1>3. ASSUME NEW a, Access!CanReadAssertion(p, a)' PROVE Access!CanReadAssertion(p, a)
    BY <1>1, <1>2, <1>3 DEF Access!CanReadAssertion, Access!CanReadTenant
  <1> DEFINE before == Access!Enforce(p, pack)
             after == Access!Enforce(p, pack)'
             was == {a \in pack.assertions : Access!CanReadAssertion(p, a)}
             is == {a \in pack.assertions : Access!CanReadAssertion(p, a)'}
             wasIds == {a.id : a \in was}
             isIds == {a.id : a \in is}
             wasQuoted == UNION {a.sources : a \in was}
             isQuoted == UNION {a.sources : a \in is}
  <1>4. /\ before.assertions = was
        /\ before.sources = {[id |-> s, shows |-> {"snippet", "uri"} \ Access!RedactedFields(s)] :
                                 s \in {t \in pack.sources \cap wasQuoted : ~Access!IsDeleted(t)}}
        /\ before.paths = {hops \in pack.paths : hops \subseteq wasIds}
        /\ before.contradictions = {pair \in pack.contradictions : pair \subseteq wasIds}
        /\ before.denials = {a.id : a \in pack.assertions \ was}
                     \cup {s \in pack.sources \ wasQuoted : ~Access!CanReadSource(p, s)}
    BY DEF Access!Enforce
  <1>5. /\ after.assertions = is
        /\ after.sources = {[id |-> s, shows |-> {"snippet", "uri"} \ Access!RedactedFields(s)'] :
                                 s \in {t \in pack.sources \cap isQuoted : ~Access!IsDeleted(t)'}}
        /\ after.paths = {hops \in pack.paths : hops \subseteq isIds}
        /\ after.contradictions = {pair \in pack.contradictions : pair \subseteq isIds}
        /\ after.denials = {a.id : a \in pack.assertions \ is}
                     \cup {s \in pack.sources \ isQuoted : ~Access!CanReadSource(p, s)'}
    BY DEF Access!Enforce
  <1>6. is \subseteq was
    BY <1>3
  <1>7. isIds \subseteq wasIds /\ isQuoted \subseteq wasQuoted
    BY <1>6
  <1> HIDE DEF before, after
  <1>8. after.paths \subseteq before.paths /\ after.contradictions \subseteq before.contradictions
    BY <1>4, <1>5, <1>7
  <1>9. before.denials \subseteq after.denials
    <2>1. {a.id : a \in pack.assertions \ was} \subseteq {a.id : a \in pack.assertions \ is}
      BY <1>6
    <2>2. {s \in pack.sources \ wasQuoted : ~Access!CanReadSource(p, s)}
            \subseteq {s \in pack.sources \ isQuoted : ~Access!CanReadSource(p, s)'}
      BY <1>2, <1>7
    <2> QED BY <1>4, <1>5, <2>1, <2>2
  <1>10. ASSUME NEW r \in after.sources
         PROVE  \E t \in before.sources : t.id = r.id /\ r.shows \subseteq t.shows
    <2>1. PICK s \in pack.sources \cap isQuoted :
            /\ ~Access!IsDeleted(s)'
            /\ r = [id |-> s, shows |-> {"snippet", "uri"} \ Access!RedactedFields(s)']
      BY <1>5
    <2> DEFINE t == [id |-> s, shows |-> {"snippet", "uri"} \ Access!RedactedFields(s)]
    <2>2. t \in before.sources
      <3>1. s \in pack.sources \cap wasQuoted /\ ~Access!IsDeleted(s)
        BY <1>2, <1>7, <2>1
      <3> HIDE DEF wasQuoted
      <3> QED BY <1>4, <3>1
    <2>3. t.id = r.id /\ r.shows \subseteq t.shows
      BY <1>2, <2>1
    <2> HIDE DEF t
    <2> QED BY <2>2, <2>3
  <1> QED BY <1>4, <1>5, <1>6, <1>8, <1>9, <1>10 DEF before, after

(* A governed pack stands on its own: nothing in it rests on what the      *)
(* principal is denied, and each decision is in the audit                  *)
(* (enforce_evidence_pack_inner).                                          *)
THEOREM GovernedPacksAreClosed == GovernanceSpec => []GovernedPackIsClosed
  <1>1. GovernedPackIsClosed
    BY GovernedPack
  <1> QED BY <1>1, PTL DEF GovernanceSpec

(* A redaction takes away and never reveals, for any policy, principal and *)
(* pack (with_redaction).                                                  *)
THEOREM RedactionsNeverReveal == GovernanceSpec => RedactionNeverReveals
  <1>1. Access!GovernanceInit => PolicyOK
    BY DEF Access!GovernanceInit, PolicyOK
  <1>2. PolicyOK /\ [Access!GovernanceNext]_Access!governanceVars => PolicyOK'
    BY PolicyKept
  <1>3. PolicyOK /\ [Access!GovernanceNext]_Access!governanceVars
        => [policy'.redactions # policy.redactions =>
              \A p \in PolicyPrincipal, pack \in Pack :
                LET before == Access!Enforce(p, pack)
                    after == Access!Enforce(p, pack)'
                IN  /\ after.assertions \subseteq before.assertions
                    /\ after.paths \subseteq before.paths
                    /\ after.contradictions \subseteq before.contradictions
                    /\ before.denials \subseteq after.denials
                    /\ \A s \in after.sources :
                         \E t \in before.sources : t.id = s.id /\ s.shows \subseteq t.shows
           ]_Access!governanceVars
    BY RedactionStep
  <1> QED BY <1>1, <1>2, <1>3, PTL DEF GovernanceSpec, RedactionNeverReveals, Access!RedactionNeverReveals

-----------------------------------------------------------------------------
(***************************************************************************)
(* Federation.  A plan divides the graphs it knew, and a linked entity is  *)
(* a member of what it is an alias of.                                     *)
(***************************************************************************)
PlansDivide == \A plan \in plans : plan.targets \cap plan.skipped = {}

AliasesAreMembers ==
  \A e \in DOMAIN aliases :
    aliases[e] \in DOMAIN members /\ \E m \in members[aliases[e]] : m[2] = e

FederationInv == PlansDivide /\ AliasesAreMembers

LEMMA FederationKept ==
  ASSUME FederationInv, [Graphs!FederationNext]_Graphs!federationVars
  PROVE  FederationInv'
  <1>1. CASE UNCHANGED Graphs!federationVars
    BY <1>1 DEF FederationInv, PlansDivide, AliasesAreMembers, Graphs!federationVars
  <1>2. ASSUME NEW node \in FederatedGraph, Graphs!AddNode(node) PROVE FederationInv'
    BY <1>2 DEF FederationInv, PlansDivide, AliasesAreMembers, Graphs!AddNode
  <1>3. ASSUME NEW asker \in Asker, Graphs!Plan(asker) PROVE FederationInv'
    <2>1. Graphs!PlanQuery(asker).targets \cap Graphs!PlanQuery(asker).skipped = {}
      BY DEF Graphs!PlanQuery
    <2>2. plans' = plans \cup {Graphs!PlanQuery(asker)} /\ UNCHANGED <<aliases, members>>
      BY <1>3 DEF Graphs!Plan
    <2>3. PlansDivide'
      BY <2>1, <2>2 DEF FederationInv, PlansDivide
    <2> QED BY <2>2, <2>3 DEF FederationInv, AliasesAreMembers
  <1>4. ASSUME NEW local \in Entity, NEW canonical \in Entity, NEW node \in FederatedGraph,
               Graphs!Link(local, node.id, canonical)
        PROVE  FederationInv'
    <2> DEFINE known == IF canonical \in DOMAIN members THEN members[canonical] ELSE {}
               more == known \cup {<<node.id, local>>}
    <2>1. /\ aliases' = [e \in DOMAIN aliases \cup {local} |->
                           IF e = local THEN canonical ELSE aliases[e]]
          /\ members' = [c \in DOMAIN members \cup {canonical} |->
                           IF c = canonical THEN more ELSE members[c]]
          /\ plans' = plans
      BY <1>4 DEF Graphs!Link
    <2>2. <<node.id, local>>[2] = local /\ <<node.id, local>> \in more
      OBVIOUS
    <2>3. known \subseteq more
      OBVIOUS
    <2>4. \A c \in DOMAIN members : members[c] \subseteq members'[c] /\ c \in DOMAIN members'
      <3> HIDE DEF more
      <3> QED BY <2>1, <2>3
    <2>5. canonical \in DOMAIN members' /\ members'[canonical] = more
      BY <2>1
    <2>6. ASSUME NEW e \in DOMAIN aliases'
          PROVE  aliases'[e] \in DOMAIN members' /\ \E m \in members'[aliases'[e]] : m[2] = e
      <3> HIDE DEF more
      <3>1. CASE e = local
        <4>1. aliases'[e] = canonical
          BY <2>1, <3>1
        <4> QED BY <2>2, <2>5, <3>1, <4>1
      <3>2. CASE e # local
        <4>1. e \in DOMAIN aliases /\ aliases'[e] = aliases[e]
          BY <2>1, <3>2
        <4> QED BY <2>4, <4>1 DEF FederationInv, AliasesAreMembers
      <3> QED BY <3>1, <3>2
    <2> QED BY <2>1, <2>6 DEF FederationInv, PlansDivide, AliasesAreMembers
  <1> QED BY <1>1, <1>2, <1>3, <1>4 DEF Graphs!FederationNext

LEMMA PlansAnswered ==
  ASSUME FederationInv, NEW plan \in plans
  PROVE  LET pack == Graphs!ExecutePlan(plan)
         IN  /\ plan.targets \cup plan.skipped =
                  {r.label.graph : r \in pack.partial_results} \cup pack.warnings
             /\ \A e \in pack.merged_evidence :
                  /\ e.label.graph \in plan.targets \ plan.skipped
                  /\ e.item \in nodes[e.label.graph].results
                  /\ \E r \in pack.partial_results : r.label = e.label /\ e.item \in r.evidence
  <1> DEFINE pack == Graphs!ExecutePlan(plan)
             found == plan.targets \cap DOMAIN nodes
             Partial(g) == [label |-> Graphs!Label(g), evidence |-> nodes[g].results]
             Merged(g, i) == [label |-> Graphs!Label(g), item |-> i]
  <1>1. /\ pack.partial_results = {Partial(g) : g \in found}
        /\ pack.merged_evidence = UNION {{Merged(g, i) : i \in nodes[g].results} : g \in found}
        /\ pack.warnings = plan.skipped \cup (plan.targets \ found)
    BY DEF Graphs!ExecutePlan
  <1>2. \A g : Graphs!Label(g).graph = g
    BY DEF Graphs!Label
  <1>3. \A g : Partial(g).label = Graphs!Label(g) /\ Partial(g).evidence = nodes[g].results
    OBVIOUS
  <1>4. \A g, i : Merged(g, i).label = Graphs!Label(g) /\ Merged(g, i).item = i
    OBVIOUS
  <1>5. plan.targets \cap plan.skipped = {}
    BY DEF FederationInv, PlansDivide
  <1> HIDE DEF pack, Partial, Merged
  <1>6. {r.label.graph : r \in pack.partial_results} = found
    BY <1>1, <1>2, <1>3
  <1>7. ASSUME NEW e \in pack.merged_evidence
        PROVE  /\ e.label.graph \in plan.targets \ plan.skipped
               /\ e.item \in nodes[e.label.graph].results
               /\ \E r \in pack.partial_results : r.label = e.label /\ e.item \in r.evidence
    <2>1. PICK g \in found : e \in {Merged(g, i) : i \in nodes[g].results}
      BY <1>1
    <2>2. PICK i \in nodes[g].results : e = Merged(g, i)
      BY <2>1
    <2>3. e.label = Graphs!Label(g) /\ e.label.graph = g /\ e.item = i
      BY <1>2, <1>4, <2>2
    <2>4. Partial(g) \in pack.partial_results
      BY <1>1
    <2> QED BY <1>3, <1>5, <2>3, <2>4
  <1>8. pack = Graphs!ExecutePlan(plan)
    BY DEF pack
  <1> QED BY <1>1, <1>6, <1>7, <1>8

(* No graph is lost silently, and what is answered, joined or resolved is  *)
(* what it says, also when the federation has changed since the plan was   *)
(* made (execute_plan, evaluate_join, link).                               *)
THEOREM FederationAlwaysAccounts == FederationSpec => []FederationAccounts
  <1>1. Graphs!FederationInit => FederationInv
    BY DEF Graphs!FederationInit, FederationInv, PlansDivide, AliasesAreMembers
  <1>2. FederationInv /\ [Graphs!FederationNext]_Graphs!federationVars => FederationInv'
    BY FederationKept
  <1>3. FederationInv => FederationAccounts
    <2> SUFFICES ASSUME FederationInv PROVE FederationAccounts
      OBVIOUS
    <2>1. ASSUME NEW left \in DOMAIN nodes, NEW right \in DOMAIN nodes, NEW restricted \in BOOLEAN,
                 NEW asker \in Asker,
                 Graphs!EvaluateJoin([left |-> left, right |-> right, policy |-> FALSE,
                                      restricted |-> restricted], asker)
          PROVE  {left, right} \subseteq Graphs!PlanQuery(asker).targets
      BY <2>1 DEF Graphs!EvaluateJoin, Graphs!PlanQuery
    <2>2. \A e \in DOMAIN aliases : \E m \in Graphs!Resolve(e) : m[2] = e
      BY DEF FederationInv, AliasesAreMembers, Graphs!Resolve
    <2> QED BY <2>1, <2>2, PlansAnswered DEF FederationAccounts, Graphs!FederationAccounts
  <1> QED BY <1>1, <1>2, <1>3, PTL DEF FederationSpec

-----------------------------------------------------------------------------
(***************************************************************************)
(* The cache.  The index names each key for whatever its entry was read    *)
(* from, and nothing changed after the clock.                              *)
(***************************************************************************)
ClockOK == clock \in Nat /\ changed \in [Thing -> Nat] /\ \A t \in Thing : changed[t] <= clock

TracksIndexed == \A k \in DOMAIN tracked : k \in Key /\ \A t \in tracked[k] : <<t, k>> \in index

EntriesIndexed ==
  \A k \in DOMAIN entries :
    /\ k \in Key /\ entries[k].at \in Nat
    /\ \A t \in entries[k].on : t \in Thing /\ <<t, k>> \in index /\ changed[t] <= entries[k].at

CacheInv == ClockOK /\ TracksIndexed /\ EntriesIndexed

LEMMA FillKeeps ==
  ASSUME CacheInv, NEW key \in Key, NEW things \in Reads, Cache!Fill(key, things)
  PROVE  CacheInv'
  <1>1. /\ entries' = [k \in DOMAIN entries \cup {key} |->
                         IF k = key THEN [at |-> clock, on |-> things] ELSE entries[k]]
        /\ index' = index \cup (things \X {key})
        /\ tracked' = [k \in DOMAIN tracked \cup {key} |-> IF k = key THEN things ELSE tracked[k]]
        /\ changed' = changed /\ clock' = clock
    BY DEF Cache!Fill, Cache!Track
  <1>2. \A t \in things : t \in Thing /\ <<t, key>> \in index'
    BY <1>1, ThingAssumption
  <1>3. ClockOK'
    BY <1>1 DEF CacheInv, ClockOK
  <1>4. TracksIndexed'
    BY <1>1, <1>2 DEF CacheInv, TracksIndexed
  <1>5. ASSUME NEW k \in DOMAIN entries'
        PROVE  /\ k \in Key /\ entries'[k].at \in Nat
               /\ \A t \in entries'[k].on : t \in Thing /\ <<t, k>> \in index' /\ changed'[t] <= entries'[k].at
    <2>1. CASE k = key
      <3>1. entries'[k].at = clock /\ entries'[k].on = things
        BY <1>1, <2>1
      <3> QED BY <1>1, <1>2, <2>1, <3>1 DEF CacheInv, ClockOK
    <2>2. CASE k # key
      <3>1. k \in DOMAIN entries /\ entries'[k] = entries[k]
        BY <1>1, <2>2
      <3> QED BY <1>1, <3>1 DEF CacheInv, EntriesIndexed
    <2> QED BY <2>1, <2>2
  <1> QED BY <1>3, <1>4, <1>5 DEF CacheInv, EntriesIndexed

(* Whatever changes, the keys that read it are gone.                       *)
LEMMA ChangeKeeps ==
  ASSUME CacheInv, NEW things, UNCHANGED <<index, tracked>>, clock' = clock + 1,
         changed' \in [Thing -> Nat],
         \A t \in Thing : changed'[t] = IF t \in things THEN clock + 1 ELSE changed[t],
         NEW keys, Cache!InvalidateKeys(keys),
         \A t \in things : Cache!KeysFor(t) \subseteq keys
  PROVE  CacheInv'
  <1>1. entries' = [k \in DOMAIN entries \ keys |-> entries[k]]
    BY DEF Cache!InvalidateKeys
  <1>2. ClockOK'
    <2>1. clock \in Nat /\ clock' \in Nat /\ clock' = clock + 1
      BY DEF CacheInv, ClockOK
    <2>2. ASSUME NEW t \in Thing PROVE changed'[t] <= clock'
      BY <2>1, <2>2 DEF CacheInv, ClockOK
    <2> QED BY <2>1, <2>2 DEF ClockOK
  <1>3. TracksIndexed'
    BY DEF CacheInv, TracksIndexed
  <1>4. ASSUME NEW k \in DOMAIN entries'
        PROVE  /\ k \in Key /\ entries'[k].at \in Nat
               /\ \A t \in entries'[k].on : t \in Thing /\ <<t, k>> \in index' /\ changed'[t] <= entries'[k].at
    <2>1. k \in DOMAIN entries /\ k \notin keys /\ entries'[k] = entries[k]
      BY <1>1
    <2>2. /\ k \in Key /\ entries[k].at \in Nat
          /\ \A t \in entries[k].on : t \in Thing /\ <<t, k>> \in index /\ changed[t] <= entries[k].at
      BY <2>1 DEF CacheInv, EntriesIndexed
    <2>3. \A t \in entries[k].on : t \notin things
      BY <2>1, <2>2 DEF Cache!KeysFor
    <2>4. \A t \in entries[k].on : changed'[t] = changed[t]
      BY <2>2, <2>3
    <2> QED BY <2>1, <2>2, <2>4
  <1> QED BY <1>2, <1>3, <1>4 DEF CacheInv, EntriesIndexed

LEMMA CacheKept ==
  ASSUME CacheInv, [Cache!CacheNext]_Cache!cacheVars
  PROVE  CacheInv'
  <1>1. CASE UNCHANGED Cache!cacheVars
    BY <1>1 DEF CacheInv, ClockOK, TracksIndexed, EntriesIndexed, Cache!cacheVars
  <1>2. ASSUME NEW t \in Thing, Cache!Change(t) PROVE CacheInv'
    <2>1. /\ UNCHANGED <<index, tracked>> /\ clock' = clock + 1
          /\ changed' = [changed EXCEPT ![t] = clock + 1]
          /\ Cache!InvalidateKeys(Cache!KeysFor(t))
      BY <1>2 DEF Cache!Change
    <2>2. changed' \in [Thing -> Nat]
      BY <2>1 DEF CacheInv, ClockOK
    <2>3. \A u \in Thing : changed'[u] = IF u \in {t} THEN clock + 1 ELSE changed[u]
      BY <2>1 DEF CacheInv, ClockOK
    <2> QED BY <2>1, <2>2, <2>3, ChangeKeeps
  <1>3. ASSUME NEW a \in Assertion, NEW b \in Assertion, Cache!Contradict(a, b) PROVE CacheInv'
    <2>1. /\ UNCHANGED <<index, tracked>> /\ clock' = clock + 1
          /\ changed' = [changed EXCEPT ![a] = clock + 1, ![b] = clock + 1]
          /\ Cache!InvalidateKeys(Cache!AffectedKeys(a, b))
      BY <1>3 DEF Cache!Contradict
    <2>2. changed' \in [Thing -> Nat]
      <3> DEFINE later == clock + 1
                 once == [changed EXCEPT ![a] = later]
      <3>1. later \in Nat /\ changed \in [Thing -> Nat]
        BY DEF CacheInv, ClockOK
      <3>2. changed' = [once EXCEPT ![b] = later]
        BY <2>1
      <3> HIDE DEF later
      <3>3. once \in [Thing -> Nat]
        BY <3>1
      <3> HIDE DEF once
      <3> QED BY <3>1, <3>2, <3>3
    <2>3. \A u \in Thing : changed'[u] = IF u \in {a, b} THEN clock + 1 ELSE changed[u]
      BY <2>1 DEF CacheInv, ClockOK
    <2>4. \A u \in {a, b} : Cache!KeysFor(u) \subseteq Cache!AffectedKeys(a, b)
      BY DEF Cache!AffectedKeys
    <2> QED BY <2>1, <2>2, <2>3, <2>4, ChangeKeeps
  <1>4. ASSUME UNCHANGED <<entries, index, tracked, changed, clock>> PROVE CacheInv'
    BY <1>4 DEF CacheInv, ClockOK, TracksIndexed, EntriesIndexed
  <1>5. ASSUME NEW t \in Thing, Cache!Remember(t) PROVE CacheInv'
    BY <1>4, <1>5 DEF Cache!Remember
  <1>6. ASSUME NEW s \in Summary, NEW things \in Reads, Cache!TrackSummary(s, things) PROVE CacheInv'
    BY <1>4, <1>6 DEF Cache!TrackSummary
  <1> QED BY <1>1, <1>2, <1>3, <1>5, <1>6, FillKeeps DEF Cache!CacheNext

(* No cache offers what was read before a thing it was read from changed,  *)
(* and the index names every key for all it depends on (track,             *)
(* invalidate_keys).                                                       *)
THEOREM CacheAlwaysFresh == CacheSpec => []CachedIsFresh
  <1>1. Cache!CacheInit => CacheInv
    BY DEF Cache!CacheInit, CacheInv, ClockOK, TracksIndexed, EntriesIndexed
  <1>2. CacheInv /\ [Cache!CacheNext]_Cache!cacheVars => CacheInv'
    BY CacheKept
  <1>3. CacheInv => CachedIsFresh
    BY DEF CacheInv, TracksIndexed, EntriesIndexed, CachedIsFresh, Cache!CachedIsFresh, Cache!KeysFor
  <1> QED BY <1>1, <1>2, <1>3, PTL DEF CacheSpec

-----------------------------------------------------------------------------
(***************************************************************************)
(* Agents that share.  Of every record the log has its last recording, and *)
(* of every private one an exchange later than that for each agent it was  *)
(* shared with.                                                            *)
(***************************************************************************)
Person == Agent \cup {m.by : m \in Recording} \cup UNION Membership
ClaimId == {m.claim.id : m \in Recording}
LogEntry ==
  [action : {"MemoryRecorded", "EvidenceExchanged", "ShareDenied"}, actor : Person, target : Person,
   claims : SUBSET ClaimId]

SharingTypeOK ==
  /\ exchange_log \in Seq(LogEntry)
  /\ agents \subseteq Person
  /\ DOMAIN records \subseteq ClaimId
  /\ \A c \in DOMAIN records :
       records[c] = [claim |-> records[c].claim, namespace |-> records[c].namespace,
                     policy |-> records[c].policy, created_by |-> records[c].created_by,
                     shared_with |-> records[c].shared_with]

RecordsClaim(entry, c) == entry.action = "MemoryRecorded" /\ c \in entry.claims
HandsOver(entry, c, owner, reader) ==
  /\ entry.action = "EvidenceExchanged" /\ c \in entry.claims
  /\ entry.actor = owner /\ entry.target = reader

\* The place w of the log has the last recording of c.
LastWritten(c, w) ==
  /\ w \in DOMAIN exchange_log
  /\ RecordsClaim(exchange_log[w], c) /\ exchange_log[w].actor = records[c].created_by
  /\ \A j \in DOMAIN exchange_log : RecordsClaim(exchange_log[j], c) => j <= w

SharedSince(c, w) ==
  /\ records[c].namespace.owner = records[c].created_by
  /\ \A reader \in records[c].shared_with :
       \E i \in DOMAIN exchange_log :
         i > w /\ HandsOver(exchange_log[i], c, records[c].created_by, reader)

Audited(c) ==
  \E w \in DOMAIN exchange_log :
    LastWritten(c, w) /\ (records[c].namespace.kind = "AgentPrivate" => SharedSince(c, w))

SharingInv == SharingTypeOK /\ \A c \in DOMAIN records : Audited(c)

LEMMA Appending ==
  ASSUME NEW S, NEW seq \in Seq(S), NEW e \in S
  PROVE  /\ Append(seq, e) \in Seq(S)
         /\ Len(Append(seq, e)) = Len(seq) + 1 /\ Len(seq) \in Nat
         /\ DOMAIN seq = 1..Len(seq) /\ DOMAIN Append(seq, e) = 1..Len(seq) + 1
         /\ \A i \in DOMAIN seq : i \in DOMAIN Append(seq, e) /\ Append(seq, e)[i] = seq[i]
         /\ Append(seq, e)[Len(seq) + 1] = e
  OBVIOUS

(* What an entry adds to the log leaves a record audited that it does not  *)
(* record again.                                                           *)
LEMMA AuditedStays ==
  ASSUME SharingInv, NEW e \in LogEntry, exchange_log' = Append(exchange_log, e),
         NEW c \in DOMAIN records, c \in DOMAIN records', ~RecordsClaim(e, c),
         records'[c].created_by = records[c].created_by,
         records'[c].namespace = records[c].namespace,
         \A reader \in records'[c].shared_with :
           \/ reader \in records[c].shared_with
           \/ records[c].namespace.kind = "AgentPrivate" => HandsOver(e, c, records[c].created_by, reader)
  PROVE  Audited(c)'
  <1>1. PICK w \in DOMAIN exchange_log :
          LastWritten(c, w) /\ (records[c].namespace.kind = "AgentPrivate" => SharedSince(c, w))
    BY DEF SharingInv, Audited
  <1>2. /\ Len(exchange_log) \in Nat
        /\ DOMAIN exchange_log = 1..Len(exchange_log)
        /\ DOMAIN exchange_log' = 1..Len(exchange_log) + 1
        /\ \A i \in DOMAIN exchange_log : i \in DOMAIN exchange_log' /\ exchange_log'[i] = exchange_log[i]
        /\ exchange_log'[Len(exchange_log) + 1] = e
    BY Appending DEF SharingInv, SharingTypeOK
  <1>3. LastWritten(c, w)'
    <2>1. ASSUME NEW j \in DOMAIN exchange_log', RecordsClaim(exchange_log'[j], c) PROVE j <= w
      <3>1. j # Len(exchange_log) + 1
        BY <1>2, <2>1
      <3>2. j \in DOMAIN exchange_log
        BY <1>2, <3>1
      <3> QED BY <1>1, <1>2, <2>1, <3>2 DEF LastWritten
    <2>2. /\ w \in DOMAIN exchange_log' /\ RecordsClaim(exchange_log'[w], c)
          /\ exchange_log'[w].actor = records'[c].created_by
      BY <1>1, <1>2 DEF LastWritten
    <2> QED BY <2>1, <2>2 DEF LastWritten
  <1>4. ASSUME records'[c].namespace.kind = "AgentPrivate" PROVE SharedSince(c, w)'
    <2>1. SharedSince(c, w)
      BY <1>1, <1>4
    <2>2. ASSUME NEW reader \in records'[c].shared_with
          PROVE  \E i \in DOMAIN exchange_log' :
                   i > w /\ HandsOver(exchange_log'[i], c, records'[c].created_by, reader)
      <3>1. CASE reader \in records[c].shared_with
        <4>1. PICK i \in DOMAIN exchange_log :
                i > w /\ HandsOver(exchange_log[i], c, records[c].created_by, reader)
          BY <2>1, <3>1 DEF SharedSince
        <4>2. i \in DOMAIN exchange_log' /\ exchange_log'[i] = exchange_log[i]
          BY <1>2
        <4> QED BY <4>1, <4>2
      <3>2. CASE HandsOver(e, c, records[c].created_by, reader)
        <4> DEFINE last == Len(exchange_log) + 1
        <4>1. last \in DOMAIN exchange_log' /\ last > w /\ exchange_log'[last] = e
          BY <1>1, <1>2
        <4> HIDE DEF last
        <4> QED BY <3>2, <4>1
      <3> QED BY <1>4, <2>2, <3>1, <3>2
    <2>3. records'[c].namespace.owner = records'[c].created_by
      BY <2>1 DEF SharedSince
    <2> QED BY <2>2, <2>3 DEF SharedSince
  <1>5. w \in DOMAIN exchange_log'
    BY <1>2
  <1> QED BY <1>3, <1>4, <1>5 DEF Audited

(* A new recording starts the account of its claim afresh.                 *)
LEMMA AuditedAnew ==
  ASSUME SharingTypeOK, NEW m \in Recording, NEW e \in LogEntry,
         exchange_log' = Append(exchange_log, e),
         e.action = "MemoryRecorded", e.actor = m.by, e.claims = {m.claim.id},
         records'[m.claim.id] = [claim |-> m.claim, namespace |-> m.namespace,
                                 policy |-> m.policy, created_by |-> m.by, shared_with |-> {}]
  PROVE  Audited(m.claim.id)'
  <1> SUFFICES ASSUME NEW c, c = m.claim.id PROVE Audited(c)'
    OBVIOUS
  <1>1. PICK w \in DOMAIN exchange_log' :
          exchange_log'[w] = e /\ \A j \in DOMAIN exchange_log' : j <= w
    BY Appending DEF SharingTypeOK
  <1>2. /\ records'[c].created_by = m.by /\ records'[c].namespace = m.namespace
        /\ records'[c].shared_with = {}
    OBVIOUS
  <1>3. c \in e.claims
    OBVIOUS
  <1>4. LastWritten(c, w)'
    BY <1>1, <1>2, <1>3 DEF LastWritten, RecordsClaim
  <1>5. ASSUME m.namespace.kind = "AgentPrivate" PROVE SharedSince(c, w)'
    <2>1. m.namespace.owner = m.by
      BY <1>5, RecordingAssumption
    <2> QED BY <1>2, <2>1 DEF SharedSince
  <1> QED BY <1>2, <1>4, <1>5 DEF Audited

LEMMA RecordKeepsAudit ==
  ASSUME SharingInv, NEW m \in Recording, Agents!RecordMemory(m)
  PROVE  SharingInv'
  <1> DEFINE id == m.claim.id
             new == [claim |-> m.claim, namespace |-> m.namespace, policy |-> m.policy,
                     created_by |-> m.by, shared_with |-> {}]
             e == [action |-> "MemoryRecorded", actor |-> m.by, target |-> m.by, claims |-> {id}]
  <1>1. /\ id \in ClaimId /\ m.by \in Person
        /\ e \in LogEntry
    BY DEF ClaimId, Person, LogEntry
  <1>2. /\ exchange_log' = Append(exchange_log, e)
        /\ agents' \in {agents, agents \cup {m.by}}
        /\ records' = [c \in DOMAIN records \cup {id} |-> IF c = id THEN new ELSE records[c]]
    BY DEF Agents!RecordMemory, Agents!AppendAudit
  <1>3. /\ DOMAIN records' = DOMAIN records \cup {id} /\ records'[id] = new
        /\ \A c \in DOMAIN records \ {id} : records'[c] = records[c]
    BY <1>2
  <1>4. e.action = "MemoryRecorded" /\ e.actor = m.by /\ e.claims = {id}
    OBVIOUS
  <1>5. new = [claim |-> new.claim, namespace |-> new.namespace, policy |-> new.policy,
               created_by |-> new.created_by, shared_with |-> new.shared_with]
    OBVIOUS
  <1>6. Audited(id)'
    <2> HIDE DEF e
    <2> QED BY AuditedAnew, <1>1, <1>2, <1>3, <1>4 DEF SharingInv
  <1> HIDE DEF e, new, id
  <1>7. SharingTypeOK'
    <2>1. exchange_log' \in Seq(LogEntry)
      BY <1>1, <1>2, Appending DEF SharingInv, SharingTypeOK
    <2>2. agents' \subseteq Person /\ DOMAIN records' \subseteq ClaimId
      BY <1>1, <1>2, <1>3 DEF SharingInv, SharingTypeOK
    <2>3. ASSUME NEW c \in DOMAIN records'
          PROVE  records'[c] =
                   [claim |-> records'[c].claim, namespace |-> records'[c].namespace,
                    policy |-> records'[c].policy, created_by |-> records'[c].created_by,
                    shared_with |-> records'[c].shared_with]
      BY <1>3, <1>5 DEF SharingInv, SharingTypeOK
    <2> QED BY <2>1, <2>2, <2>3 DEF SharingTypeOK
  <1>8. ASSUME NEW c \in DOMAIN records', c # id PROVE Audited(c)'
    <2>1. c \in DOMAIN records /\ records'[c] = records[c]
      BY <1>3, <1>8
    <2>2. ~RecordsClaim(e, c)
      BY <1>4, <1>8 DEF RecordsClaim
    <2> QED BY AuditedStays, <1>1, <1>2, <2>1, <2>2
  <1> QED BY <1>6, <1>7, <1>8 DEF SharingInv

LEMMA ExchangeKeepsAudit ==
  ASSUME SharingInv, NEW from \in agents, NEW to \in agents, NEW ids \in SUBSET DOMAIN records,
         Agents!ExchangeEvidence(from, to, ids)
  PROVE  SharingInv'
  <1>1. from \in Person /\ to \in Person /\ ids \subseteq ClaimId
    BY DEF SharingInv, SharingTypeOK
  <1>2. agents' = agents
    BY DEF Agents!ExchangeEvidence
  <1>3. CASE /\ \A c \in ids : Agents!MayShare(from, to, c)
             /\ records' = [c \in DOMAIN records |->
                  IF c \in ids THEN [records[c] EXCEPT !.shared_with = @ \cup {to}] ELSE records[c]]
             /\ Agents!AppendAudit("EvidenceExchanged", from, to, ids)
    <2> DEFINE e == [action |-> "EvidenceExchanged", actor |-> from, target |-> to, claims |-> ids]
    <2>1. e \in LogEntry /\ e.action = "EvidenceExchanged" /\ e.actor = from /\ e.target = to /\ e.claims = ids
      BY <1>1 DEF LogEntry
    <2>2. exchange_log' = Append(exchange_log, e)
      BY <1>3 DEF Agents!AppendAudit
    <2> HIDE DEF e
    <2>3. exchange_log' \in Seq(LogEntry)
      BY <2>1, <2>2, Appending DEF SharingInv, SharingTypeOK
    <2>4. DOMAIN records' = DOMAIN records
      BY <1>3
    <2>5. ASSUME NEW c \in DOMAIN records
          PROVE  /\ records'[c].created_by = records[c].created_by
                 /\ records'[c].namespace = records[c].namespace
                 /\ records'[c] =
                      [claim |-> records'[c].claim, namespace |-> records'[c].namespace,
                       policy |-> records'[c].policy, created_by |-> records'[c].created_by,
                       shared_with |-> records'[c].shared_with]
                 /\ \A reader \in records'[c].shared_with :
                      \/ reader \in records[c].shared_with
                      \/ c \in ids /\ reader = to
      <3> DEFINE r == records[c]
      <3>1. r = [claim |-> r.claim, namespace |-> r.namespace, policy |-> r.policy,
                 created_by |-> r.created_by, shared_with |-> r.shared_with]
        BY DEF SharingInv, SharingTypeOK
      <3>2. records'[c] = IF c \in ids THEN [r EXCEPT !.shared_with = @ \cup {to}] ELSE r
        BY <1>3
      <3> HIDE DEF r
      <3>3. r.shared_with = records[c].shared_with /\ r.created_by = records[c].created_by
            /\ r.namespace = records[c].namespace
        BY DEF r
      <3>4. CASE c \notin ids
        BY <3>1, <3>2, <3>3, <3>4
      <3>5. CASE c \in ids
        <4>1. records'[c] = [claim |-> r.claim, namespace |-> r.namespace, policy |-> r.policy,
                 created_by |-> r.created_by, shared_with |-> r.shared_with \cup {to}]
          BY <3>1, <3>2, <3>5
        <4> QED BY <3>3, <3>5, <4>1
      <3> QED BY <3>4, <3>5
    <2>6. SharingTypeOK'
      BY <1>2, <2>3, <2>4, <2>5 DEF SharingInv, SharingTypeOK
    <2>7. ASSUME NEW c \in DOMAIN records' PROVE Audited(c)'
      <3>1. c \in DOMAIN records
        BY <2>4, <2>7
      <3>2. ~RecordsClaim(e, c)
        BY <2>1 DEF RecordsClaim
      <3>3. c \in ids => HandsOver(e, c, records[c].created_by, to)
        BY <1>3, <2>1 DEF HandsOver, Agents!MayShare
      <3> QED BY AuditedStays, <2>1, <2>2, <2>5, <3>1, <3>2, <3>3
    <2> QED BY <2>6, <2>7 DEF SharingInv
  <1>4. CASE /\ records' = records
             /\ \E refused \in ids : Agents!AppendAudit("ShareDenied", from, to, {refused})
    <2>1. PICK refused \in ids : Agents!AppendAudit("ShareDenied", from, to, {refused})
      BY <1>4
    <2> DEFINE e == [action |-> "ShareDenied", actor |-> from, target |-> to, claims |-> {refused}]
    <2>2. e \in LogEntry /\ e.action = "ShareDenied"
      BY <1>1, <2>1 DEF LogEntry
    <2>3. exchange_log' = Append(exchange_log, e)
      BY <2>1 DEF Agents!AppendAudit
    <2> HIDE DEF e
    <2>4. exchange_log' \in Seq(LogEntry)
      BY <2>2, <2>3, Appending DEF SharingInv, SharingTypeOK
    <2>5. SharingTypeOK'
      BY <1>2, <1>4, <2>4 DEF SharingInv, SharingTypeOK
    <2>6. ASSUME NEW c \in DOMAIN records' PROVE Audited(c)'
      <3>1. c \in DOMAIN records /\ ~RecordsClaim(e, c)
        BY <1>4, <2>2, <2>6 DEF RecordsClaim
      <3> QED BY AuditedStays, <1>4, <2>2, <2>3, <3>1
    <2> QED BY <2>5, <2>6 DEF SharingInv
  <1> QED BY <1>3, <1>4 DEF Agents!ExchangeEvidence

LEMMA AuditShows == SharingInv => Agents!SharingIsAudited
  <1> SUFFICES ASSUME SharingInv PROVE Agents!SharingIsAudited
    OBVIOUS
  <1> SUFFICES ASSUME NEW c \in DOMAIN records
      PROVE  LET r == records[c]
                 Entries(action) == {i \in DOMAIN exchange_log :
                                exchange_log[i].action = action /\ c \in exchange_log[i].claims}
                 written == CHOOSE i \in Entries("MemoryRecorded") :
                              \A j \in Entries("MemoryRecorded") : j <= i
             IN  /\ Entries("MemoryRecorded") # {} /\ exchange_log[written].actor = r.created_by
                 /\ r.namespace.kind = "AgentPrivate" =>
                      \A reader \in Agent \ {r.namespace.owner} :
                        Agents!CanRead(reader, r) =>
                          \E i \in Entries("EvidenceExchanged") :
                            /\ i > written
                            /\ exchange_log[i].actor = r.namespace.owner
                            /\ exchange_log[i].target = reader
    BY DEF Agents!SharingIsAudited
  <1> DEFINE Entries(action) == {i \in DOMAIN exchange_log :
                                exchange_log[i].action = action /\ c \in exchange_log[i].claims}
             Latest(i) == i \in Entries("MemoryRecorded") /\ \A j \in Entries("MemoryRecorded") : j <= i
             written == CHOOSE i \in Entries("MemoryRecorded") :
                              \A j \in Entries("MemoryRecorded") : j <= i
  <1>1. PICK w \in DOMAIN exchange_log :
          LastWritten(c, w) /\ (records[c].namespace.kind = "AgentPrivate" => SharedSince(c, w))
    BY DEF SharingInv, Audited
  <1>2. w \in Entries("MemoryRecorded") /\ \A j \in Entries("MemoryRecorded") : j <= w
    BY <1>1 DEF LastWritten, RecordsClaim
  <1>3. Entries("MemoryRecorded") \subseteq Nat
    BY DEF SharingInv, SharingTypeOK
  <1>4. written = w
    <2>1. /\ written \in Entries("MemoryRecorded")
          /\ \A j \in Entries("MemoryRecorded") : j <= written
      <3> HIDE DEF Entries
      <3> QED BY <1>2
    <2> HIDE DEF Entries, written
    <2>2. written <= w /\ w <= written
      BY <1>2, <2>1
    <2> QED BY <1>2, <1>3, <2>1, <2>2
  <1>5. Entries("MemoryRecorded") # {} /\ exchange_log[w].actor = records[c].created_by
    BY <1>1, <1>2 DEF LastWritten
  <1>6. ASSUME records[c].namespace.kind = "AgentPrivate",
               NEW reader \in Agent \ {records[c].namespace.owner},
               Agents!CanRead(reader, records[c])
        PROVE  \E i \in Entries("EvidenceExchanged") :
                 /\ i > w
                 /\ exchange_log[i].actor = records[c].namespace.owner
                 /\ exchange_log[i].target = reader
    <2>1. reader \in records[c].shared_with
      BY <1>6 DEF Agents!CanRead
    <2>2. /\ records[c].namespace.owner = records[c].created_by
          /\ \E i \in DOMAIN exchange_log :
               i > w /\ HandsOver(exchange_log[i], c, records[c].created_by, reader)
      BY <1>1, <1>6, <2>1 DEF SharedSince
    <2> QED BY <2>2 DEF HandsOver
  <1> HIDE DEF Entries, written
  <1>7. /\ Entries("MemoryRecorded") # {} /\ exchange_log[written].actor = records[c].created_by
        /\ records[c].namespace.kind = "AgentPrivate" =>
             \A reader \in Agent \ {records[c].namespace.owner} :
               Agents!CanRead(reader, records[c]) =>
                 \E i \in Entries("EvidenceExchanged") :
                   /\ i > written
                   /\ exchange_log[i].actor = records[c].namespace.owner
                   /\ exchange_log[i].target = reader
    BY <1>4, <1>5, <1>6
  <1> QED BY <1>7 DEF Entries, written

LEMMA SharingInvariant == SharingSpec => []SharingInv
  <1>1. Agents!MultiAgentInit => SharingInv
    BY DEF Agents!MultiAgentInit, SharingInv, SharingTypeOK
  <1>2. ASSUME SharingInv, [Agents!MultiAgentNext]_Agents!multiAgentVars PROVE SharingInv'
    <2>1. ASSUME UNCHANGED <<records, exchange_log>>, agents' \subseteq Person PROVE SharingInv'
      BY <1>2, <2>1 DEF SharingInv, SharingTypeOK, Audited, LastWritten, SharedSince
    <2>2. CASE UNCHANGED Agents!multiAgentVars
      BY <1>2, <2>1, <2>2 DEF Agents!multiAgentVars, SharingInv, SharingTypeOK
    <2>3. ASSUME NEW a \in Agent \ agents, Agents!RegisterAgent(a) PROVE SharingInv'
      BY <1>2, <2>1, <2>3 DEF Agents!RegisterAgent, SharingInv, SharingTypeOK, Person
    <2>4. ASSUME NEW t \in Team, NEW m \in Membership, Agents!RegisterTeam(t, m) PROVE SharingInv'
      <3>1. m \subseteq Person
        BY DEF Person
      <3> QED BY <1>2, <2>1, <2>4, <3>1 DEF Agents!RegisterTeam, SharingInv, SharingTypeOK
    <2>5. ASSUME NEW m \in Recording, Agents!RecordMemory(m) PROVE SharingInv'
      BY RecordKeepsAudit, <1>2, <2>5
    <2>6. ASSUME NEW from \in agents, NEW to \in agents, NEW ids \in SUBSET DOMAIN records,
                 Agents!ExchangeEvidence(from, to, ids)
          PROVE  SharingInv'
      BY ExchangeKeepsAudit, <1>2, <2>6
    <2> QED BY <1>2, <2>2, <2>3, <2>4, <2>5, <2>6 DEF Agents!MultiAgentNext
  <1> QED BY <1>1, <1>2, PTL DEF SharingSpec

(***************************************************************************)
(* Whoever reads a private record of another was handed it by its owner,   *)
(* in an exchange that the audit log shows after the last recording of the *)
(* claim, for any agents, teams and recordings (exchange_evidence,         *)
(* insert_record, record_private_memory).                                  *)
(***************************************************************************)
THEOREM SharingAlwaysAudited == SharingSpec => []SharingIsAudited
  <1>1. SharingInv => SharingIsAudited
    BY AuditShows DEF SharingIsAudited
  <1> QED BY <1>1, SharingInvariant, PTL

-----------------------------------------------------------------------------
(* What the step of an exchange does to what the agent a knows: see        *)
(* ExchangeIsWhole of MultiAgent.                                          *)
WholeFor(a) ==
  LET entry == Agents!Last(exchange_log')
      learned == Agents!Beliefs(a)' \ Agents!Beliefs(a)
  IN  /\ (/\ learned # {} /\ teams' = teams /\ DOMAIN records' = DOMAIN records
          /\ entry.action # "MemoryRecorded")
         => /\ entry.action = "EvidenceExchanged" /\ entry.target = a
            /\ learned \subseteq entry.claims
            /\ \A c \in entry.claims :
                 records[c].created_by = entry.actor
                 /\ Agents!AllowsExchange(records[c].policy, entry.actor, a)
      /\ Len(exchange_log') > Len(exchange_log) /\ entry.action = "EvidenceExchanged" /\ entry.target = a =>
           \A c \in entry.claims \cap Agents!RecommendSharing(entry.actor, a) :
             records[c].namespace.kind = "AgentPrivate" => c \in Agents!Beliefs(a)'

LEMMA NothingLearned ==
  ASSUME NEW a \in Agent, records' = records,
         \/ exchange_log' = exchange_log
         \/ Agents!Last(exchange_log').action # "EvidenceExchanged"
  PROVE  WholeFor(a)
  <1>1. teams' = teams => Agents!Beliefs(a)' = Agents!Beliefs(a)
    BY DEF Agents!Beliefs, Agents!CanRead
  <1>2. exchange_log' = exchange_log => ~(Len(exchange_log') > Len(exchange_log))
    OBVIOUS
  <1> QED BY <1>1, <1>2 DEF WholeFor

LEMMA LastOfAppending ==
  ASSUME SharingTypeOK, NEW e \in LogEntry, exchange_log' = Append(exchange_log, e)
  PROVE  Agents!Last(exchange_log') = e
  BY Appending DEF SharingTypeOK, Agents!Last

LEMMA ExchangeWholeForOne ==
  ASSUME SharingInv, NEW a \in Agent, NEW from \in agents, NEW to \in agents,
         NEW ids \in SUBSET DOMAIN records, Agents!ExchangeEvidence(from, to, ids)
  PROVE  WholeFor(a)
  <1>1. from \in Person /\ to \in Person /\ ids \subseteq ClaimId
    BY DEF SharingInv, SharingTypeOK
  <1>2. CASE /\ \A c \in ids : Agents!MayShare(from, to, c)
             /\ records' = [c \in DOMAIN records |->
                  IF c \in ids THEN [records[c] EXCEPT !.shared_with = @ \cup {to}] ELSE records[c]]
             /\ Agents!AppendAudit("EvidenceExchanged", from, to, ids)
    <2> DEFINE e == [action |-> "EvidenceExchanged", actor |-> from, target |-> to, claims |-> ids]
    <2>1. e \in LogEntry /\ e.action = "EvidenceExchanged" /\ e.actor = from /\ e.target = to /\ e.claims = ids
      BY <1>1 DEF LogEntry
    <2>2. exchange_log' = Append(exchange_log, e)
      BY <1>2 DEF Agents!AppendAudit
    <2> HIDE DEF e
    <2>3. Agents!Last(exchange_log') = e
      BY <2>1, <2>2, LastOfAppending DEF SharingInv
    <2>4. DOMAIN records' = DOMAIN records /\ teams' = teams
      BY <1>2 DEF Agents!ExchangeEvidence
    <2>5. ASSUME NEW c \in DOMAIN records
          PROVE  /\ records'[c].namespace = records[c].namespace
                 /\ c \notin ids => records'[c] = records[c]
                 /\ c \in ids => records'[c].shared_with = records[c].shared_with \cup {to}
      <3> DEFINE r == records[c]
      <3>1. r = [claim |-> r.claim, namespace |-> r.namespace, policy |-> r.policy,
                 created_by |-> r.created_by, shared_with |-> r.shared_with]
        BY DEF SharingInv, SharingTypeOK
      <3>2. records'[c] = IF c \in ids THEN [r EXCEPT !.shared_with = @ \cup {to}] ELSE r
        BY <1>2
      <3> HIDE DEF r
      <3>3. CASE c \in ids
        <4>1. records'[c] = [claim |-> r.claim, namespace |-> r.namespace, policy |-> r.policy,
                 created_by |-> r.created_by, shared_with |-> r.shared_with \cup {to}]
          BY <3>1, <3>2, <3>3
        <4> QED BY <3>3, <4>1 DEF r
      <3> QED BY <3>2, <3>3 DEF r
    <2>6. ASSUME NEW c \in Agents!Beliefs(a)' \ Agents!Beliefs(a)
          PROVE  c \in ids /\ to = a
      <3>1. c \in DOMAIN records /\ ~Agents!CanRead(a, records[c]) /\ Agents!CanRead(a, records[c])'
        BY <2>4, <2>6 DEF Agents!Beliefs
      <3>2. records'[c].namespace.kind = "AgentPrivate" /\ a \in records'[c].shared_with
            /\ a \notin records[c].shared_with
        BY <2>4, <2>5, <3>1 DEF Agents!CanRead
      <3> QED BY <2>5, <3>1, <3>2
    <2>7. ASSUME NEW c \in ids
          PROVE  records[c].created_by = from /\ Agents!AllowsExchange(records[c].policy, from, to)
      BY <1>2 DEF Agents!MayShare
    <2>8. ASSUME to = a, NEW c \in ids, records[c].namespace.kind = "AgentPrivate"
          PROVE  c \in Agents!Beliefs(a)'
      BY <2>4, <2>5, <2>8 DEF Agents!Beliefs, Agents!CanRead
    <2> QED BY <2>1, <2>3, <2>6, <2>7, <2>8 DEF WholeFor
  <1>3. CASE /\ records' = records
             /\ \E refused \in ids : Agents!AppendAudit("ShareDenied", from, to, {refused})
    <2>1. PICK refused \in ids : Agents!AppendAudit("ShareDenied", from, to, {refused})
      BY <1>3
    <2> DEFINE e == [action |-> "ShareDenied", actor |-> from, target |-> to, claims |-> {refused}]
    <2>2. e \in LogEntry /\ e.action = "ShareDenied"
      BY <1>1, <2>1 DEF LogEntry
    <2>3. exchange_log' = Append(exchange_log, e)
      BY <2>1 DEF Agents!AppendAudit
    <2> HIDE DEF e
    <2> QED BY <1>3, <2>2, <2>3, LastOfAppending, NothingLearned DEF SharingInv
  <1> QED BY <1>2, <1>3 DEF Agents!ExchangeEvidence

LEMMA RecordWholeForOne ==
  ASSUME SharingInv, NEW a \in Agent, NEW m \in Recording, Agents!RecordMemory(m)
  PROVE  WholeFor(a)
  <1> DEFINE e == [action |-> "MemoryRecorded", actor |-> m.by, target |-> m.by, claims |-> {m.claim.id}]
  <1>1. e \in LogEntry /\ e.action = "MemoryRecorded"
    BY DEF ClaimId, Person, LogEntry
  <1>2. exchange_log' = Append(exchange_log, e)
    BY DEF Agents!RecordMemory, Agents!AppendAudit
  <1> HIDE DEF e
  <1>3. Agents!Last(exchange_log').action = "MemoryRecorded"
    BY <1>1, <1>2, LastOfAppending DEF SharingInv
  <1> QED BY <1>3 DEF WholeFor

LEMMA TeamWholeForOne ==
  ASSUME NEW a \in Agent, NEW t \in Team, NEW m \in Membership, Agents!RegisterTeam(t, m)
  PROVE  WholeFor(a)
  BY NothingLearned DEF Agents!RegisterTeam

(***************************************************************************)
(* No step lets an agent know a part of what was exchanged, or by another  *)
(* way than an exchange its author may make, and following a               *)
(* recommendation hands over what it recommended (exchange_evidence,       *)
(* recommend_sharing_for_task).                                            *)
(***************************************************************************)
THEOREM ExchangesAreWhole == SharingSpec => ExchangeIsWhole
  <1>1. ASSUME SharingInv, [Agents!MultiAgentNext]_Agents!multiAgentVars
        PROVE  [\A a \in Agent : WholeFor(a)]_Agents!multiAgentVars
    <2> SUFFICES ASSUME NEW a \in Agent, Agents!MultiAgentNext PROVE WholeFor(a)
      BY <1>1
    <2>1. ASSUME NEW b \in Agent \ agents, Agents!RegisterAgent(b) PROVE WholeFor(a)
      BY <2>1, NothingLearned DEF Agents!RegisterAgent
    <2>2. ASSUME NEW t \in Team, NEW m \in Membership, Agents!RegisterTeam(t, m) PROVE WholeFor(a)
      BY <2>2, TeamWholeForOne
    <2>3. ASSUME NEW m \in Recording, Agents!RecordMemory(m) PROVE WholeFor(a)
      BY <1>1, <2>3, RecordWholeForOne
    <2>4. ASSUME NEW from \in agents, NEW to \in agents, NEW ids \in SUBSET DOMAIN records,
                 Agents!ExchangeEvidence(from, to, ids)
          PROVE  WholeFor(a)
      BY <1>1, <2>4, ExchangeWholeForOne
    <2> QED BY <2>1, <2>2, <2>3, <2>4 DEF Agents!MultiAgentNext
  <1>2. [][\A a \in Agent : WholeFor(a)]_Agents!multiAgentVars => ExchangeIsWhole
    BY PTL DEF ExchangeIsWhole, Agents!ExchangeIsWhole, WholeFor
  <1> QED BY <1>1, <1>2, SharingInvariant, PTL DEF SharingSpec

-----------------------------------------------------------------------------
(***************************************************************************)
(* Snapshots and backups.  First what is known of the lines of a file.     *)
(***************************************************************************)
Whole(version, evs) == Snapshots!Lines(version, evs)
Records(evs) == [i \in DOMAIN evs |-> Snapshots!Record(i, evs[i])]

\* A line of a file.
Line ==
  {Snapshots!Torn} \cup {Snapshots!Header(v) : v \in {"SNAPSHOT-V1", "SNAPSHOT-V2", "BACKUP-V1"}}
    \cup {Snapshots!FromStorage(evs) : evs \in Seq(StorageEvent)}
    \cup {Snapshots!Record(i, e) : i \in Nat, e \in StorageEvent}

LEMMA RecordsAreLines ==
  ASSUME NEW evs \in Seq(StorageEvent)
  PROVE  /\ Records(evs) \in Seq(Line) /\ Len(Records(evs)) = Len(evs)
         /\ DOMAIN Records(evs) = 1..Len(evs) /\ Len(evs) \in Nat
         /\ \A i \in 1..Len(evs) : Records(evs)[i] = Snapshots!Record(i, evs[i])
  <1>1. /\ Len(evs) \in Nat /\ DOMAIN evs = 1..Len(evs)
        /\ \A i \in 1..Len(evs) : evs[i] \in StorageEvent
    OBVIOUS
  <1>2. \A i \in 1..Len(evs) : Snapshots!Record(i, evs[i]) \in Line
    BY <1>1 DEF Line
  <1>3. Records(evs) = [i \in 1..Len(evs) |-> Snapshots!Record(i, evs[i])]
    BY <1>1 DEF Records
  <1> QED BY <1>1, <1>2, <1>3

LEMMA Joining ==
  ASSUME NEW S, NEW a \in Seq(S), NEW b \in Seq(S)
  PROVE  /\ a \o b \in Seq(S) /\ Len(a \o b) = Len(a) + Len(b)
         /\ Len(a) \in Nat /\ Len(b) \in Nat
         /\ \A i \in 1..Len(a) : (a \o b)[i] = a[i]
         /\ \A i \in 1..Len(b) : (a \o b)[Len(a) + i] = b[i]
         /\ a \o <<>> = a /\ <<>> \o a = a
  OBVIOUS

LEMMA MovesOne ==
  ASSUME NEW S, NEW a \in Seq(S), NEW b \in Seq(S), b # <<>>
  PROVE  /\ Append(a, Head(b)) \o Tail(b) = a \o b
         /\ Append(a, Head(b)) \in Seq(S) /\ Tail(b) \in Seq(S)
  OBVIOUS

\* The version of a file that counts its events.
Current == {"SNAPSHOT-V2", "BACKUP-V1"}

LEMMA WholeHasManifest ==
  ASSUME NEW evs \in Seq(StorageEvent), NEW v \in Current
  PROVE  /\ Whole(v, evs) \in Seq(Line) /\ Len(Whole(v, evs)) = Len(evs) + 2
         /\ Whole(v, evs)[1] = Snapshots!Header(v)
         /\ Whole(v, evs)[2] = Snapshots!FromStorage(evs)
         /\ \A i \in 1..Len(evs) : Whole(v, evs)[i + 2] = Snapshots!Record(i, evs[i])
  <1> DEFINE header == Snapshots!Header(v)
             manifest == Snapshots!FromStorage(evs)
             rows == Records(evs)
  <1>1. header \in Line /\ manifest \in Line
    BY DEF Line, Current
  <1>2. /\ rows \in Seq(Line) /\ Len(rows) = Len(evs) /\ Len(evs) \in Nat
        /\ \A i \in 1..Len(evs) : rows[i] = Snapshots!Record(i, evs[i])
    BY RecordsAreLines
  <1>3. Whole(v, evs) = <<header>> \o <<manifest>> \o rows
    BY DEF Whole, Snapshots!Lines, Records, Current
  <1> HIDE DEF header, manifest, rows
  <1> DEFINE top == <<header>> \o <<manifest>>
  <1>4. /\ <<header>> \in Seq(Line) /\ Len(<<header>>) = 1 /\ <<header>>[1] = header
        /\ <<manifest>> \in Seq(Line) /\ Len(<<manifest>>) = 1 /\ <<manifest>>[1] = manifest
    BY <1>1
  <1>5. top \in Seq(Line) /\ Len(top) = 2 /\ top[1] = header /\ top[2] = manifest
    <2>1. /\ top \in Seq(Line) /\ Len(top) = 1 + 1
          /\ \A i \in 1..1 : top[i] = <<header>>[i]
          /\ \A i \in 1..1 : top[1 + i] = <<manifest>>[i]
      BY <1>4, Joining
    <2> HIDE DEF top
    <2> QED BY <1>4, <2>1
  <1>6. /\ Whole(v, evs) \in Seq(Line) /\ Len(Whole(v, evs)) = 2 + Len(evs)
        /\ \A i \in 1..2 : Whole(v, evs)[i] = top[i]
        /\ \A i \in 1..Len(evs) : Whole(v, evs)[2 + i] = rows[i]
    <2>1. Whole(v, evs) = top \o rows
      BY <1>3
    <2> HIDE DEF top
    <2>2. top \in Seq(Line) /\ rows \in Seq(Line)
      BY <1>2, <1>5
    <2>3. top \o rows \in Seq(Line)
      BY <2>2
    <2>4. Len(top \o rows) = Len(top) + Len(rows)
      BY <2>2
    <2>5. \A i \in 1..Len(top) : (top \o rows)[i] = top[i]
      BY <2>2
    <2>6. \A i \in 1..Len(rows) : (top \o rows)[Len(top) + i] = rows[i]
      BY <2>2
    <2>7. \A i \in 1..Len(rows) : Whole(v, evs)[Len(top) + i] = rows[i]
      BY <2>1, <2>6
    <2> QED BY <1>2, <1>5, <2>1, <2>3, <2>4, <2>5, <2>7
  <1>7. Whole(v, evs)[1] = header /\ Whole(v, evs)[2] = manifest
    <2> HIDE DEF top
    <2> QED BY <1>5, <1>6
  <1> QED BY <1>2, <1>6, <1>7 DEF header, manifest

LEMMA EarlierHasNone ==
  ASSUME NEW evs \in Seq(StorageEvent)
  PROVE  /\ Whole("SNAPSHOT-V1", evs) \in Seq(Line)
         /\ Len(Whole("SNAPSHOT-V1", evs)) = Len(evs) + 1
         /\ Whole("SNAPSHOT-V1", evs)[1] = Snapshots!Header("SNAPSHOT-V1")
         /\ \A i \in 1..Len(evs) : Whole("SNAPSHOT-V1", evs)[i + 1] = Snapshots!Record(i, evs[i])
         /\ Tail(Whole("SNAPSHOT-V1", evs)) = Records(evs)
  <1> DEFINE header == Snapshots!Header("SNAPSHOT-V1")
             rows == Records(evs)
  <1>1. header \in Line
    BY DEF Line
  <1>2. /\ rows \in Seq(Line) /\ Len(rows) = Len(evs) /\ Len(evs) \in Nat
        /\ \A i \in 1..Len(evs) : rows[i] = Snapshots!Record(i, evs[i])
    BY RecordsAreLines
  <1>3. Whole("SNAPSHOT-V1", evs) = <<header>> \o <<>> \o rows
    BY DEF Whole, Snapshots!Lines, Records
  <1> HIDE DEF header, rows
  <1>4. <<header>> \o <<>> = <<header>> /\ <<header>> \in Seq(Line) /\ Len(<<header>>) = 1
    BY <1>1
  <1>5. Whole("SNAPSHOT-V1", evs) = <<header>> \o rows
    BY <1>3, <1>4
  <1>6. /\ Whole("SNAPSHOT-V1", evs) \in Seq(Line) /\ Len(Whole("SNAPSHOT-V1", evs)) = 1 + Len(evs)
        /\ Whole("SNAPSHOT-V1", evs)[1] = header
        /\ \A i \in 1..Len(evs) : Whole("SNAPSHOT-V1", evs)[1 + i] = rows[i]
    <2> DEFINE top == <<header>>
    <2>1. top \in Seq(Line) /\ Len(top) = 1 /\ top[1] = header /\ Whole("SNAPSHOT-V1", evs) = top \o rows
      BY <1>4, <1>5
    <2> HIDE DEF top
    <2>2. top \in Seq(Line) /\ rows \in Seq(Line)
      BY <1>2, <2>1
    <2>3. top \o rows \in Seq(Line)
      BY <2>2
    <2>4. Len(top \o rows) = Len(top) + Len(rows)
      BY <2>2
    <2>5. \A i \in 1..Len(top) : (top \o rows)[i] = top[i]
      BY <2>2
    <2>6. \A i \in 1..Len(rows) : (top \o rows)[Len(top) + i] = rows[i]
      BY <2>2
    <2>7. \A i \in 1..Len(rows) : Whole("SNAPSHOT-V1", evs)[Len(top) + i] = rows[i]
      BY <2>1, <2>6
    <2>8. Whole("SNAPSHOT-V1", evs) \in Seq(Line) /\ Len(Whole("SNAPSHOT-V1", evs)) = 1 + Len(evs)
      BY <1>2, <2>1, <2>3, <2>4
    <2>9. Whole("SNAPSHOT-V1", evs)[1] = header
      <3>1. 1 \in 1..Len(top)
        BY <2>1
      <3> QED BY <2>1, <2>5, <3>1
    <2> QED BY <1>2, <2>1, <2>7, <2>8, <2>9
  <1>7. Tail(<<header>> \o rows) = rows
    BY <1>2, <1>4
  <1>8. Tail(Whole("SNAPSHOT-V1", evs)) = Records(evs)
    BY <1>5, <1>7 DEF rows
  <1>9. \A i \in 1..Len(evs) : Whole("SNAPSHOT-V1", evs)[i + 1] = Snapshots!Record(i, evs[i])
    BY <1>2, <1>6
  <1> QED BY <1>2, <1>6, <1>8, <1>9 DEF header

LEMMA EventsOfRecords ==
  ASSUME NEW evs \in Seq(StorageEvent)
  PROVE  Snapshots!EventsIn(Records(evs)) = {evs}
  <1>1. /\ DOMAIN Records(evs) = 1..Len(evs) /\ DOMAIN evs = 1..Len(evs)
        /\ \A i \in 1..Len(evs) : Records(evs)[i] = Snapshots!Record(i, evs[i])
    BY RecordsAreLines
  <1>2. \A i \in 1..Len(evs) : /\ Records(evs)[i].line = "record" /\ Records(evs)[i].sequence = i
                               /\ Records(evs)[i].event = evs[i]
    BY <1>1 DEF Snapshots!Record
  <1>3. [i \in DOMAIN Records(evs) |-> Records(evs)[i].event] = evs
    <2>1. [i \in 1..Len(evs) |-> Records(evs)[i].event] = [i \in 1..Len(evs) |-> evs[i]]
      BY <1>2
    <2> QED BY <1>1, <2>1
  <1> QED BY <1>1, <1>2, <1>3 DEF Snapshots!EventsIn

LEMMA RestOfWhole ==
  ASSUME NEW evs \in Seq(StorageEvent), NEW v \in Current
  PROVE  SubSeq(Whole(v, evs), 3, Len(Whole(v, evs))) = Records(evs)
  <1>1. /\ Whole(v, evs) \in Seq(Line) /\ Len(Whole(v, evs)) = Len(evs) + 2
        /\ \A i \in 1..Len(evs) : Whole(v, evs)[i + 2] = Snapshots!Record(i, evs[i])
    BY WholeHasManifest
  <1>2. /\ Records(evs) \in Seq(Line) /\ Len(Records(evs)) = Len(evs) /\ Len(evs) \in Nat
        /\ \A i \in 1..Len(evs) : Records(evs)[i] = Snapshots!Record(i, evs[i])
    BY RecordsAreLines
  <1> DEFINE whole == Whole(v, evs)
             rest == SubSeq(whole, 3, Len(evs) + 2)
  <1>3. rest \in Seq(Line) /\ Len(rest) = Len(evs) /\ \A i \in 1..Len(evs) : rest[i] = whole[i + 2]
    <2> HIDE DEF whole
    <2>1. whole \in Seq(Line) /\ Len(whole) = Len(evs) + 2
      BY <1>1 DEF whole
    <2> QED BY <1>2, <2>1
  <1>4. \A i \in 1..Len(evs) : rest[i] = Records(evs)[i]
    BY <1>1, <1>2, <1>3
  <1>5. rest = Records(evs)
    <2> HIDE DEF rest
    <2> QED BY <1>2, <1>3, <1>4
  <1> QED BY <1>1, <1>5

\* What is written in whole is read back, whatever the events.
LEMMA WholeReadsBack ==
  ASSUME NEW evs \in Seq(StorageEvent), NEW v \in Current
  PROVE  Snapshots!ReadCurrent(Whole(v, evs)) = {evs}
  <1>1. /\ Len(Whole(v, evs)) = Len(evs) + 2 /\ Len(evs) \in Nat
        /\ Whole(v, evs)[2] = Snapshots!FromStorage(evs)
    BY WholeHasManifest
  <1>2. Whole(v, evs)[2].line = "manifest"
    BY <1>1 DEF Snapshots!FromStorage
  <1>3. Snapshots!EventsIn(SubSeq(Whole(v, evs), 3, Len(Whole(v, evs)))) = {evs}
    BY RestOfWhole, EventsOfRecords
  <1>4. Snapshots!Matches(Snapshots!FromStorage(evs), Snapshots!FromStorage(evs))
    BY DEF Snapshots!Matches, Snapshots!FromStorage
  <1>5. ~(Len(Whole(v, evs)) < 2)
    BY <1>1
  <1>6. {e \in {evs} : Snapshots!Matches(Snapshots!FromStorage(e), Snapshots!FromStorage(evs))} = {evs}
    BY <1>4
  <1> QED BY <1>1, <1>2, <1>3, <1>5, <1>6 DEF Snapshots!ReadCurrent

Versions(lines) == {h.version : h \in {l \in Snapshots!ToSet(lines) : l.line = "header"}}

LEMMA OneHeader ==
  ASSUME NEW evs \in Seq(StorageEvent), NEW v \in Current \cup {"SNAPSHOT-V1"}
  PROVE  Versions(Whole(v, evs)) = {v}
  <1> DEFINE lines == Whole(v, evs)
  <1>1. /\ 1 \in DOMAIN lines /\ lines[1] = Snapshots!Header(v)
        /\ \A i \in DOMAIN lines : i # 1 => lines[i].line # "header"
    <2>1. CASE v \in Current
      <3>1. /\ lines \in Seq(Line) /\ Len(lines) = Len(evs) + 2 /\ Len(evs) \in Nat
            /\ lines[1] = Snapshots!Header(v) /\ lines[2] = Snapshots!FromStorage(evs)
            /\ \A i \in 1..Len(evs) : lines[i + 2] = Snapshots!Record(i, evs[i])
        BY <2>1, WholeHasManifest
      <3> HIDE DEF lines
      <3>2. DOMAIN lines = 1..(Len(evs) + 2)
        BY <3>1
      <3>3. ASSUME NEW i \in DOMAIN lines, i # 1 PROVE lines[i].line # "header"
        <4>1. CASE i = 2
          BY <3>1, <4>1 DEF Snapshots!FromStorage
        <4>2. CASE i # 2
          <5>1. (i - 2) \in 1..Len(evs) /\ (i - 2) + 2 = i
            BY <3>1, <3>2, <3>3, <4>2
          <5>2. lines[i] = Snapshots!Record(i - 2, evs[i - 2])
            BY <3>1, <5>1
          <5> QED BY <5>2 DEF Snapshots!Record
        <4> QED BY <4>1, <4>2
      <3> QED BY <3>1, <3>2, <3>3
    <2>2. CASE v = "SNAPSHOT-V1"
      <3>1. /\ lines \in Seq(Line) /\ Len(lines) = Len(evs) + 1 /\ Len(evs) \in Nat
            /\ lines[1] = Snapshots!Header(v)
            /\ \A i \in 1..Len(evs) : lines[i + 1] = Snapshots!Record(i, evs[i])
        BY <2>2, EarlierHasNone
      <3> HIDE DEF lines
      <3>2. DOMAIN lines = 1..(Len(evs) + 1)
        BY <3>1
      <3>3. ASSUME NEW i \in DOMAIN lines, i # 1 PROVE lines[i].line # "header"
        <4>1. (i - 1) \in 1..Len(evs) /\ (i - 1) + 1 = i
          BY <3>1, <3>2, <3>3
        <4>2. lines[i] = Snapshots!Record(i - 1, evs[i - 1])
          BY <3>1, <4>1
        <4> QED BY <4>2 DEF Snapshots!Record
      <3> QED BY <3>1, <3>2, <3>3
    <2> QED BY <2>1, <2>2
  <1> HIDE DEF lines
  <1>2. lines[1].line = "header" /\ lines[1].version = v
    BY <1>1 DEF Snapshots!Header
  <1>3. {l \in Snapshots!ToSet(lines) : l.line = "header"} = {lines[1]}
    BY <1>1, <1>2 DEF Snapshots!ToSet
  <1>4. Versions(lines) = {v}
    BY <1>2, <1>3 DEF Versions
  <1> QED BY <1>4 DEF lines

LEMMA SnapshotRestores ==
  ASSUME "snapshot" \in DOMAIN files, NEW evs \in Seq(StorageEvent), NEW v \in {"SNAPSHOT-V1", "SNAPSHOT-V2"},
         files["snapshot"] = Whole(v, evs)
  PROVE  Snapshots!Restore("snapshot") = {evs}
  <1>1. Versions(files["snapshot"]) = {v}
    BY OneHeader DEF Current
  <1>2. CASE v = "SNAPSHOT-V1"
    <2>1. Snapshots!EventsIn(Tail(files["snapshot"])) = {evs}
      BY <1>2, EarlierHasNone, EventsOfRecords
    <2> QED BY <1>1, <1>2, <2>1 DEF Snapshots!Restore, Versions
  <1>3. CASE v = "SNAPSHOT-V2"
    <2>1. Snapshots!ReadCurrent(files["snapshot"]) = {evs}
      BY <1>3, WholeReadsBack DEF Current
    <2> QED BY <1>1, <1>3, <2>1 DEF Snapshots!Restore, Versions
  <1> QED BY <1>2, <1>3

LEMMA BackupRestores ==
  ASSUME "backup" \in DOMAIN files, NEW evs \in Seq(StorageEvent), files["backup"] = Whole("BACKUP-V1", evs)
  PROVE  Snapshots!Restore("backup") = {evs}
  <1>1. Versions(files["backup"]) = {"BACKUP-V1"}
    BY OneHeader DEF Current
  <1>2. Snapshots!ReadCurrent(files["backup"]) = {evs}
    BY WholeReadsBack DEF Current
  <1> QED BY <1>1, <1>2 DEF Snapshots!Restore, Versions

(* What is left of a file of these events: if its manifest is there, it    *)
(* counts and sums up the events, or lost the sum and nothing follows it.  *)
LeftOf(lines, evs) ==
  Len(lines) >= 2 /\ lines[2].line = "manifest" =>
    /\ lines[2].count = Len(evs)
    /\ \/ lines[2].event_checksum = {evs}
       \/ lines[2].event_checksum = {} /\ Len(lines) = 2

LEMMA LeftIsRefused ==
  ASSUME NEW evs \in Seq(StorageEvent), NEW S, NEW lines \in Seq(S), LeftOf(lines, evs)
  PROVE  Snapshots!ReadCurrent(lines) \subseteq {evs}
  <1> SUFFICES ASSUME NEW found \in Snapshots!ReadCurrent(lines) PROVE found = evs
    OBVIOUS
  <1>1. /\ ~(Len(lines) < 2) /\ lines[2].line = "manifest"
        /\ found \in Snapshots!EventsIn(SubSeq(lines, 3, Len(lines)))
        /\ Snapshots!Matches(Snapshots!FromStorage(found), lines[2])
    BY DEF Snapshots!ReadCurrent
  <1>2. Len(lines) \in Nat /\ Len(lines) >= 2
    BY <1>1
  <1>3. Len(found) = Len(evs) /\ lines[2].event_checksum \in {{}, {found}}
    BY <1>1, <1>2 DEF LeftOf, Snapshots!Matches, Snapshots!FromStorage
  <1>4. CASE lines[2].event_checksum = {evs}
    BY <1>3, <1>4
  <1>5. CASE lines[2].event_checksum = {} /\ Len(lines) = 2
    <2>1. DOMAIN SubSeq(lines, 3, Len(lines)) = {}
      BY <1>2, <1>5
    <2>2. found = [i \in {} |-> SubSeq(lines, 3, Len(lines))[i].event]
      BY <1>1, <2>1 DEF Snapshots!EventsIn
    <2>3. found = <<>> /\ Len(found) = 0
      BY <2>2
    <2>4. evs = <<>>
      BY <1>3, <2>3
    <2> QED BY <2>3, <2>4
  <1> QED BY <1>1, <1>2, <1>4, <1>5 DEF LeftOf

\* What a file may have for a line after a crash.
Manifest == {Snapshots!FromStorage(evs) : evs \in Seq(StorageEvent)}
Kept ==
  Line \cup {[m EXCEPT !.graph_state_hash = {}] : m \in Manifest}
       \cup {[m EXCEPT !.graph_state_hash = {}, !.event_checksum = {}] : m \in Manifest}

LEMMA Alone ==
  ASSUME NEW S, NEW x \in S
  PROVE  <<x>> \in Seq(S) /\ Len(<<x>>) = 1 /\ <<x>>[1] = x
  OBVIOUS

LEMMA RemainsAreKept ==
  ASSUME NEW line \in Line, NEW rest \in Snapshots!Remains(line)
  PROVE  /\ rest \in Seq(Kept) /\ Len(rest) \in 0..1
         /\ Len(rest) = 1 /\ line \in Manifest /\ rest[1].line = "manifest" =>
              /\ rest[1].count = line.count
              /\ rest[1].event_checksum \in {line.event_checksum, {}}
  <1>1. line.line = "manifest" => line \in Manifest
    BY DEF Line, Manifest, Snapshots!Torn, Snapshots!Header, Snapshots!Record
  <1>2. Line \subseteq Kept
    BY DEF Kept
  <1>3. CASE rest \in {<<>>, <<Snapshots!Torn>>, <<line>>}
    <2>1. CASE rest = <<>>
      BY <2>1
    <2>2. CASE rest = <<Snapshots!Torn>>
      <3> DEFINE torn == Snapshots!Torn
      <3>1. torn \in Kept /\ torn.line # "manifest"
        BY <1>2 DEF Line, Snapshots!Torn
      <3> HIDE DEF torn
      <3>2. rest \in Seq(Kept) /\ Len(rest) = 1 /\ rest[1] = torn
        BY <2>2, <3>1, Alone DEF torn
      <3> QED BY <3>1, <3>2
    <2>3. CASE rest = <<line>>
      <3>1. rest \in Seq(Kept) /\ Len(rest) = 1 /\ rest[1] = line
        BY <1>2, <2>3, Alone
      <3> QED BY <3>1
    <2> QED BY <1>3, <2>1, <2>2, <2>3
  <1>4. CASE rest \notin {<<>>, <<Snapshots!Torn>>, <<line>>}
    <2> DEFINE once == [line EXCEPT !.graph_state_hash = {}]
               twice == [line EXCEPT !.graph_state_hash = {}, !.event_checksum = {}]
    <2>1. line.line = "manifest" /\ rest \in {<<once>>, <<twice>>}
      BY <1>4 DEF Snapshots!Remains
    <2>2. once \in Kept /\ twice \in Kept
      BY <1>1, <2>1 DEF Kept
    <2>3. once.count = line.count /\ once.event_checksum = line.event_checksum
      BY <1>1, <2>1 DEF Manifest, Snapshots!FromStorage
    <2>4. twice.count = line.count /\ twice.event_checksum = {}
      BY <1>1, <2>1 DEF Manifest, Snapshots!FromStorage
    <2> HIDE DEF once, twice
    <2>5. CASE rest = <<once>>
      <3>1. rest \in Seq(Kept) /\ Len(rest) = 1 /\ rest[1] = once
        BY <2>2, <2>5, Alone
      <3> QED BY <2>3, <3>1
    <2>6. CASE rest = <<twice>>
      <3>1. rest \in Seq(Kept) /\ Len(rest) = 1 /\ rest[1] = twice
        BY <2>2, <2>6, Alone
      <3> QED BY <2>4, <3>1
    <2> QED BY <2>1, <2>5, <2>6
  <1> QED BY <1>3, <1>4

LEMMA LinesAreKept == ASSUME NEW s \in Seq(Line) PROVE s \in Seq(Kept)
  <1>1. Line \subseteq Kept
    BY DEF Kept
  <1> HIDE DEF Line, Kept
  <1> QED BY <1>1

LEMMA PrefixIsLeft ==
  ASSUME NEW evs \in Seq(StorageEvent), NEW v \in Current, NEW a \in Seq(Kept), NEW b \in Seq(Kept),
         a \o b = Whole(v, evs)
  PROVE  LeftOf(a, evs)
  <1> SUFFICES ASSUME Len(a) >= 2 PROVE a[2] = Snapshots!FromStorage(evs)
    BY DEF LeftOf, Snapshots!FromStorage
  <1>1. (a \o b)[2] = a[2]
    OBVIOUS
  <1> QED BY <1>1, WholeHasManifest

LEMMA CrashLeaves ==
  ASSUME NEW evs \in Seq(StorageEvent), NEW v \in Current, NEW n \in Nat, n <= Len(Whole(v, evs)),
         NEW rest \in IF n < Len(Whole(v, evs)) THEN Snapshots!Remains(Whole(v, evs)[n + 1]) ELSE {<<>>}
  PROVE  LET left == SubSeq(Whole(v, evs), 1, n) \o rest
         IN  left \in Seq(Kept) /\ LeftOf(left, evs)
  <1> DEFINE all == Whole(v, evs)
             top == SubSeq(all, 1, n)
  <1>1. all \in Seq(Line) /\ all[2] = Snapshots!FromStorage(evs) /\ Len(all) >= 2
    BY WholeHasManifest
  <1>2. Snapshots!FromStorage(evs) \in Manifest
    BY DEF Manifest
  <1> HIDE DEF all
  <1>3. top \in Seq(Line) /\ Len(top) = n /\ \A i \in 1..n : top[i] = all[i]
    BY <1>1 DEF all
  <1>4. top \in Seq(Kept)
    BY <1>3, LinesAreKept
  <1> HIDE DEF top
  <1>5. rest \in Seq(Kept) /\ Len(rest) \in 0..1
    <2>1. CASE n < Len(all)
      <3>1. all[n + 1] \in Line
        BY <1>1, <2>1
      <3> QED BY <2>1, <3>1, RemainsAreKept DEF all
    <2>2. CASE ~(n < Len(all))
      BY <2>2 DEF all
    <2> QED BY <2>1, <2>2
  <1> DEFINE left == top \o rest
  <1>6. left \in Seq(Kept)
    BY <1>4, <1>5
  <1>7. Len(left) = n + Len(rest)
    BY <1>3, <1>4, <1>5
  <1>8. ASSUME Len(left) >= 2, left[2].line = "manifest"
        PROVE  /\ left[2].count = Len(evs)
               /\ \/ left[2].event_checksum = {evs}
                  \/ left[2].event_checksum = {} /\ Len(left) = 2
    <2>1. CASE n >= 2
      <3>1. left[2] = top[2]
        BY <1>3, <1>4, <1>5, <2>1
      <3>2. left[2] = Snapshots!FromStorage(evs)
        BY <1>1, <1>3, <2>1, <3>1
      <3> QED BY <3>2 DEF Snapshots!FromStorage
    <2>2. CASE n < 2
      <3>1. n = 1 /\ Len(rest) = 1 /\ Len(left) = 2
        <4> DEFINE more == Len(rest)
                   length == Len(left)
        <4>1. more \in 0..1 /\ length = n + more /\ length >= 2
          BY <1>5, <1>7, <1>8
        <4> HIDE DEF more, length
        <4>2. n = 1 /\ more = 1 /\ length = 2
          BY <2>2, <4>1
        <4> QED BY <4>2 DEF more, length
      <3>2. left[2] = rest[1]
        BY <1>3, <1>4, <1>5, <3>1
      <3>3. rest \in Snapshots!Remains(Snapshots!FromStorage(evs))
        BY <1>1, <3>1 DEF all
      <3>4. Snapshots!FromStorage(evs) \in Line
        BY DEF Line
      <3>5. /\ rest[1].count = Snapshots!FromStorage(evs).count
            /\ rest[1].event_checksum \in {Snapshots!FromStorage(evs).event_checksum, {}}
        BY <1>2, <1>8, <3>1, <3>2, <3>3, <3>4, RemainsAreKept
      <3>6. left[2].count = Len(evs) /\ left[2].event_checksum \in {{evs}, {}}
        BY <3>2, <3>5 DEF Snapshots!FromStorage
      <3> HIDE DEF left
      <3> QED BY <3>1, <3>6
    <2>3. n >= 2 \/ n < 2
      OBVIOUS
    <2> HIDE DEF left
    <2> QED BY <2>1, <2>2, <2>3
  <1>9. LeftOf(left, evs)
    BY <1>8 DEF LeftOf
  <1> QED BY <1>6, <1>9 DEF all, top

(***************************************************************************)
(* The inductive invariant: the snapshot's place holds what was published; *)
(* what is written of the file in work and what is still to write make up  *)
(* the whole; of a backup there is what a crash may have left of it, and   *)
(* all of it when nothing crashed.                                         *)
(***************************************************************************)
SnapshotTypeOK ==
  /\ events \in Seq(StorageEvent) /\ backed_up \subseteq Seq(StorageEvent) /\ crashes \in Nat
  /\ \A n \in DOMAIN files : files[n] \in Seq(Kept)

Placed ==
  \/ published = {} /\ "snapshot" \notin DOMAIN files
  \/ \E evs \in Seq(StorageEvent), v \in {"SNAPSHOT-V1", "SNAPSHOT-V2"} :
       published = {evs} /\ "snapshot" \in DOMAIN files /\ files["snapshot"] = Whole(v, evs)

VersionOf(to) == IF to = "tmp" THEN "SNAPSHOT-V2" ELSE "BACKUP-V1"

InWork(to, lines, evs) ==
  /\ job = [to |-> to, lines |-> lines, of |-> evs]
  /\ to \in DOMAIN files /\ files[to] \o lines = Whole(VersionOf(to), evs)
  /\ to = "backup" => evs \in backed_up
Working ==
  \/ job = Snapshots!NoJob
  \/ \E to \in {"tmp", "backup"}, lines \in Seq(Kept), evs \in Seq(StorageEvent) : InWork(to, lines, evs)

BackupLeft == "backup" \in DOMAIN files => \E evs \in backed_up : LeftOf(files["backup"], evs)
BackupWhole ==
  crashes = 0 /\ "backup" \in DOMAIN files /\ job.to # "backup" =>
    \E evs \in Seq(StorageEvent) : files["backup"] = Whole("BACKUP-V1", evs)

SnapshotInv == SnapshotTypeOK /\ Placed /\ Working /\ BackupLeft /\ BackupWhole

LEMMA SnapshotInvRestores == SnapshotInv => SnapshotsRestoreWhole
  <1> SUFFICES ASSUME SnapshotInv PROVE Snapshots!SnapshotsRestoreWhole
    BY DEF SnapshotsRestoreWhole
  <1>1. Snapshots!Restore("snapshot") = published
    <2>1. CASE published = {} /\ "snapshot" \notin DOMAIN files
      BY <2>1 DEF Snapshots!Restore
    <2>2. CASE \E evs \in Seq(StorageEvent), v \in {"SNAPSHOT-V1", "SNAPSHOT-V2"} :
                 published = {evs} /\ "snapshot" \in DOMAIN files /\ files["snapshot"] = Whole(v, evs)
      BY <2>2, SnapshotRestores
    <2> QED BY <2>1, <2>2 DEF SnapshotInv, Placed
  <1>2. Snapshots!Restore("backup") \subseteq backed_up
    <2>1. CASE "backup" \notin DOMAIN files
      BY <2>1 DEF Snapshots!Restore
    <2>2. CASE "backup" \in DOMAIN files
      <3>1. PICK evs \in backed_up : LeftOf(files["backup"], evs)
        BY <2>2 DEF SnapshotInv, BackupLeft
      <3>2. evs \in Seq(StorageEvent) /\ files["backup"] \in Seq(Kept)
        BY <2>2 DEF SnapshotInv, SnapshotTypeOK
      <3>3. Snapshots!ReadCurrent(files["backup"]) \subseteq {evs}
        BY <3>1, <3>2, LeftIsRefused
      <3>4. Snapshots!Restore("backup") \subseteq Snapshots!ReadCurrent(files["backup"])
        BY <2>2 DEF Snapshots!Restore
      <3> QED BY <3>3, <3>4
    <2> QED BY <2>1, <2>2
  <1>3. ASSUME job = Snapshots!NoJob, crashes = 0, "backup" \in DOMAIN files
        PROVE  Snapshots!Restore("backup") # {}
    <2>1. job.to # "backup"
      BY <1>3 DEF Snapshots!NoJob
    <2>2. PICK evs \in Seq(StorageEvent) : files["backup"] = Whole("BACKUP-V1", evs)
      BY <1>3, <2>1 DEF SnapshotInv, BackupWhole
    <2>3. Snapshots!Restore("backup") = {evs}
      BY <1>3, <2>2, BackupRestores
    <2> QED BY <2>3
  <1> QED BY <1>1, <1>2, <1>3 DEF Snapshots!SnapshotsRestoreWhole

LEMMA Putting ==
  ASSUME NEW name, NEW lines, files' = Snapshots!Put(name, lines)
  PROVE  /\ DOMAIN files' = DOMAIN files \cup {name} /\ files'[name] = lines
         /\ \A n \in DOMAIN files \ {name} : files'[n] = files[n]
  BY DEF Snapshots!Put

\* Writing beside the snapshot's place leaves that place as it is.
LEMMA PlacedStays ==
  ASSUME SnapshotInv, NEW name \in {"tmp", "backup"}, NEW lines,
         files' = Snapshots!Put(name, lines), published' = published
  PROVE  Placed'
  <1>1. /\ "snapshot" \in DOMAIN files' <=> "snapshot" \in DOMAIN files
        /\ "snapshot" \in DOMAIN files => files'["snapshot"] = files["snapshot"]
    <2>1. /\ DOMAIN files' = DOMAIN files \cup {name}
          /\ \A n \in DOMAIN files \ {name} : files'[n] = files[n]
      BY Putting, Zenon
    <2> QED BY <2>1
  <1> QED BY <1>1 DEF SnapshotInv, Placed

\* And a backup is as it was when another file is written.
LEMMA BackupStays ==
  ASSUME SnapshotInv, NEW lines, files' = Snapshots!Put("tmp", lines),
         backed_up' = backed_up, job.to # "backup", crashes' \in {crashes, crashes + 1}
  PROVE  BackupLeft' /\ BackupWhole'
  <1>1. /\ "backup" \in DOMAIN files' <=> "backup" \in DOMAIN files
        /\ "backup" \in DOMAIN files => files'["backup"] = files["backup"]
    <2>1. /\ DOMAIN files' = DOMAIN files \cup {"tmp"}
          /\ \A n \in DOMAIN files \ {"tmp"} : files'[n] = files[n]
      BY Putting, Zenon
    <2> QED BY <2>1
  <1>2. crashes' = 0 => crashes = 0
    BY DEF SnapshotInv, SnapshotTypeOK
  <1>3. BackupLeft'
    BY <1>1 DEF SnapshotInv, BackupLeft
  <1>4. BackupWhole'
    BY <1>1, <1>2 DEF SnapshotInv, BackupWhole
  <1> QED BY <1>3, <1>4

LEMMA PutIsKept ==
  ASSUME SnapshotTypeOK, NEW name, NEW lines \in Seq(Kept), files' = Snapshots!Put(name, lines),
         events' = events, backed_up' \in SUBSET Seq(StorageEvent), crashes' \in Nat
  PROVE  SnapshotTypeOK'
  <1>1. /\ DOMAIN files' = DOMAIN files \cup {name} /\ files'[name] = lines
        /\ \A n \in DOMAIN files \ {name} : files'[n] = files[n]
    BY Putting, Zenon
  <1>2. \A n \in DOMAIN files' : files'[n] \in Seq(Kept)
    BY <1>1 DEF SnapshotTypeOK
  <1> QED BY <1>2 DEF SnapshotTypeOK

\* A file that is begun is all still to write.
LEMMA JobBegins ==
  ASSUME SnapshotInv, NEW to \in {"tmp", "backup"}, files' = Snapshots!Put(to, <<>>),
         job' = [to |-> to, lines |-> Whole(VersionOf(to), events), of |-> events],
         to = "backup" => events \in backed_up'
  PROVE  Working'
  <1>1. events \in Seq(StorageEvent) /\ VersionOf(to) \in Current
    BY DEF SnapshotInv, SnapshotTypeOK, VersionOf, Current
  <1>2. PICK whole \in Seq(Line) : whole = Whole(VersionOf(to), events)
    BY <1>1, WholeHasManifest
  <1>3. to \in DOMAIN files' /\ files'[to] = <<>>
    BY Putting
  <1>4. whole \in Seq(Kept) /\ <<>> \o whole = whole
    BY LinesAreKept
  <1>5. PICK evs \in Seq(StorageEvent) : evs = events
    BY <1>1
  <1>6. InWork(to, whole, evs)'
    BY <1>2, <1>3, <1>4, <1>5 DEF InWork
  <1> QED BY <1>4, <1>6 DEF Working

LEMMA AtomicKeeps == ASSUME SnapshotInv, Snapshots!WriteAtomic PROVE SnapshotInv'
  <1>1. /\ job = Snapshots!NoJob /\ files' = Snapshots!Put("tmp", <<>>)
        /\ job' = [to |-> "tmp", lines |-> Whole("SNAPSHOT-V2", events), of |-> events]
        /\ UNCHANGED <<events, published, backed_up, crashes>>
    BY DEF Snapshots!WriteAtomic, Whole
  <1>2. job.to # "backup"
    BY <1>1 DEF Snapshots!NoJob
  <1>3. SnapshotTypeOK'
    <2>1. <<>> \in Seq(Kept)
      OBVIOUS
    <2>2. SnapshotTypeOK /\ events \in Seq(StorageEvent) /\ crashes \in Nat /\ backed_up' \in SUBSET Seq(StorageEvent)
      BY <1>1 DEF SnapshotInv, SnapshotTypeOK
    <2> QED BY <1>1, <2>1, <2>2, PutIsKept
  <1>4. Placed'
    BY <1>1, PlacedStays
  <1>5. BackupLeft' /\ BackupWhole'
    BY <1>1, <1>2, BackupStays
  <1>6. Working'
    BY <1>1, JobBegins DEF VersionOf
  <1> QED BY <1>3, <1>4, <1>5, <1>6 DEF SnapshotInv

LEMMA BackupKeeps == ASSUME SnapshotInv, Snapshots!BackupWrite PROVE SnapshotInv'
  <1>1. /\ job = Snapshots!NoJob /\ files' = Snapshots!Put("backup", <<>>)
        /\ job' = [to |-> "backup", lines |-> Whole("BACKUP-V1", events), of |-> events]
        /\ backed_up' = backed_up \cup {events}
        /\ UNCHANGED <<events, published, crashes>>
    BY DEF Snapshots!BackupWrite, Whole
  <1>2. SnapshotTypeOK'
    <2>1. <<>> \in Seq(Kept)
      OBVIOUS
    <2>2. SnapshotTypeOK /\ events \in Seq(StorageEvent) /\ crashes \in Nat /\ backed_up' \in SUBSET Seq(StorageEvent)
      BY <1>1 DEF SnapshotInv, SnapshotTypeOK
    <2> QED BY <1>1, <2>1, <2>2, PutIsKept
  <1>3. Placed'
    BY <1>1, PlacedStays
  <1>4. Working'
    BY <1>1, JobBegins DEF VersionOf
  <1>5. BackupLeft'
    <2>1. files'["backup"] = <<>>
      BY <1>1, Putting
    <2>2. events \in backed_up'
      BY <1>1
    <2>3. LeftOf(<<>>, events)
      BY DEF LeftOf
    <2> QED BY <2>1, <2>2, <2>3 DEF BackupLeft
  <1>6. BackupWhole'
    BY <1>1 DEF BackupWhole
  <1> QED BY <1>2, <1>3, <1>4, <1>5, <1>6 DEF SnapshotInv

LEMMA LineKeeps == ASSUME SnapshotInv, Snapshots!WriteLine PROVE SnapshotInv'
  <1>1. /\ job.lines # <<>>
        /\ files' = Snapshots!Put(job.to, Append(files[job.to], Head(job.lines)))
        /\ job' = [job EXCEPT !.lines = Tail(@)]
        /\ UNCHANGED <<events, published, backed_up, crashes>>
    BY DEF Snapshots!WriteLine
  <1>2. PICK to \in {"tmp", "backup"}, lines \in Seq(Kept), evs \in Seq(StorageEvent) : InWork(to, lines, evs)
    BY <1>1 DEF SnapshotInv, Working, Snapshots!NoJob
  <1>3. job.to = to /\ job.lines = lines /\ job.of = evs /\ to \in DOMAIN files
    BY <1>2 DEF InWork
  <1>4. files[to] \in Seq(Kept)
    BY <1>3 DEF SnapshotInv, SnapshotTypeOK
  <1> DEFINE grown == Append(files[to], Head(lines))
  <1>5. grown \in Seq(Kept) /\ Tail(lines) \in Seq(Kept) /\ grown \o Tail(lines) = files[to] \o lines
    BY <1>1, <1>3, <1>4, MovesOne
  <1>6. files' = Snapshots!Put(to, grown)
    BY <1>1, <1>3
  <1>7. job' = [to |-> to, lines |-> Tail(lines), of |-> evs]
    BY <1>1, <1>2 DEF InWork
  <1>8. PICK file \in Seq(Kept) : file = grown
    BY <1>5
  <1> HIDE DEF grown
  <1>9. to \in DOMAIN files' /\ files'[to] = file
    BY <1>6, <1>8, Putting
  <1>10. PICK rest \in Seq(Kept) : rest = Tail(lines)
    BY <1>5
  <1>11. file \o rest = Whole(VersionOf(to), evs) /\ (to = "backup" => evs \in backed_up)
    BY <1>2, <1>5, <1>8, <1>10 DEF InWork
  <1>12. SnapshotTypeOK'
    BY <1>1, <1>6, <1>8, PutIsKept DEF SnapshotInv, SnapshotTypeOK
  <1>13. Placed'
    BY <1>1, <1>6, PlacedStays
  <1>14. InWork(to, rest, evs)'
    BY <1>1, <1>7, <1>9, <1>10, <1>11 DEF InWork
  <1>15. Working'
    BY <1>14 DEF Working
  <1>16. CASE to = "tmp"
    BY <1>1, <1>3, <1>6, <1>16, <1>12, <1>13, <1>15, BackupStays DEF SnapshotInv
  <1>17. CASE to = "backup"
    <2>1. LeftOf(file, evs)
      BY <1>11, PrefixIsLeft DEF VersionOf, Current
    <2>2. BackupLeft'
      BY <1>1, <1>9, <1>11, <1>17, <2>1 DEF BackupLeft
    <2>3. BackupWhole'
      BY <1>7, <1>17 DEF BackupWhole
    <2> QED BY <1>12, <1>13, <1>15, <2>2, <2>3 DEF SnapshotInv
  <1> QED BY <1>16, <1>17

LEMMA CrashKeeps == ASSUME SnapshotInv, Snapshots!Crash PROVE SnapshotInv'
  <1>1. PICK to \in {"tmp", "backup"}, lines \in Seq(Kept), evs \in Seq(StorageEvent) : InWork(to, lines, evs)
    BY DEF SnapshotInv, Working, Snapshots!Crash
  <1>2. job.to = to /\ job.lines = lines /\ job.of = evs /\ to \in DOMAIN files
    BY <1>1 DEF InWork
  <1>3. files[to] \in Seq(Kept)
    BY <1>2 DEF SnapshotInv, SnapshotTypeOK
  <1>4. VersionOf(to) \in Current
    BY DEF VersionOf, Current
  <1> DEFINE all == Whole(VersionOf(to), evs)
  <1>5. all = files[to] \o lines /\ (to = "backup" => evs \in backed_up)
    BY <1>1 DEF InWork
  <1>6. PICK n \in 0..Len(files[to]) :
          \E rest \in IF n < Len(all) THEN Snapshots!Remains(all[n + 1]) ELSE {<<>>} :
            files' = Snapshots!Put(to, SubSeq(all, 1, n) \o rest)
    BY <1>2, <1>5 DEF Snapshots!Crash
  <1>7. PICK rest \in IF n < Len(all) THEN Snapshots!Remains(all[n + 1]) ELSE {<<>>} :
          files' = Snapshots!Put(to, SubSeq(all, 1, n) \o rest)
    BY <1>6
  <1>8. n \in Nat /\ n <= Len(all)
    BY <1>3, <1>5
  <1>9. /\ SubSeq(all, 1, n) \o rest \in Seq(Kept)
        /\ LeftOf(SubSeq(all, 1, n) \o rest, evs)
    BY <1>4, <1>8, CrashLeaves
  <1>10. PICK left \in Seq(Kept) : left = SubSeq(all, 1, n) \o rest
    BY <1>9
  <1> HIDE DEF all
  <1>11. files' = Snapshots!Put(to, left) /\ LeftOf(left, evs)
    BY <1>7, <1>9, <1>10
  <1>12. /\ job' = Snapshots!NoJob /\ crashes' = crashes + 1
         /\ UNCHANGED <<events, published, backed_up>>
    BY DEF Snapshots!Crash
  <1>13. crashes' \in Nat /\ crashes' # 0
    BY <1>12 DEF SnapshotInv, SnapshotTypeOK
  <1>14. SnapshotTypeOK'
    BY <1>11, <1>12, <1>13, PutIsKept DEF SnapshotInv, SnapshotTypeOK
  <1>15. Placed'
    BY <1>11, <1>12, PlacedStays
  <1>16. Working' /\ BackupWhole'
    BY <1>12, <1>13 DEF Working, BackupWhole, Snapshots!NoJob
  <1>17. BackupLeft'
    <2>1. CASE to = "tmp"
      BY <1>2, <1>11, <1>12, <2>1, BackupStays
    <2>2. CASE to = "backup"
      <3>1. files'["backup"] = left
        BY <1>11, <2>2, Putting
      <3> QED BY <1>5, <1>11, <1>12, <2>2, <3>1 DEF BackupLeft
    <2> QED BY <2>1, <2>2
  <1> QED BY <1>14, <1>15, <1>16, <1>17 DEF SnapshotInv

LEMMA RenameKeeps == ASSUME SnapshotInv, Snapshots!Rename PROVE SnapshotInv'
  <1>1. /\ job.to = "tmp" /\ job.lines = <<>>
        /\ files' = [n \in (DOMAIN files \cup {"snapshot"}) \ {"tmp"} |->
                       IF n = "snapshot" THEN files["tmp"] ELSE files[n]]
        /\ published' = {job.of} /\ job' = Snapshots!NoJob
        /\ UNCHANGED <<events, backed_up, crashes>>
    BY DEF Snapshots!Rename
  <1>2. PICK to \in {"tmp", "backup"}, lines \in Seq(Kept), evs \in Seq(StorageEvent) : InWork(to, lines, evs)
    BY <1>1 DEF SnapshotInv, Working, Snapshots!NoJob
  <1>3. /\ job.of = evs /\ "tmp" \in DOMAIN files
        /\ files["tmp"] \o <<>> = Whole("SNAPSHOT-V2", evs)
    BY <1>1, <1>2 DEF InWork, VersionOf
  <1>4. files["tmp"] \in Seq(Kept) /\ files["tmp"] \o <<>> = files["tmp"]
    BY <1>3, Joining DEF SnapshotInv, SnapshotTypeOK
  <1>5. /\ DOMAIN files' = (DOMAIN files \cup {"snapshot"}) \ {"tmp"}
        /\ files'["snapshot"] = files["tmp"]
        /\ \A n \in DOMAIN files \ {"tmp", "snapshot"} : files'[n] = files[n]
    BY <1>1
  <1>6. SnapshotTypeOK'
    <2>1. \A n \in DOMAIN files' : files'[n] \in Seq(Kept)
      BY <1>4, <1>5 DEF SnapshotInv, SnapshotTypeOK
    <2> QED BY <1>1, <2>1 DEF SnapshotInv, SnapshotTypeOK
  <1>7. Placed'
    BY <1>1, <1>3, <1>4, <1>5 DEF Placed
  <1>8. Working'
    BY <1>1 DEF Working
  <1>9. /\ "backup" \in DOMAIN files' <=> "backup" \in DOMAIN files
        /\ "backup" \in DOMAIN files => files'["backup"] = files["backup"]
    BY <1>5
  <1>10. BackupLeft'
    BY <1>1, <1>9 DEF SnapshotInv, BackupLeft
  <1>11. BackupWhole'
    BY <1>1, <1>9 DEF SnapshotInv, BackupWhole
  <1> QED BY <1>6, <1>7, <1>8, <1>10, <1>11 DEF SnapshotInv

LEMMA SyncKeeps == ASSUME SnapshotInv, Snapshots!SyncBackup PROVE SnapshotInv'
  <1>1. /\ job.to \in {"backup", "snapshot"} /\ job.lines = <<>> /\ job' = Snapshots!NoJob
        /\ UNCHANGED <<events, files, published, backed_up, crashes>>
    BY DEF Snapshots!SyncBackup
  <1>2. PICK to \in {"tmp", "backup"}, lines \in Seq(Kept), evs \in Seq(StorageEvent) : InWork(to, lines, evs)
    BY <1>1 DEF SnapshotInv, Working, Snapshots!NoJob
  <1>3. /\ "backup" \in DOMAIN files
        /\ files["backup"] \o <<>> = Whole("BACKUP-V1", evs)
    BY <1>1, <1>2 DEF InWork, VersionOf
  <1>4. files["backup"] \o <<>> = files["backup"]
    BY <1>3, Joining DEF SnapshotInv, SnapshotTypeOK
  <1>5. SnapshotTypeOK' /\ Placed' /\ BackupLeft'
    BY <1>1 DEF SnapshotInv, SnapshotTypeOK, Placed, BackupLeft
  <1>6. Working'
    BY <1>1 DEF Working
  <1>7. BackupWhole'
    BY <1>1, <1>3, <1>4 DEF BackupWhole
  <1> QED BY <1>5, <1>6, <1>7 DEF SnapshotInv

LEMMA SnapshotInvInit == Snapshots!SnapshotInit => SnapshotInv
  <1> SUFFICES ASSUME Snapshots!SnapshotInit PROVE SnapshotInv
    OBVIOUS
  <1>1. job = Snapshots!NoJob /\ backed_up = {} /\ crashes = 0
    BY DEF Snapshots!SnapshotInit
  <1>2. Working
    BY <1>1 DEF Working
  <1>3. CASE events = <<>> /\ files = [n \in {} |-> <<>>] /\ published = {}
    <2>1. DOMAIN files = {} /\ events \in Seq(StorageEvent)
      BY <1>3
    <2>2. SnapshotTypeOK
      BY <1>1, <2>1 DEF SnapshotTypeOK
    <2> QED BY <1>2, <1>3, <2>1, <2>2 DEF SnapshotInv, Placed, BackupLeft, BackupWhole
  <1>4. ASSUME NEW e \in StorageEvent, events = <<e>>, published = {<<e>>},
               files = [n \in {"snapshot"} |-> Snapshots!Lines("SNAPSHOT-V1", <<e>>)]
        PROVE  SnapshotInv
    <2>1. PICK evs \in Seq(StorageEvent) : evs = <<e>>
      BY <1>4, Alone
    <2>2. DOMAIN files = {"snapshot"} /\ files["snapshot"] = Whole("SNAPSHOT-V1", evs)
      BY <1>4, <2>1 DEF Whole
    <2>3. files["snapshot"] \in Seq(Kept)
      BY <2>2, EarlierHasNone, LinesAreKept
    <2>4. SnapshotTypeOK
      BY <1>1, <1>4, <2>1, <2>2, <2>3 DEF SnapshotTypeOK
    <2>5. Placed
      BY <1>4, <2>1, <2>2 DEF Placed
    <2>6. BackupLeft /\ BackupWhole
      BY <2>2 DEF BackupLeft, BackupWhole
    <2> QED BY <1>2, <2>4, <2>5, <2>6 DEF SnapshotInv
  <1> QED BY <1>3, <1>4 DEF Snapshots!SnapshotInit

LEMMA SnapshotInvariant == SnapshotSpec => []SnapshotInv
  <1>1. ASSUME SnapshotInv, [Snapshots!SnapshotNext]_Snapshots!snapshotVars PROVE SnapshotInv'
    <2>1. ASSUME NEW e \in StorageEvent, Snapshots!AppendEvent(e) PROVE SnapshotInv'
      <3>1. events \in Seq(StorageEvent) /\ events' = Append(events, e)
        BY <1>1, <2>1 DEF SnapshotInv, SnapshotTypeOK, Snapshots!AppendEvent
      <3>2. events' \in Seq(StorageEvent) /\ UNCHANGED <<files, job, published, backed_up, crashes>>
        BY <2>1, <3>1 DEF Snapshots!AppendEvent
      <3> QED BY <1>1, <3>2
           DEF SnapshotInv, SnapshotTypeOK, Placed, Working, InWork, BackupLeft, BackupWhole
    <2>2. CASE UNCHANGED Snapshots!snapshotVars
      BY <1>1, <2>2 DEF Snapshots!snapshotVars, SnapshotInv, SnapshotTypeOK, Placed, Working,
                        InWork, BackupLeft, BackupWhole
    <2> QED BY <1>1, <2>1, <2>2, AtomicKeeps, BackupKeeps, LineKeeps, RenameKeeps, SyncKeeps, CrashKeeps
         DEF Snapshots!SnapshotNext
  <1> QED BY <1>1, SnapshotInvInit, PTL DEF SnapshotSpec

(***************************************************************************)
(* Whatever crashes while a snapshot or a backup is written, the snapshot's*)
(* place restores exactly the storage that was published, of the version   *)
(* with a manifest or of the one before it, and no backup restores in part,*)
(* for every set of events (write_atomic, SnapshotReader::read,            *)
(* BackupWriter, BackupReader).                                            *)
(***************************************************************************)
THEOREM SnapshotsAlwaysRestore == SnapshotSpec => []SnapshotsRestoreWhole
  BY SnapshotInvariant, SnapshotInvRestores, PTL

-----------------------------------------------------------------------------
(***************************************************************************)
(* The agent memory.  First what it is to apply events one after another:  *)
(* the rounds of the recursion exist, and whatever does as they say ends   *)
(* where they end.                                                         *)
(***************************************************************************)
(* A set of naturals that is not empty has a least element.                *)
LEMMA LeastNumber ==
  ASSUME NEW S \in SUBSET Nat, NEW n \in S
  PROVE  \E m \in S : \A k \in S : m <= k
<1> DEFINE Below == {p \in Nat \X Nat : p[1] < p[2]}
<1>1. IsWellFoundedOn(Below, Nat)
  BY NatLessThanWellFounded DEF OpToRel
<1>2. PICK m \in S : \A k \in S : ~ (<<k, m>> \in Below)
  <2> HIDE DEF Below
  <2> QED BY <1>1, WFMin, Zenon
<1>3. \A k \in S : m <= k
  <2> SUFFICES ASSUME NEW k \in S, ~(m <= k) PROVE FALSE
    OBVIOUS
  <2>1. k \in Nat /\ m \in Nat /\ k < m
    OBVIOUS
  <2>2. <<k, m>> \in Below
    BY <2>1
  <2> QED BY <1>2, <2>2
<1> QED BY <1>3

(* A set with 0 and the successor of each of its members is all of Nat.    *)
LEMMA InductionOnSets ==
  ASSUME NEW S \in SUBSET Nat, 0 \in S, \A n \in S : n + 1 \in S
  PROVE  S = Nat
<1> SUFFICES ASSUME NEW x \in Nat, x \notin S PROVE FALSE
  OBVIOUS
<1> DEFINE Rest == Nat \ S
<1>1. x \in Rest /\ Rest \in SUBSET Nat
  OBVIOUS
<1>2. PICK m \in Rest : \A k \in Rest : m <= k
  <2> HIDE DEF Rest
  <2> QED BY <1>1, LeastNumber
<1>3. m \in Nat /\ m # 0 /\ m - 1 \in Nat
  BY <1>2
<1>4. m - 1 \in S
  BY <1>2, <1>3
<1>5. (m - 1) + 1 \in S
  BY <1>4
<1> QED BY <1>2, <1>3, <1>5

(* The first k rounds of applying events to s.                             *)
RoundsTo(f, s, happened, k) ==
  f[0] = s /\ \A n \in Nat : n < k => f[n + 1] = Memory!ApplyMemory(f[n], happened[n + 1])

(* All the rounds. *)
Rounds(f, s, happened) ==
  f[0] = s /\ \A n \in Nat : f[n + 1] = Memory!ApplyMemory(f[n], happened[n + 1])

LEMMA RoundsAgree ==
  ASSUME NEW s, NEW happened, NEW f, NEW g, NEW k \in Nat, NEW m \in Nat, k <= m,
         RoundsTo(f, s, happened, k), RoundsTo(g, s, happened, m)
  PROVE  f[k] = g[k]
  <1> DEFINE S == {n \in Nat : n <= k => f[n] = g[n]}
  <1>1. 0 \in S
    BY DEF RoundsTo
  <1>2. ASSUME NEW n \in S PROVE n + 1 \in S
    <2> SUFFICES ASSUME n + 1 <= k PROVE f[n + 1] = g[n + 1]
      OBVIOUS
    <2>1. n \in Nat /\ n < k /\ n < m /\ f[n] = g[n]
      OBVIOUS
    <2> QED BY <2>1 DEF RoundsTo
  <1>3. S = Nat
    <2>1. S \in SUBSET Nat
      OBVIOUS
    <2> HIDE DEF S
    <2> QED BY <1>1, <1>2, <2>1, InductionOnSets
  <1> QED BY <1>3

LEMMA RoundsExist ==
  ASSUME NEW s, NEW happened
  PROVE  \E f : Rounds(f, s, happened)
  <1> DEFINE S == {k \in Nat : \E f : RoundsTo(f, s, happened, k)}
  <1>1. 0 \in S
    <2>1. RoundsTo([n \in Nat |-> s], s, happened, 0)
      BY DEF RoundsTo
    <2> QED BY <2>1
  <1>2. ASSUME NEW k \in S PROVE k + 1 \in S
    <2>1. PICK f : RoundsTo(f, s, happened, k)
      OBVIOUS
    <2> DEFINE next == Memory!ApplyMemory(f[k], happened[k + 1])
               g == [n \in Nat |-> IF n = k + 1 THEN next ELSE f[n]]
    <2>2. g[0] = s
      BY <2>1 DEF RoundsTo
    <2>3. ASSUME NEW n \in Nat, n < k + 1 PROVE g[n + 1] = Memory!ApplyMemory(g[n], happened[n + 1])
      <3>1. g[n] = f[n]
        BY <2>3
      <3>2. CASE n = k
        BY <3>1, <3>2
      <3>3. CASE n < k
        <4>1. f[n + 1] = Memory!ApplyMemory(f[n], happened[n + 1])
          BY <2>1, <3>3, Zenon DEF RoundsTo
        <4>2. g[n + 1] = f[n + 1]
          BY <3>3
        <4> QED BY <3>1, <4>1, <4>2
      <3> QED BY <2>3, <3>2, <3>3
    <2>4. RoundsTo(g, s, happened, k + 1)
      <3> HIDE DEF g
      <3> QED BY <2>2, <2>3 DEF RoundsTo
    <2> QED BY <2>4
  <1>3. S = Nat
    <2>1. S \in SUBSET Nat
      OBVIOUS
    <2> HIDE DEF S
    <2> QED BY <1>1, <1>2, <2>1, InductionOnSets
  <1> DEFINE part(k) == CHOOSE f : RoundsTo(f, s, happened, k)
             all == [k \in Nat |-> part(k)[k]]
  <1>4. ASSUME NEW k \in Nat PROVE RoundsTo(part(k), s, happened, k)
    <2>1. \E f : RoundsTo(f, s, happened, k)
      BY <1>3
    <2> QED BY <2>1
  <1> HIDE DEF part, S
  <1>5. all[0] = s
    BY <1>4 DEF RoundsTo
  <1>6. ASSUME NEW n \in Nat PROVE all[n + 1] = Memory!ApplyMemory(all[n], happened[n + 1])
    <2>1. part(n + 1)[n + 1] = Memory!ApplyMemory(part(n + 1)[n], happened[n + 1])
      BY <1>4 DEF RoundsTo
    <2>2. part(n)[n] = part(n + 1)[n]
      <3>1. PICK m \in Nat : m = n + 1
        OBVIOUS
      <3>2. PICK f, g : f = part(n) /\ g = part(m)
        OBVIOUS
      <3>3. RoundsTo(f, s, happened, n) /\ RoundsTo(g, s, happened, m) /\ n <= m
        BY <1>4, <3>1, <3>2
      <3>4. f[n] = g[n]
        BY <3>3, RoundsAgree
      <3> QED BY <3>1, <3>2, <3>4
    <2> QED BY <2>1, <2>2
  <1> HIDE DEF all
  <1> QED BY <1>5, <1>6 DEF Rounds

IsRounds(f, s, happened) ==
  f = [n \in Nat |-> IF n = 0 THEN s ELSE Memory!ApplyMemory(f[n - 1], happened[n])]

LEMMA AppliedRounds ==
  ASSUME NEW s, NEW happened
  PROVE  \E f : Rounds(f, s, happened) /\ Memory!Applied(s, happened) = f[Len(happened)]
  <1>1. PICK f : Rounds(f, s, happened)
    BY RoundsExist, Zenon
  <1> DEFINE g == [n \in Nat |-> f[n]]
             H(h, n) == IF n = 0 THEN s ELSE Memory!ApplyMemory(h[n - 1], happened[n])
  <1>2. ASSUME NEW n \in Nat PROVE g[n] = H(g, n)
    <2>1. CASE n = 0
      BY <1>1, <2>1 DEF Rounds
    <2>2. CASE n # 0
      <3>1. n - 1 \in Nat /\ (n - 1) + 1 = n
        BY <2>2
      <3>2. f[n] = Memory!ApplyMemory(f[n - 1], happened[n])
        BY <1>1, <3>1 DEF Rounds
      <3> QED BY <2>2, <3>1, <3>2
    <2> QED BY <2>1, <2>2
  <1>3. g = [n \in Nat |-> g[n]]
    OBVIOUS
  <1>4. IsRounds(g, s, happened)
    <2>1. g = [n \in Nat |-> H(g, n)]
      <3> HIDE DEF g, H
      <3> QED BY <1>2, <1>3
    <2> HIDE DEF g
    <2> QED BY <2>1 DEF IsRounds
  <1> HIDE DEF g, H
  <1> DEFINE chosen == CHOOSE h : IsRounds(h, s, happened)
  <1>5. IsRounds(chosen, s, happened)
    BY <1>4
  <1>6. Memory!Applied(s, happened) = chosen[Len(happened)]
    BY DEF Memory!Applied, IsRounds
  <1> HIDE DEF chosen
  <1>7. chosen[0] = s
    BY <1>5 DEF IsRounds
  <1>8. ASSUME NEW n \in Nat PROVE chosen[n + 1] = Memory!ApplyMemory(chosen[n], happened[n + 1])
    BY <1>5 DEF IsRounds
  <1> QED BY <1>6, <1>7, <1>8, Zenon DEF Rounds

(* What does as the rounds say ends where the events are applied.          *)
LEMMA AppliedIs ==
  ASSUME NEW s, NEW happened, Len(happened) \in Nat, NEW f, RoundsTo(f, s, happened, Len(happened))
  PROVE  Memory!Applied(s, happened) = f[Len(happened)]
  <1>1. PICK g : Rounds(g, s, happened) /\ Memory!Applied(s, happened) = g[Len(happened)]
    BY AppliedRounds, Zenon
  <1>2. RoundsTo(g, s, happened, Len(happened))
    BY <1>1, Zenon DEF RoundsTo, Rounds
  <1> QED BY <1>1, <1>2, RoundsAgree

LEMMA AppliedNone ==
  ASSUME NEW s PROVE Memory!Applied(s, <<>>) = s
  <1> DEFINE f == [n \in Nat |-> s]
  <1>1. f[0] = s /\ Len(<<>>) = 0
    OBVIOUS
  <1> HIDE DEF f
  <1>2. RoundsTo(f, s, <<>>, Len(<<>>))
    BY <1>1 DEF RoundsTo
  <1> QED BY <1>1, <1>2, AppliedIs

LEMMA AppliedOne ==
  ASSUME NEW s, NEW e PROVE Memory!Applied(s, <<e>>) = Memory!ApplyMemory(s, e)
  <1> DEFINE f == [n \in Nat |-> IF n = 0 THEN s ELSE Memory!ApplyMemory(s, e)]
  <1>1. f[0] = s /\ f[1] = Memory!ApplyMemory(s, e) /\ Len(<<e>>) = 1 /\ <<e>>[1] = e
    OBVIOUS
  <1> HIDE DEF f
  <1>2. ASSUME NEW n \in Nat, n < 1 PROVE f[n + 1] = Memory!ApplyMemory(f[n], <<e>>[n + 1])
    <2>1. n = 0
      BY <1>2
    <2> QED BY <1>1, <2>1
  <1>3. RoundsTo(f, s, <<e>>, Len(<<e>>))
    BY <1>1, <1>2 DEF RoundsTo
  <1>4. Len(<<e>>) \in Nat
    BY <1>1
  <1> QED BY <1>1, <1>3, <1>4, AppliedIs

(* One sequence after the other.                                           *)
LEMMA AppliedJoined ==
  ASSUME NEW S, NEW a \in Seq(S), NEW b \in Seq(S), NEW s
  PROVE  Memory!Applied(s, a \o b) = Memory!Applied(Memory!Applied(s, a), b)
  <1> DEFINE all == a \o b
             k == Len(a)
             m == Len(b)
  <1>1. /\ k \in Nat /\ m \in Nat /\ Len(all) = k + m
        /\ \A i \in 1..k : all[i] = a[i]
        /\ \A i \in 1..m : all[k + i] = b[i]
    OBVIOUS
  <1> HIDE DEF all
  <1>2. PICK f : Rounds(f, s, all) /\ Memory!Applied(s, all) = f[Len(all)]
    BY AppliedRounds, Zenon
  <1>3. RoundsTo(f, s, a, k)
    <2>1. f[0] = s
      BY <1>2 DEF Rounds
    <2>2. ASSUME NEW n \in Nat, n < k PROVE f[n + 1] = Memory!ApplyMemory(f[n], a[n + 1])
      <3>1. all[n + 1] = a[n + 1]
        <4>1. n + 1 \in 1..k
          BY <1>1, <2>2
        <4> QED BY <4>1, <1>1, Zenon
      <3>2. f[n + 1] = Memory!ApplyMemory(f[n], all[n + 1])
        BY <1>2, Zenon DEF Rounds
      <3> QED BY <3>1, <3>2
    <2> HIDE DEF k
    <2> QED BY <2>1, <2>2, Zenon DEF RoundsTo
  <1>4. Memory!Applied(s, a) = f[k]
    BY <1>1, <1>3, AppliedIs
  <1> DEFINE g == [n \in Nat |-> f[k + n]]
  <1>5. g[0] = f[k] /\ g[m] = f[k + m]
    BY <1>1
  <1>6. RoundsTo(g, f[k], b, m)
    <2>1. ASSUME NEW n \in Nat, n < m PROVE g[n + 1] = Memory!ApplyMemory(g[n], b[n + 1])
      <3>1. all[(k + n) + 1] = b[n + 1]
        BY <1>1, <2>1
      <3>2. k + n \in Nat
        BY <1>1
      <3>3. f[(k + n) + 1] = Memory!ApplyMemory(f[k + n], all[(k + n) + 1])
        BY <1>2, <3>2, Zenon DEF Rounds
      <3>4. g[n + 1] = f[(k + n) + 1] /\ g[n] = f[k + n]
        BY <1>1
      <3> HIDE DEF g
      <3> QED BY <3>1, <3>3, <3>4
    <2> HIDE DEF g, m
    <2> QED BY <1>5, <2>1, Zenon DEF RoundsTo
  <1> HIDE DEF g
  <1>7. Memory!Applied(f[k], b) = g[m]
    BY <1>1, <1>6, AppliedIs
  <1>8. Memory!Applied(s, all) = g[m]
    BY <1>1, <1>2, <1>5
  <1> QED BY <1>4, <1>7, <1>8 DEF all

(***************************************************************************)
(* The type of the service.                                                *)
(***************************************************************************)
LifecycleOf == {w.lifecycle : w \in MemoryWrite} \cup {"Active", "Archived", "Superseded", "Contradicted"}
MemoryRecord ==
  [id : Memory!MemoryId, lifecycle : LifecycleOf, supersedes : SUBSET Memory!MemoryId,
   contradicts : SUBSET Memory!MemoryId, from : SUBSET Memory!MemoryId,
   readers : {w.readers : w \in MemoryWrite}, public : {w.public : w \in MemoryWrite},
   valid : {w.valid : w \in MemoryWrite}, sources : {w.sources : w \in MemoryWrite}, updated_tx : Nat]

MemoryEvent ==
  {[kind |-> "MemoryWritten", record |-> r, tx |-> t] : r \in MemoryRecord, t \in Nat}
    \cup {[kind |-> "MemoryLifecycleChanged", id |-> m, tx |-> t] : m \in Memory!MemoryId, t \in Nat}
    \cup {[kind |-> "MemorySuperseded", id |-> m, by |-> n, tx |-> t] :
            m \in Memory!MemoryId, n \in Memory!MemoryId, t \in Nat}

Link == Memory!MemoryId \X Memory!MemoryId
ServiceOK(s) ==
  /\ s = [memories |-> s.memories, last_tx |-> s.last_tx, superseded_by |-> s.superseded_by,
          contradicted_by |-> s.contradicted_by]
  /\ s.memories \in [DOMAIN s.memories -> MemoryRecord] /\ DOMAIN s.memories \subseteq Memory!MemoryId
  /\ IsFiniteSet(DOMAIN s.memories)
  /\ s.last_tx \in Nat /\ s.superseded_by \subseteq Link /\ s.contradicted_by \subseteq Link

(* What touching memories leaves of them.                                  *)
SameButLifecycle(r, q) ==
  /\ q.supersedes = r.supersedes /\ q.contradicts = r.contradicts /\ q.from = r.from
  /\ q.readers = r.readers /\ q.public = r.public /\ q.valid = r.valid

Marks(memories, ids, status, touched) ==
  /\ touched \in [DOMAIN memories -> MemoryRecord]
  /\ \A m \in DOMAIN memories :
       /\ SameButLifecycle(memories[m], touched[m])
       /\ touched[m].lifecycle = IF m \in ids THEN status ELSE memories[m].lifecycle

LEMMA TouchMarks ==
  ASSUME NEW s, ServiceOK(s), NEW ids, NEW status \in LifecycleOf, NEW tx \in Nat
  PROVE  Marks(s.memories, ids, status, Memory!Touch(s, ids, status, tx))
  <1> DEFINE touched == Memory!Touch(s, ids, status, tx)
  <1>1. ASSUME NEW m \in DOMAIN s.memories
        PROVE  /\ touched[m] \in MemoryRecord
               /\ SameButLifecycle(s.memories[m], touched[m])
               /\ touched[m].lifecycle = IF m \in ids THEN status ELSE s.memories[m].lifecycle
    <2> DEFINE r == s.memories[m]
    <2>1. r \in MemoryRecord
      BY DEF ServiceOK
    <2>2. touched[m] = IF m \in ids THEN [r EXCEPT !.lifecycle = status, !.updated_tx = tx] ELSE r
      BY DEF Memory!Touch
    <2> HIDE DEF r, touched
    <2>3. CASE m \notin ids
      BY <2>1, <2>2, <2>3 DEF SameButLifecycle, r
    <2>4. CASE m \in ids
      <3>1. touched[m] = [id |-> r.id, lifecycle |-> status, supersedes |-> r.supersedes,
              contradicts |-> r.contradicts, from |-> r.from, readers |-> r.readers, public |-> r.public,
              valid |-> r.valid, sources |-> r.sources, updated_tx |-> tx]
        BY <2>1, <2>2, <2>4 DEF MemoryRecord
      <3>2. touched[m] \in MemoryRecord
        BY <2>1, <3>1 DEF MemoryRecord
      <3>3. SameButLifecycle(r, touched[m]) /\ touched[m].lifecycle = status
        BY <3>1 DEF SameButLifecycle
      <3> QED BY <2>4, <3>2, <3>3 DEF r
    <2> QED BY <2>3, <2>4
  <1>2. touched = [m \in DOMAIN s.memories |-> touched[m]]
    BY DEF Memory!Touch
  <1> HIDE DEF touched
  <1>3. touched \in [DOMAIN s.memories -> MemoryRecord]
    BY <1>1, <1>2
  <1> QED BY <1>1, <1>3 DEF touched, Marks

(***************************************************************************)
(* The service after an event that writes no memory: it has the same       *)
(* memories, none of them true again, and the links it had and more.       *)
(***************************************************************************)
Follows(s, t) ==
  /\ DOMAIN t.memories = DOMAIN s.memories
  /\ \A m \in DOMAIN s.memories :
       /\ SameButLifecycle(s.memories[m], t.memories[m])
       /\ Memory!CurrentTruth(t.memories[m]) => Memory!CurrentTruth(s.memories[m])

LEMMA ArchivingMarks ==
  ASSUME NEW s, ServiceOK(s), NEW id \in Memory!MemoryId, NEW tx \in Nat, NEW e,
         e = [kind |-> "MemoryLifecycleChanged", id |-> id, tx |-> tx]
  PROVE  LET t == Memory!ApplyMemory(s, e)
         IN  /\ ServiceOK(t) /\ Follows(s, t)
             /\ t.superseded_by = s.superseded_by /\ t.contradicted_by = s.contradicted_by
             /\ id \in DOMAIN t.memories => ~Memory!CurrentTruth(t.memories[id])
  <1> DEFINE touched == Memory!Touch(s, {id}, "Archived", tx)
             last == IF tx > s.last_tx THEN tx ELSE s.last_tx
             t == Memory!ApplyMemory(s, e)
  <1>1. t = [memories |-> touched, last_tx |-> last, superseded_by |-> s.superseded_by,
             contradicted_by |-> s.contradicted_by]
    <2> HIDE DEF touched
    <2>1. [s EXCEPT !.memories = touched] =
            [memories |-> touched, last_tx |-> s.last_tx, superseded_by |-> s.superseded_by,
             contradicted_by |-> s.contradicted_by]
      BY DEF ServiceOK
    <2>2. Memory!ApplyMemory(s, e) =
            [[s EXCEPT !.memories = touched] EXCEPT !.last_tx = IF tx > @ THEN tx ELSE @]
      BY DEF Memory!ApplyMemory, touched
    <2> QED BY <2>1, <2>2
  <1>2. last \in Nat
    BY DEF ServiceOK
  <1>3. /\ touched \in [DOMAIN s.memories -> MemoryRecord]
        /\ \A m \in DOMAIN s.memories :
             /\ SameButLifecycle(s.memories[m], touched[m])
             /\ touched[m].lifecycle = IF m \in {id} THEN "Archived" ELSE s.memories[m].lifecycle
    <2>1. "Archived" \in LifecycleOf
      BY DEF LifecycleOf
    <2>2. Marks(s.memories, {id}, "Archived", touched)
      BY <2>1, TouchMarks
    <2> HIDE DEF touched
    <2> QED BY <2>2 DEF Marks
  <1> HIDE DEF touched, last, t
  <1>4. DOMAIN touched = DOMAIN s.memories
    BY <1>3
  <1>5. ServiceOK(t)
    BY <1>1, <1>2, <1>3, <1>4 DEF ServiceOK
  <1>6. Follows(s, t)
    BY <1>1, <1>3, <1>4 DEF Follows, Memory!CurrentTruth
  <1>7. id \in DOMAIN t.memories => ~Memory!CurrentTruth(t.memories[id])
    BY <1>1, <1>3, <1>4 DEF Memory!CurrentTruth
  <1> QED BY <1>1, <1>5, <1>6, <1>7 DEF t

LEMMA SupersedingMarks ==
  ASSUME NEW s, ServiceOK(s), NEW id \in Memory!MemoryId, NEW by \in Memory!MemoryId, NEW tx \in Nat, NEW e,
         e = [kind |-> "MemorySuperseded", id |-> id, by |-> by, tx |-> tx]
  PROVE  LET t == Memory!ApplyMemory(s, e)
         IN  /\ ServiceOK(t) /\ Follows(s, t)
             /\ t.superseded_by = s.superseded_by \cup {<<id, by>>}
             /\ t.contradicted_by = s.contradicted_by
             /\ id \in DOMAIN t.memories => ~Memory!CurrentTruth(t.memories[id])
  <1> DEFINE touched == Memory!Touch(s, {id}, "Superseded", tx)
             last == IF tx > s.last_tx THEN tx ELSE s.last_tx
             links == s.superseded_by \cup {<<id, by>>}
             t == Memory!ApplyMemory(s, e)
  <1>1. t = [memories |-> touched, last_tx |-> last, superseded_by |-> links,
             contradicted_by |-> s.contradicted_by]
    <2> HIDE DEF touched
    <2> DEFINE applied == [s EXCEPT !.memories = touched, !.superseded_by = @ \cup {<<id, by>>}]
    <2>1. applied =
            [memories |-> touched, last_tx |-> s.last_tx, superseded_by |-> links,
             contradicted_by |-> s.contradicted_by]
      <3>1. applied = [s EXCEPT !.memories = touched, !.superseded_by = links]
        OBVIOUS
      <3> HIDE DEF applied, links
      <3> QED BY <3>1 DEF ServiceOK
    <2>2. Memory!ApplyMemory(s, e) = [applied EXCEPT !.last_tx = IF tx > @ THEN tx ELSE @]
      BY DEF Memory!ApplyMemory, touched
    <2> HIDE DEF applied
    <2> QED BY <2>1, <2>2
  <1>2. last \in Nat /\ links \subseteq Link
    BY DEF ServiceOK, Link
  <1>3. /\ touched \in [DOMAIN s.memories -> MemoryRecord]
        /\ \A m \in DOMAIN s.memories :
             /\ SameButLifecycle(s.memories[m], touched[m])
             /\ touched[m].lifecycle = IF m \in {id} THEN "Superseded" ELSE s.memories[m].lifecycle
    <2>1. "Superseded" \in LifecycleOf
      BY DEF LifecycleOf
    <2>2. Marks(s.memories, {id}, "Superseded", touched)
      BY <2>1, TouchMarks
    <2> HIDE DEF touched
    <2> QED BY <2>2 DEF Marks
  <1>4. DOMAIN touched = DOMAIN s.memories
    BY <1>3
  <1>5. links = s.superseded_by \cup {<<id, by>>}
    OBVIOUS
  <1> HIDE DEF touched, last, t, links
  <1>6. ServiceOK(t)
    BY <1>1, <1>2, <1>3, <1>4 DEF ServiceOK
  <1>7. Follows(s, t)
    BY <1>1, <1>3, <1>4 DEF Follows, Memory!CurrentTruth
  <1>8. id \in DOMAIN t.memories => ~Memory!CurrentTruth(t.memories[id])
    BY <1>1, <1>3, <1>4 DEF Memory!CurrentTruth
  <1> QED BY <1>1, <1>5, <1>6, <1>7, <1>8 DEF t

(* The service after a new memory is written.                              *)
LEMMA WritingMarks ==
  ASSUME NEW s, ServiceOK(s), NEW r \in MemoryRecord, NEW tx \in Nat, NEW e,
         e = [kind |-> "MemoryWritten", record |-> r, tx |-> tx], r.id \notin DOMAIN s.memories
  PROVE  LET t == Memory!ApplyMemory(s, e)
         IN  /\ ServiceOK(t)
             /\ DOMAIN t.memories = DOMAIN s.memories \cup {r.id} /\ t.memories[r.id] = r
             /\ \A m \in DOMAIN s.memories :
                  /\ SameButLifecycle(s.memories[m], t.memories[m])
                  /\ Memory!CurrentTruth(t.memories[m]) =>
                       Memory!CurrentTruth(s.memories[m]) /\ m \notin r.supersedes \cup r.contradicts
             /\ t.superseded_by = s.superseded_by \cup {<<m, r.id>> : m \in r.supersedes}
             /\ t.contradicted_by = s.contradicted_by \cup {<<m, r.id>> : m \in r.contradicts}
  <1> DEFINE once == Memory!Touch(s, r.supersedes, "Superseded", r.updated_tx)
             between == [s EXCEPT !.memories = once]
             twice == Memory!Touch(between, r.contradicts, "Contradicted", r.updated_tx)
             after == [m \in DOMAIN twice \cup {r.id} |-> IF m = r.id THEN r ELSE twice[m]]
             links == s.superseded_by \cup {<<m, r.id>> : m \in r.supersedes}
             doubts == s.contradicted_by \cup {<<m, r.id>> : m \in r.contradicts}
             last == IF tx > s.last_tx THEN tx ELSE s.last_tx
             t == Memory!ApplyMemory(s, e)
  <1>r. /\ r.id \in Memory!MemoryId /\ r.supersedes \subseteq Memory!MemoryId
        /\ r.contradicts \subseteq Memory!MemoryId /\ r.updated_tx \in Nat
    BY DEF MemoryRecord
  <1>1. /\ once \in [DOMAIN s.memories -> MemoryRecord]
        /\ \A m \in DOMAIN s.memories :
             /\ SameButLifecycle(s.memories[m], once[m])
             /\ once[m].lifecycle = IF m \in r.supersedes THEN "Superseded" ELSE s.memories[m].lifecycle
    <2>1. "Superseded" \in LifecycleOf
      BY DEF LifecycleOf
    <2>2. Marks(s.memories, r.supersedes, "Superseded", once)
      BY <1>r, <2>1, TouchMarks
    <2> HIDE DEF once
    <2> QED BY <2>2 DEF Marks
  <1>2. DOMAIN once = DOMAIN s.memories
    BY <1>1
  <1>3. between = [memories |-> once, last_tx |-> s.last_tx, superseded_by |-> s.superseded_by,
                   contradicted_by |-> s.contradicted_by]
    <2> HIDE DEF once
    <2> QED BY DEF ServiceOK
  <1>4. ServiceOK(between) /\ between.memories = once
    <2> HIDE DEF once, between
    <2> QED BY <1>1, <1>2, <1>3 DEF ServiceOK
  <1>5. /\ twice \in [DOMAIN s.memories -> MemoryRecord]
        /\ \A m \in DOMAIN s.memories :
             /\ SameButLifecycle(once[m], twice[m])
             /\ twice[m].lifecycle = IF m \in r.contradicts THEN "Contradicted" ELSE once[m].lifecycle
    <2> HIDE DEF once, between
    <2>1. "Contradicted" \in LifecycleOf
      BY DEF LifecycleOf
    <2>2. Marks(between.memories, r.contradicts, "Contradicted", twice)
      BY <1>r, <1>4, <2>1, TouchMarks
    <2> HIDE DEF twice
    <2> QED BY <1>2, <1>4, <2>2 DEF Marks
  <1>6. DOMAIN twice = DOMAIN s.memories
    BY <1>5
  <1>7. t = [memories |-> after, last_tx |-> last, superseded_by |-> links, contradicted_by |-> doubts]
    <2> DEFINE marked == [s EXCEPT !.memories = twice,
                                   !.superseded_by = @ \cup {<<m, r.id>> : m \in r.supersedes},
                                   !.contradicted_by = @ \cup {<<m, r.id>> : m \in r.contradicts}]
               written == [marked EXCEPT !.memories =
                             [m \in DOMAIN @ \cup {r.id} |-> IF m = r.id THEN r ELSE @[m]]]
    <2>1. Memory!ApplyReferences(s, r) = marked
      BY DEF Memory!ApplyReferences
    <2>2. Memory!ApplyWritten(s, r) = written
      <3> HIDE DEF marked
      <3> QED BY <2>1 DEF Memory!ApplyWritten
    <2>3. marked = [memories |-> twice, last_tx |-> s.last_tx, superseded_by |-> links,
                    contradicted_by |-> doubts]
      <3> HIDE DEF twice
      <3>1. marked = [s EXCEPT !.memories = twice, !.superseded_by = links, !.contradicted_by = doubts]
        OBVIOUS
      <3> HIDE DEF marked, links, doubts
      <3> QED BY <3>1 DEF ServiceOK
    <2> HIDE DEF twice, marked, links, doubts
    <2>4. written = [memories |-> after, last_tx |-> s.last_tx, superseded_by |-> links,
                     contradicted_by |-> doubts]
      BY <2>3
    <2>5. Memory!ApplyMemory(s, e) = [written EXCEPT !.last_tx = IF tx > @ THEN tx ELSE @]
      <3> HIDE DEF written
      <3> QED BY <2>2 DEF Memory!ApplyMemory
    <2> HIDE DEF written, after
    <2> QED BY <2>4, <2>5
  <1>8. last \in Nat /\ links \subseteq Link /\ doubts \subseteq Link
    <2>1. \A m \in r.supersedes \cup r.contradicts : <<m, r.id>> \in Link
      BY <1>r DEF Link
    <2> QED BY <2>1 DEF ServiceOK
  <1>9. links = s.superseded_by \cup {<<m, r.id>> : m \in r.supersedes}
        /\ doubts = s.contradicted_by \cup {<<m, r.id>> : m \in r.contradicts}
    OBVIOUS
  <1> HIDE DEF once, between, twice, links, doubts, last
  <1>10. /\ DOMAIN after = DOMAIN s.memories \cup {r.id} /\ after[r.id] = r
         /\ \A m \in DOMAIN s.memories : after[m] = twice[m]
         /\ after \in [DOMAIN s.memories \cup {r.id} -> MemoryRecord]
    BY <1>5, <1>6
  <1>11. IsFiniteSet(DOMAIN s.memories \cup {r.id})
    BY FS_AddElement DEF ServiceOK
  <1> HIDE DEF after, t
  <1>12. ServiceOK(t)
    BY <1>r, <1>7, <1>8, <1>10, <1>11 DEF ServiceOK
  <1>13. ASSUME NEW m \in DOMAIN s.memories
         PROVE  /\ SameButLifecycle(s.memories[m], after[m])
                /\ Memory!CurrentTruth(after[m]) =>
                     Memory!CurrentTruth(s.memories[m]) /\ m \notin r.supersedes \cup r.contradicts
    <2>1. SameButLifecycle(s.memories[m], after[m])
      BY <1>1, <1>5, <1>10 DEF SameButLifecycle
    <2>2. after[m].lifecycle = IF m \in r.contradicts THEN "Contradicted"
                               ELSE IF m \in r.supersedes THEN "Superseded" ELSE s.memories[m].lifecycle
      BY <1>1, <1>5, <1>10
    <2> QED BY <2>1, <2>2 DEF Memory!CurrentTruth
  <1> QED BY <1>7, <1>9, <1>10, <1>12, <1>13 DEF t

(***************************************************************************)
(* What the service owes: whatever is linked as corrected is known and is  *)
(* not current, a correction is linked from both ends, and what a memory   *)
(* was compressed from is not current, but for the new ones whose sources  *)
(* are still to be archived.                                               *)
(***************************************************************************)
NotCurrent(s, m) == m \in DOMAIN s.memories /\ ~Memory!CurrentTruth(s.memories[m])

Consistent(s, new) ==
  /\ \A link \in s.superseded_by \cup s.contradicted_by : NotCurrent(s, link[1])
  /\ \A m \in DOMAIN s.memories :
       /\ \A old \in s.memories[m].supersedes : <<old, m>> \in s.superseded_by
       /\ \A old \in s.memories[m].contradicts : <<old, m>> \in s.contradicted_by
       /\ s.memories[m].from \subseteq DOMAIN s.memories
       /\ m \notin new => \A old \in s.memories[m].from : NotCurrent(s, old)

LEMMA FollowingStaysConsistent ==
  ASSUME NEW s, NEW t, NEW new, Consistent(s, new), Follows(s, t), NEW links,
         t.superseded_by = s.superseded_by \cup links, t.contradicted_by = s.contradicted_by,
         \A link \in links : NotCurrent(t, link[1])
  PROVE  Consistent(t, new)
  <1>1. \A m : NotCurrent(s, m) => NotCurrent(t, m)
    BY DEF NotCurrent, Follows
  <1>2. \A link \in t.superseded_by \cup t.contradicted_by : NotCurrent(t, link[1])
    BY <1>1 DEF Consistent
  <1>3. ASSUME NEW m \in DOMAIN t.memories
        PROVE  /\ \A old \in t.memories[m].supersedes : <<old, m>> \in t.superseded_by
               /\ \A old \in t.memories[m].contradicts : <<old, m>> \in t.contradicted_by
               /\ t.memories[m].from \subseteq DOMAIN t.memories
               /\ m \notin new => \A old \in t.memories[m].from : NotCurrent(t, old)
    <2>1. m \in DOMAIN s.memories /\ SameButLifecycle(s.memories[m], t.memories[m])
          /\ DOMAIN t.memories = DOMAIN s.memories
      BY DEF Follows
    <2> QED BY <1>1, <2>1 DEF SameButLifecycle, Consistent
  <1> QED BY <1>2, <1>3 DEF Consistent

LEMMA WritingStaysConsistent ==
  ASSUME NEW s, ServiceOK(s), Consistent(s, {}), NEW r \in MemoryRecord, NEW tx \in Nat, NEW e,
         e = [kind |-> "MemoryWritten", record |-> r, tx |-> tx], r.id \notin DOMAIN s.memories,
         r.supersedes \cup r.contradicts \cup r.from \subseteq DOMAIN s.memories
  PROVE  LET t == Memory!ApplyMemory(s, e)
         IN  /\ ServiceOK(t) /\ Consistent(t, {r.id})
             /\ DOMAIN t.memories = DOMAIN s.memories \cup {r.id} /\ t.memories[r.id] = r
             /\ r.from = {} => Consistent(t, {})
             /\ \A m \in r.supersedes : NotCurrent(t, m)
  <1> DEFINE t == Memory!ApplyMemory(s, e)
  <1>1. /\ ServiceOK(t)
        /\ DOMAIN t.memories = DOMAIN s.memories \cup {r.id} /\ t.memories[r.id] = r
        /\ \A m \in DOMAIN s.memories :
             /\ SameButLifecycle(s.memories[m], t.memories[m])
             /\ Memory!CurrentTruth(t.memories[m]) =>
                  Memory!CurrentTruth(s.memories[m]) /\ m \notin r.supersedes \cup r.contradicts
        /\ t.superseded_by = s.superseded_by \cup {<<m, r.id>> : m \in r.supersedes}
        /\ t.contradicted_by = s.contradicted_by \cup {<<m, r.id>> : m \in r.contradicts}
    BY WritingMarks
  <1> HIDE DEF t
  <1>2. \A m : NotCurrent(s, m) => NotCurrent(t, m)
    BY <1>1 DEF NotCurrent
  <1>3. \A m \in r.supersedes \cup r.contradicts : NotCurrent(t, m)
    BY <1>1 DEF NotCurrent
  <1>4. \A link \in t.superseded_by \cup t.contradicted_by : NotCurrent(t, link[1])
    <2> SUFFICES ASSUME NEW link \in t.superseded_by \cup t.contradicted_by PROVE NotCurrent(t, link[1])
      OBVIOUS
    <2>1. CASE link \in s.superseded_by \cup s.contradicted_by
      BY <1>2, <2>1 DEF Consistent
    <2>2. CASE \E m \in r.supersedes \cup r.contradicts : link = <<m, r.id>>
      BY <1>3, <2>2
    <2> QED BY <1>1, <2>1, <2>2
  <1>5. ASSUME NEW m \in DOMAIN s.memories
        PROVE  /\ \A old \in t.memories[m].supersedes : <<old, m>> \in t.superseded_by
               /\ \A old \in t.memories[m].contradicts : <<old, m>> \in t.contradicted_by
               /\ t.memories[m].from \subseteq DOMAIN t.memories
               /\ \A old \in t.memories[m].from : NotCurrent(t, old)
    <2>1. SameButLifecycle(s.memories[m], t.memories[m])
      BY <1>1
    <2>2. /\ \A old \in s.memories[m].supersedes : <<old, m>> \in s.superseded_by
          /\ \A old \in s.memories[m].contradicts : <<old, m>> \in s.contradicted_by
          /\ s.memories[m].from \subseteq DOMAIN s.memories
          /\ \A old \in s.memories[m].from : NotCurrent(s, old)
      BY DEF Consistent
    <2>3. s.superseded_by \subseteq t.superseded_by /\ s.contradicted_by \subseteq t.contradicted_by
      BY <1>1
    <2> QED BY <1>1, <1>2, <2>1, <2>2, <2>3 DEF SameButLifecycle
  <1>6. /\ \A old \in t.memories[r.id].supersedes : <<old, r.id>> \in t.superseded_by
        /\ \A old \in t.memories[r.id].contradicts : <<old, r.id>> \in t.contradicted_by
        /\ t.memories[r.id].from \subseteq DOMAIN t.memories
    BY <1>1
  <1>7. Consistent(t, {r.id})
    BY <1>1, <1>4, <1>5, <1>6 DEF Consistent
  <1>8. r.from = {} => Consistent(t, {})
    BY <1>1, <1>4, <1>5, <1>6 DEF Consistent
  <1> QED BY <1>1, <1>3, <1>7, <1>8 DEF t

(* Archiving the members of an order, one after the other.                 *)
IsArchiving(happened, order, last) ==
  /\ Len(happened) \in Nat
  /\ \A i \in 1..Len(happened) :
       /\ order[i] \in Memory!MemoryId
       /\ happened[i] = [kind |-> "MemoryLifecycleChanged", id |-> order[i], tx |-> last + i]

LEMMA ArchivingStaysConsistent ==
  ASSUME NEW s, ServiceOK(s), NEW new, Consistent(s, new), NEW happened, NEW order, NEW last \in Nat,
         IsArchiving(happened, order, last)
  PROVE  LET t == Memory!Applied(s, happened)
         IN  /\ ServiceOK(t) /\ Consistent(t, new)
             /\ DOMAIN t.memories = DOMAIN s.memories
             /\ \A m \in DOMAIN s.memories : t.memories[m].from = s.memories[m].from
             /\ \A i \in 1..Len(happened) :
                  order[i] \in DOMAIN s.memories => NotCurrent(t, order[i])
  <1> DEFINE Good(t, k) ==
               /\ ServiceOK(t) /\ Consistent(t, new)
               /\ DOMAIN t.memories = DOMAIN s.memories
               /\ \A m \in DOMAIN s.memories : t.memories[m].from = s.memories[m].from
               /\ \A i \in 1..k : order[i] \in DOMAIN s.memories => NotCurrent(t, order[i])
  <1>1. PICK f : Rounds(f, s, happened) /\ Memory!Applied(s, happened) = f[Len(happened)]
    BY AppliedRounds, Zenon
  <1> DEFINE S == {n \in Nat : n <= Len(happened) => Good(f[n], n)}
  <1>2. 0 \in S
    <2>1. f[0] = s
      BY <1>1, Zenon DEF Rounds
    <2>2. Good(s, 0)
      OBVIOUS
    <2> HIDE DEF Good
    <2> QED BY <2>1, <2>2
  <1>3. ASSUME NEW n \in S PROVE n + 1 \in S
    <2> SUFFICES ASSUME n + 1 <= Len(happened) PROVE Good(f[n + 1], n + 1)
      OBVIOUS
    <2>1. n \in Nat /\ n + 1 \in 1..Len(happened) /\ Good(f[n], n)
      BY DEF IsArchiving
    <2>2. f[n + 1] = Memory!ApplyMemory(f[n], happened[n + 1])
      BY <1>1, <2>1, Zenon DEF Rounds
    <2>3. PICK id \in Memory!MemoryId, tx \in Nat :
            id = order[n + 1] /\ happened[n + 1] = [kind |-> "MemoryLifecycleChanged", id |-> id, tx |-> tx]
      <3>1. /\ order[n + 1] \in Memory!MemoryId
            /\ happened[n + 1] = [kind |-> "MemoryLifecycleChanged", id |-> order[n + 1], tx |-> last + (n + 1)]
        BY <2>1, Zenon DEF IsArchiving
      <3>2. last + (n + 1) \in Nat
        BY <2>1
      <3> QED BY <3>1, <3>2, Zenon
    <2>4. PICK before : before = f[n]
      OBVIOUS
    <2>5. PICK after : after = Memory!ApplyMemory(before, happened[n + 1])
      OBVIOUS
    <2>6. /\ ServiceOK(after) /\ Follows(before, after)
          /\ after.superseded_by = before.superseded_by /\ after.contradicted_by = before.contradicted_by
          /\ id \in DOMAIN after.memories => ~Memory!CurrentTruth(after.memories[id])
      BY <2>1, <2>3, <2>4, <2>5, ArchivingMarks
    <2>7. Consistent(before, new)
      BY <2>1, <2>4
    <2>8. Consistent(after, new)
      <3>1. PICK links : links = {}
        OBVIOUS
      <3>2. after.superseded_by = before.superseded_by \cup links /\ \A link \in links : NotCurrent(after, link[1])
        BY <2>6, <3>1
      <3> QED BY <2>6, <2>7, <3>2, FollowingStaysConsistent
    <2>9. /\ DOMAIN after.memories = DOMAIN s.memories
          /\ \A m \in DOMAIN s.memories : after.memories[m].from = s.memories[m].from
      BY <2>1, <2>4, <2>6 DEF Follows, SameButLifecycle
    <2>10. ASSUME NEW i \in 1..(n + 1), order[i] \in DOMAIN s.memories PROVE NotCurrent(after, order[i])
      <3>1. CASE i = n + 1
        BY <2>3, <2>6, <2>9, <2>10, <3>1 DEF NotCurrent
      <3>2. CASE i # n + 1
        <4>1. i \in 1..n
          BY <2>1, <3>2
        <4>2. NotCurrent(before, order[i])
          BY <2>1, <2>4, <2>10, <4>1
        <4> QED BY <2>6, <4>2 DEF NotCurrent, Follows
      <3> QED BY <3>1, <3>2
    <2>11. Good(after, n + 1)
      BY <2>6, <2>8, <2>9, <2>10
    <2> QED BY <2>2, <2>4, <2>5, <2>11
  <1>4. S = Nat
    <2>1. S \in SUBSET Nat
      OBVIOUS
    <2> HIDE DEF S
    <2> QED BY <1>2, <1>3, <2>1, InductionOnSets
  <1>5. Good(f[Len(happened)], Len(happened))
    <2> HIDE DEF Good
    <2>1. Len(happened) \in S /\ Len(happened) <= Len(happened)
      BY <1>4 DEF IsArchiving
    <2> QED BY <2>1
  <1> QED BY <1>1, <1>5

(***************************************************************************)
(* The inductive invariant, and the journal: whatever operation appends a  *)
(* written memory and what follows of it, a restart rebuilds the service,  *)
(* the time it started at included.                                        *)
(***************************************************************************)
Rebuilt ==
  /\ journal = <<>> => service \in {Memory!NewService(0), Memory!NewService(1)}
  /\ Memory!MemoryIsJournal

MemoryInv ==
  ServiceOK(service) /\ Consistent(service, {}) /\ journal \in Seq(MemoryEvent) /\ Rebuilt

\* The first event makes a service forget when it started.
LEMMA FirstEventForgets ==
  ASSUME NEW start \in {0, 1}, NEW r \in MemoryRecord, NEW e,
         e = [kind |-> "MemoryWritten", record |-> r, tx |-> start + 1]
  PROVE  Memory!ApplyMemory(Memory!NewService(start), e) = Memory!ApplyMemory(Memory!NewService(0), e)
  <1>1. CASE start = 0
    BY <1>1
  <1>2. CASE start = 1
    <2> DEFINE one == Memory!NewService(1)
               none == Memory!NewService(0)
               once == Memory!Touch(none, r.supersedes, "Superseded", r.updated_tx)
               links == none.superseded_by \cup {<<m, r.id>> : m \in r.supersedes}
               doubts == none.contradicted_by \cup {<<m, r.id>> : m \in r.contradicts}
               twice == Memory!Touch([none EXCEPT !.memories = once], r.contradicts, "Contradicted", r.updated_tx)
               after == [m \in DOMAIN twice \cup {r.id} |-> IF m = r.id THEN r ELSE twice[m]]
               applied(l) == [memories |-> after, last_tx |-> l, superseded_by |-> links, contradicted_by |-> doubts]
    <2>1. /\ one = [memories |-> <<>>, last_tx |-> 1, superseded_by |-> {}, contradicted_by |-> {}]
          /\ none = [memories |-> <<>>, last_tx |-> 0, superseded_by |-> {}, contradicted_by |-> {}]
      BY DEF Memory!NewService
    <2>2. /\ one.memories = none.memories /\ one.superseded_by = none.superseded_by
          /\ one.contradicted_by = none.contradicted_by /\ one.last_tx = 1 /\ none.last_tx = 0
      <3> HIDE DEF one, none
      <3>1. one.memories = none.memories
        BY <2>1
      <3>2. one.superseded_by = none.superseded_by /\ one.contradicted_by = none.contradicted_by
        BY <2>1
      <3>3. one.last_tx = 1 /\ none.last_tx = 0
        BY <2>1
      <3> QED BY <3>1, <3>2, <3>3
    <2>3. Memory!Touch(one, r.supersedes, "Superseded", r.updated_tx) = once
      <3> HIDE DEF one, none
      <3> QED BY <2>2 DEF Memory!Touch, once
    <2> HIDE DEF once
    <2> DEFINE marked(s) == [s EXCEPT !.memories = once]
    <2>4. marked(one).memories = once /\ marked(none).memories = once
      BY <2>1
    <2>5. Memory!Touch(marked(one), r.contradicts, "Contradicted", r.updated_tx) = twice
      <3> HIDE DEF one, none
      <3>1. Memory!Touch(marked(none), r.contradicts, "Contradicted", r.updated_tx) = twice
        OBVIOUS
      <3>2. Memory!Touch(marked(one), r.contradicts, "Contradicted", r.updated_tx)
              = Memory!Touch(marked(none), r.contradicts, "Contradicted", r.updated_tx)
        <4> HIDE DEF marked
        <4> QED BY <2>4 DEF Memory!Touch
      <3> QED BY <3>1, <3>2
    <2>6. ASSUME NEW s \in {one, none} PROVE Memory!ApplyWritten(s, r) = applied(s.last_tx)
      <3>1. Memory!Touch([s EXCEPT !.memories = Memory!Touch(s, r.supersedes, "Superseded", r.updated_tx)],
                         r.contradicts, "Contradicted", r.updated_tx) = twice
        <4>1. Memory!Touch(s, r.supersedes, "Superseded", r.updated_tx) = once
          BY <2>3 DEF once
        <4>2. Memory!Touch(marked(s), r.contradicts, "Contradicted", r.updated_tx) = twice
          BY <2>5
        <4> QED BY <4>1, <4>2
      <3> HIDE DEF twice
      <3>2. Memory!ApplyReferences(s, r) =
              [s EXCEPT !.memories = twice,
                        !.superseded_by = @ \cup {<<m, r.id>> : m \in r.supersedes},
                        !.contradicted_by = @ \cup {<<m, r.id>> : m \in r.contradicts}]
        BY <3>1 DEF Memory!ApplyReferences
      <3>3. Memory!ApplyReferences(s, r) =
              [s EXCEPT !.memories = twice, !.superseded_by = links, !.contradicted_by = doubts]
        BY <2>2, <3>2
      <3> HIDE DEF links, doubts
      <3>4. Memory!ApplyReferences(s, r) =
              [memories |-> twice, last_tx |-> s.last_tx, superseded_by |-> links, contradicted_by |-> doubts]
        <4> HIDE DEF one, none
        <4>1. s = [memories |-> s.memories, last_tx |-> s.last_tx, superseded_by |-> s.superseded_by,
                   contradicted_by |-> s.contradicted_by]
          <5>1. CASE s = one
            BY <2>1, <5>1
          <5>2. CASE s = none
            BY <2>1, <5>2
          <5> QED BY <5>1, <5>2
        <4> QED BY <3>3, <4>1
      <3> DEFINE references == Memory!ApplyReferences(s, r)
      <3>5. Memory!ApplyWritten(s, r) =
              [references EXCEPT !.memories = [m \in DOMAIN @ \cup {r.id} |-> IF m = r.id THEN r ELSE @[m]]]
        BY DEF Memory!ApplyWritten
      <3>6. references = [memories |-> twice, last_tx |-> s.last_tx, superseded_by |-> links,
                          contradicted_by |-> doubts]
        BY <3>4
      <3> HIDE DEF references
      <3> QED BY <3>5, <3>6
    <2> HIDE DEF one, none, twice, after, links, doubts
    <2>7. ASSUME NEW s \in {one, none} PROVE Memory!ApplyMemory(s, e) = applied(2)
      <3>1. e.tx = 2 /\ e.kind = "MemoryWritten" /\ e.record = r
        BY <1>2
      <3>2. Memory!ApplyMemory(s, e) =
              [Memory!ApplyWritten(s, r) EXCEPT !.last_tx = IF e.tx > @ THEN e.tx ELSE @]
        BY <3>1 DEF Memory!ApplyMemory
      <3>3. s.last_tx \in {0, 1}
        BY <2>2
      <3> HIDE DEF applied
      <3>4. applied(s.last_tx).last_tx = s.last_tx
        BY DEF applied
      <3>5. Memory!ApplyMemory(s, e) = [applied(s.last_tx) EXCEPT !.last_tx = 2]
        BY <2>6, <3>1, <3>2, <3>3, <3>4
      <3>6. [applied(s.last_tx) EXCEPT !.last_tx = 2] = applied(2)
        BY DEF applied
      <3> QED BY <3>5, <3>6
    <2> QED BY <1>2, <2>7 DEF one, none
  <1> QED BY <1>1, <1>2

(* The order in which a set is archived reaches each of its members.       *)
LEMMA OrderReaches ==
  ASSUME NEW S, IsFiniteSet(S), NEW order, order = Memory!SetToSeq(S)
  PROVE  /\ DOMAIN order = 1..Cardinality(S) /\ Cardinality(S) \in Nat
         /\ \A i \in DOMAIN order : order[i] \in S
         /\ \A x \in S : \E i \in DOMAIN order : order[i] = x
  <1> DEFINE n == Cardinality(S)
  <1>1. n \in Nat /\ IsFiniteSet(1..n) /\ Cardinality(1..n) = n
    BY FS_CardinalityType, FS_Interval
  <1>2. Memory!Cardinality(S) = n
    BY DEF Memory!Cardinality, Cardinality
  <1>3. order \in [1..n -> S] /\ \A i, j \in 1..n : order[i] = order[j] => i = j
    <2>1. PICK f : f \in Bijection(1..n, S)
      BY FS_CardinalityType DEF ExistsBijection
    <2>2. f \in [1..n -> S] /\ Memory!IsInjective(f)
      BY <2>1 DEF Bijection, Injection, IsInjective, Memory!IsInjective
    <2>3. order \in [1..n -> S] /\ Memory!IsInjective(order)
      <3> HIDE DEF n
      <3> QED BY <1>2, <2>2 DEF Memory!SetToSeq
    <2> QED BY <2>3 DEF Memory!IsInjective
  <1>4. order \in Surjection(1..n, S)
    <2> HIDE DEF n
    <2>1. order \in Injection(1..n, S)
      BY <1>3 DEF Injection, IsInjective
    <2>2. Cardinality(1..n) = Cardinality(S)
      BY <1>1 DEF n
    <2> QED BY <2>1, <2>2, FS_Injection
  <1> HIDE DEF n
  <1>5. DOMAIN order = 1..n /\ (\A i \in 1..n : order[i] \in S) /\ \A x \in S : \E i \in 1..n : order[i] = x
    BY <1>3, <1>4 DEF Surjection
  <1> QED BY <1>1, <1>5 DEF n

LEMMA JoinedEvents ==
  \A a, b \in Seq(MemoryEvent) : \A s :
    Memory!Applied(s, a \o b) = Memory!Applied(Memory!Applied(s, a), b)
  BY AppliedJoined

(* A sequence of two is its first and then its second.                     *)
Joins(all, a, b) ==
  /\ all = a \o b /\ Len(all) = Len(a) + Len(b)
  /\ \A i \in 1..Len(a) : all[i] = a[i]
  /\ \A i \in 1..Len(b) : all[Len(a) + i] = b[i]

LEMMA JoinFacts ==
  ASSUME NEW S, NEW a \in Seq(S), NEW b \in Seq(S)
  PROVE  \E all \in Seq(S) : Joins(all, a, b)
  <1> DEFINE all == a \o b
             k == Len(a)
             m == Len(b)
  <1>1. /\ k \in Nat /\ m \in Nat /\ Len(all) = k + m
        /\ \A i \in 1..k : all[i] = a[i]
        /\ \A i \in 1..m : all[k + i] = b[i]
    OBVIOUS
  <1>2. all \in Seq(S)
    OBVIOUS
  <1>3. all = a \o b
    OBVIOUS
  <1> HIDE DEF all
  <1> QED BY <1>1, <1>2, <1>3 DEF Joins

LEMMA TwoJoined ==
  ASSUME NEW S, NEW one \in Seq(S), NEW two \in Seq(S), NEW both \in Seq(S),
         Len(one) = 1, Len(two) = 1, Len(both) = 2, both[1] = one[1], both[2] = two[1]
  PROVE  both = one \o two
  <1>1. PICK joined \in Seq(S) : Joins(joined, one, two)
    BY JoinFacts, Zenon
  <1>2. Len(joined) = 2 /\ joined[1] = one[1]
    BY <1>1 DEF Joins
  <1>3. joined[1 + 1] = two[1]
    BY <1>1 DEF Joins
  <1>4. joined = both
    <2>1. \A i \in 1..2 : i = 1 \/ i = 2
      OBVIOUS
    <2>2. \A i \in 1..2 : joined[i] = both[i]
      BY <1>2, <1>3, <2>1
    <2>3. joined = [i \in 1..2 |-> joined[i]] /\ both = [i \in 1..2 |-> both[i]]
      BY <1>2
    <2> QED BY <2>2, <2>3
  <1> QED BY <1>1, <1>4, Zenon DEF Joins

LEMMA PairIsJoined ==
  ASSUME NEW a, NEW b PROVE <<a, b>> = <<a>> \o <<b>>
  <1>1. PICK S : a \in S /\ b \in S
    <2>1. a \in {a, b} /\ b \in {a, b}
      OBVIOUS
    <2> QED BY <2>1, Zenon
  <1>2. <<a>> \in Seq(S) /\ Len(<<a>>) = 1 /\ <<a>>[1] = a
    BY <1>1
  <1>3. <<b>> \in Seq(S) /\ Len(<<b>>) = 1 /\ <<b>>[1] = b
    BY <1>1
  <1>4. <<a, b>> \in Seq(S) /\ Len(<<a, b>>) = 2 /\ <<a, b>>[1] = a /\ <<a, b>>[2] = b
    BY <1>1
  <1> QED BY <1>2, <1>3, <1>4, TwoJoined

LEMMA AppendingRebuilds ==
  ASSUME MemoryInv, NEW r \in MemoryRecord, NEW e,
         e = [kind |-> "MemoryWritten", record |-> r, tx |-> service.last_tx + 1],
         NEW rest \in Seq(MemoryEvent), NEW appended, appended = <<e>> \o rest,
         service' = Memory!Applied(service, appended), journal' = journal \o appended
  PROVE  /\ journal' \in Seq(MemoryEvent) /\ Rebuilt'
         /\ service' = Memory!Applied(Memory!ApplyMemory(service, e), rest)
  <1>1. e \in MemoryEvent
    <2>1. service.last_tx + 1 \in Nat
      BY DEF MemoryInv, ServiceOK
    <2> QED BY <2>1 DEF MemoryEvent
  <1>2. PICK first : first = <<e>>
    OBVIOUS
  <1>3. first \in Seq(MemoryEvent) /\ Len(first) = 1
    BY <1>1, <1>2
  <1>4. appended \in Seq(MemoryEvent) /\ Len(appended) = 1 + Len(rest)
    BY <1>2, <1>3
  <1>5. \A s : Memory!Applied(s, appended) = Memory!Applied(Memory!ApplyMemory(s, e), rest)
    <2> SUFFICES ASSUME NEW s PROVE Memory!Applied(s, appended) = Memory!Applied(Memory!ApplyMemory(s, e), rest)
      OBVIOUS
    <2>1. Memory!Applied(s, appended) = Memory!Applied(Memory!Applied(s, first), rest)
      BY <1>2, <1>3, AppliedJoined
    <2>2. Memory!Applied(s, first) = Memory!ApplyMemory(s, e)
      BY <1>2, AppliedOne
    <2> QED BY <2>1, <2>2
  <1>6. journal \in Seq(MemoryEvent)
    BY DEF MemoryInv
  <1>7. journal' \in Seq(MemoryEvent) /\ Len(journal') = Len(journal) + Len(appended)
    BY <1>4, <1>6
  <1>8. journal' # <<>>
    <2>1. Len(journal) \in Nat /\ Len(rest) \in Nat
      BY <1>6
    <2>2. Len(journal') # 0
      BY <1>4, <1>7, <2>1
    <2> QED BY <2>2
  <1>9. service' = Memory!ReplayJournal(journal')
    <2>1. CASE journal = <<>>
      <3>1. PICK start \in {0, 1} : service = Memory!NewService(start)
        BY <2>1 DEF MemoryInv, Rebuilt
      <3>2. service.last_tx = start
        BY <3>1 DEF Memory!NewService
      <3>3. Memory!ApplyMemory(service, e) = Memory!ApplyMemory(Memory!NewService(0), e)
        BY <3>1, <3>2, FirstEventForgets
      <3>4. journal' = appended
        BY <1>4, <2>1
      <3> QED BY <1>5, <3>3, <3>4 DEF Memory!ReplayJournal
    <2>2. CASE journal # <<>>
      <3>1. service = Memory!Applied(Memory!NewService(0), journal)
        BY <2>2 DEF MemoryInv, Rebuilt, Memory!MemoryIsJournal, Memory!ReplayJournal
      <3>2. Memory!Applied(Memory!NewService(0), journal \o appended)
              = Memory!Applied(Memory!Applied(Memory!NewService(0), journal), appended)
        <4>1. PICK old \in Seq(MemoryEvent) : old = journal
          BY <1>6
        <4>2. PICK none : none = Memory!NewService(0)
          OBVIOUS
        <4>3. Memory!Applied(none, old \o appended) = Memory!Applied(Memory!Applied(none, old), appended)
          BY <1>4, JoinedEvents, ZenonT(60)
        <4> QED BY <4>1, <4>2, <4>3
      <3> QED BY <3>1, <3>2 DEF Memory!ReplayJournal
    <2> QED BY <2>1, <2>2
  <1>10. Rebuilt'
    BY <1>8, <1>9 DEF Rebuilt, Memory!MemoryIsJournal
  <1> QED BY <1>5, <1>7, <1>10

(* What an agent may ask to have recorded.                                 *)
LEMMA RecordedIs ==
  ASSUME NEW w, w.id \in Memory!MemoryId, w.lifecycle \in LifecycleOf, NEW v \in MemoryWrite,
         w.readers = v.readers, w.public = v.public, w.valid = v.valid, w.sources = v.sources,
         w.supersedes \cup w.contradicts \subseteq Memory!MemoryId,
         NEW from \in SUBSET Memory!MemoryId, NEW tx \in Nat
  PROVE  LET r == Memory!Recorded(w, from, tx)
         IN  /\ r \in MemoryRecord /\ r.id = w.id /\ r.from = from
             /\ r.supersedes = w.supersedes /\ r.contradicts = w.contradicts
  BY DEF Memory!Recorded, MemoryRecord

(***************************************************************************)
(* The operations, one by one.                                             *)
(***************************************************************************)
LEMMA WriteStep ==
  ASSUME MemoryInv, NEW w \in MemoryWrite, Memory!WriteMemory(w)
  PROVE  MemoryInv'
  <1> DEFINE tx == service.last_tx + 1
             r == Memory!Recorded(w, {}, tx)
             e == Memory!Written(w, {}, tx)
  <1>1. /\ w.id \notin DOMAIN service.memories
        /\ w.supersedes \cup w.contradicts \subseteq DOMAIN service.memories
        /\ service' = Memory!Applied(service, <<e>>) /\ journal' = journal \o <<e>>
    BY DEF Memory!WriteMemory, Memory!ValidateWrite, Memory!AppendAll, Memory!Known, Memory!NextTx
  <1>2. e = [kind |-> "MemoryWritten", record |-> r, tx |-> tx]
    BY DEF Memory!Written
  <1>3. ServiceOK(service) /\ Consistent(service, {}) /\ tx \in Nat
        /\ DOMAIN service.memories \subseteq Memory!MemoryId
    BY DEF MemoryInv, ServiceOK
  <1>4. w.id \in Memory!MemoryId /\ w.lifecycle \in LifecycleOf
    BY DEF Memory!MemoryId, LifecycleOf
  <1>5. /\ r \in MemoryRecord /\ r.id = w.id /\ r.from = {}
        /\ r.supersedes = w.supersedes /\ r.contradicts = w.contradicts
    <2> HIDE DEF tx
    <2> QED BY <1>1, <1>3, <1>4, RecordedIs
  <1>6. PICK rest \in Seq(MemoryEvent) : rest = <<>>
    <2>1. <<>> \in Seq(MemoryEvent)
      OBVIOUS
    <2> QED BY <2>1, Zenon
  <1> HIDE DEF r, e
  <1>7. PICK appended : appended = <<e>>
    OBVIOUS
  <1>8. appended = <<e>> \o rest
    BY <1>6, <1>7
  <1>9. /\ journal' \in Seq(MemoryEvent) /\ Rebuilt'
        /\ service' = Memory!Applied(Memory!ApplyMemory(service, e), rest)
    BY <1>1, <1>2, <1>5, <1>7, <1>8, AppendingRebuilds
  <1>10. service' = Memory!ApplyMemory(service, e)
    BY <1>6, <1>9, AppliedNone
  <1>11. ServiceOK(service') /\ Consistent(service', {})
    <2>1. r.id \notin DOMAIN service.memories
          /\ r.supersedes \cup r.contradicts \cup r.from \subseteq DOMAIN service.memories
      BY <1>1, <1>5
    <2> HIDE DEF tx
    <2> QED BY <1>2, <1>3, <1>5, <1>10, <2>1, WritingStaysConsistent
  <1> QED BY <1>9, <1>11 DEF MemoryInv

LEMMA SupersedeStep ==
  ASSUME MemoryInv, NEW w \in MemoryWrite, NEW old, Memory!SupersedeMemory(old, w)
  PROVE  MemoryInv'
  <1> DEFINE tx == service.last_tx + 1
             correction == [w EXCEPT !.supersedes = @ \cup {old}]
             r == Memory!Recorded(correction, {}, tx)
             e == Memory!Written(correction, {}, tx)
             next == [kind |-> "MemorySuperseded", id |-> old, by |-> w.id, tx |-> tx + 1]
  <1>c. /\ correction.id = w.id /\ correction.lifecycle = w.lifecycle
        /\ correction.readers = w.readers /\ correction.public = w.public /\ correction.valid = w.valid
        /\ correction.sources = w.sources /\ correction.contradicts = w.contradicts
        /\ correction.supersedes = w.supersedes \cup {old}
    BY WriteAssumption
  <1>1. /\ old \in DOMAIN service.memories
        /\ correction.id \notin DOMAIN service.memories
        /\ correction.supersedes \cup correction.contradicts \subseteq DOMAIN service.memories
        /\ service' = Memory!Applied(service, <<e, next>>) /\ journal' = journal \o <<e, next>>
    BY DEF Memory!SupersedeMemory, Memory!ValidateWrite, Memory!AppendAll, Memory!Known, Memory!NextTx
  <1> HIDE DEF correction
  <1>2. e = [kind |-> "MemoryWritten", record |-> r, tx |-> tx]
    BY DEF Memory!Written
  <1>3. ServiceOK(service) /\ Consistent(service, {}) /\ tx \in Nat /\ tx + 1 \in Nat
        /\ DOMAIN service.memories \subseteq Memory!MemoryId
    BY DEF MemoryInv, ServiceOK
  <1>4. w.id \in Memory!MemoryId /\ w.lifecycle \in LifecycleOf /\ old \in Memory!MemoryId
    BY <1>1, <1>3 DEF Memory!MemoryId, LifecycleOf
  <1>5. /\ r \in MemoryRecord /\ r.id = w.id /\ r.from = {}
        /\ r.supersedes = correction.supersedes /\ r.contradicts = correction.contradicts
    <2> HIDE DEF tx
    <2>1. correction.supersedes \cup correction.contradicts \subseteq Memory!MemoryId
      BY <1>1, <1>3
    <2> QED BY <1>c, <1>3, <1>4, <2>1, RecordedIs
  <1>6. next \in MemoryEvent
    BY <1>3, <1>4 DEF MemoryEvent
  <1>n. next = [kind |-> "MemorySuperseded", id |-> old, by |-> w.id, tx |-> tx + 1]
    OBVIOUS
  <1> HIDE DEF r, e, next
  <1>7. PICK rest : rest = <<next>>
    OBVIOUS
  <1>8. PICK appended : appended = <<e, next>>
    OBVIOUS
  <1>9. appended = <<e>> \o rest /\ rest \in Seq(MemoryEvent)
    <2>1. <<e, next>> = <<e>> \o <<next>>
      BY PairIsJoined, Zenon
    <2>2. <<next>> \in Seq(MemoryEvent)
      BY <1>6
    <2> QED BY <1>7, <1>8, <2>1, <2>2, Zenon
  <1>10. /\ journal' \in Seq(MemoryEvent) /\ Rebuilt'
         /\ service' = Memory!Applied(Memory!ApplyMemory(service, e), rest)
    BY <1>1, <1>2, <1>5, <1>8, <1>9, AppendingRebuilds
  <1>11. PICK s : s = Memory!ApplyMemory(service, e)
    OBVIOUS
  <1>12. service' = Memory!ApplyMemory(s, next)
    BY <1>7, <1>10, <1>11, AppliedOne
  <1>13. ServiceOK(s) /\ Consistent(s, {}) /\ NotCurrent(s, old)
    <2>1. r.id \notin DOMAIN service.memories
          /\ r.supersedes \cup r.contradicts \cup r.from \subseteq DOMAIN service.memories
          /\ old \in r.supersedes
      BY <1>c, <1>1, <1>5
    <2> HIDE DEF tx
    <2> QED BY <1>2, <1>3, <1>5, <1>11, <2>1, WritingStaysConsistent
  <1>14. PICK t : t = Memory!ApplyMemory(s, next)
    OBVIOUS
  <1>15. /\ ServiceOK(t) /\ Follows(s, t)
         /\ t.superseded_by = s.superseded_by \cup {<<old, w.id>>} /\ t.contradicted_by = s.contradicted_by
         /\ old \in DOMAIN t.memories => ~Memory!CurrentTruth(t.memories[old])
    <2>1. PICK by \in Memory!MemoryId, at \in Nat : by = w.id /\ at = tx + 1
      BY <1>3, <1>4
    <2>2. next = [kind |-> "MemorySuperseded", id |-> old, by |-> by, tx |-> at]
      BY <1>n, <2>1
    <2> QED BY <1>4, <1>13, <1>14, <2>1, <2>2, SupersedingMarks
  <1>16. Consistent(t, {})
    <2>1. PICK links : links = {<<old, w.id>>}
      OBVIOUS
    <2>2. NotCurrent(t, old)
      BY <1>13, <1>15 DEF NotCurrent, Follows
    <2>3. t.superseded_by = s.superseded_by \cup links /\ \A link \in links : NotCurrent(t, link[1])
      BY <1>15, <2>1, <2>2
    <2> QED BY <1>13, <1>15, <2>3, FollowingStaysConsistent
  <1> QED BY <1>10, <1>12, <1>14, <1>15, <1>16 DEF MemoryInv

LEMMA ConsolidateStep ==
  ASSUME MemoryInv, NEW w \in MemoryWrite, NEW sources, Memory!ConsolidateMemory(w, sources)
  PROVE  MemoryInv'
  <1> DEFINE tx == service.last_tx + 1
             plain == [w EXCEPT !.supersedes = {}, !.contradicts = {}, !.lifecycle = "Active"]
             r == Memory!Recorded(plain, sources, tx)
             e == Memory!Written(plain, sources, tx)
             order == Memory!SetToSeq(sources)
             rest == [i \in DOMAIN order |->
                        [kind |-> "MemoryLifecycleChanged", id |-> order[i], tx |-> tx + i]]
  <1>c. /\ plain.id = w.id /\ plain.lifecycle = "Active"
        /\ plain.readers = w.readers /\ plain.public = w.public /\ plain.valid = w.valid
        /\ plain.sources = w.sources /\ plain.contradicts = {} /\ plain.supersedes = {}
    BY WriteAssumption
  <1>1. /\ sources \subseteq DOMAIN service.memories
        /\ plain.id \notin DOMAIN service.memories
        /\ service' = Memory!Applied(service, <<e>> \o rest) /\ journal' = journal \o (<<e>> \o rest)
    BY DEF Memory!ConsolidateMemory, Memory!ValidateWrite, Memory!AppendAll, Memory!Known, Memory!NextTx
  <1> HIDE DEF plain
  <1>2. e = [kind |-> "MemoryWritten", record |-> r, tx |-> tx]
    BY DEF Memory!Written
  <1>3. ServiceOK(service) /\ Consistent(service, {}) /\ tx \in Nat
        /\ DOMAIN service.memories \subseteq Memory!MemoryId /\ IsFiniteSet(DOMAIN service.memories)
    BY DEF MemoryInv, ServiceOK
  <1>4. w.id \in Memory!MemoryId /\ "Active" \in LifecycleOf /\ sources \in SUBSET Memory!MemoryId
    BY <1>1, <1>3 DEF Memory!MemoryId, LifecycleOf
  <1>5. r \in MemoryRecord /\ r.id = w.id /\ r.from = sources /\ r.supersedes = {} /\ r.contradicts = {}
    <2> HIDE DEF tx
    <2>1. plain.supersedes \cup plain.contradicts \subseteq Memory!MemoryId
      BY <1>c
    <2> QED BY <1>c, <1>3, <1>4, <2>1, RecordedIs
  <1>6. IsFiniteSet(sources)
    BY <1>1, <1>3, FS_Subset
  <1>7. /\ DOMAIN order = 1..Cardinality(sources) /\ Cardinality(sources) \in Nat
        /\ \A i \in DOMAIN order : order[i] \in sources
        /\ \A x \in sources : \E i \in DOMAIN order : order[i] = x
    <2> HIDE DEF order
    <2> QED BY <1>6, OrderReaches DEF order
  <1> HIDE DEF order, r, e
  <1>8. PICK n \in Nat : n = Cardinality(sources)
    BY <1>7
  <1>9. rest = [i \in 1..n |-> [kind |-> "MemoryLifecycleChanged", id |-> order[i], tx |-> tx + i]]
    BY <1>7, <1>8
  <1>10. rest \in Seq(MemoryEvent) /\ Len(rest) = n
    <2>1. ASSUME NEW i \in 1..n
          PROVE  [kind |-> "MemoryLifecycleChanged", id |-> order[i], tx |-> tx + i] \in MemoryEvent
      <3>1. order[i] \in Memory!MemoryId /\ tx + i \in Nat
        BY <1>3, <1>4, <1>7, <1>8
      <3> HIDE DEF tx
      <3> QED BY <3>1 DEF MemoryEvent
    <2> HIDE DEF rest, tx
    <2> QED BY <1>9, <2>1
  <1>11. IsArchiving(rest, order, tx)
    <2> HIDE DEF rest, tx
    <2>1. \A i \in 1..n : order[i] \in Memory!MemoryId
      BY <1>4, <1>7, <1>8
    <2> QED BY <1>9, <1>10, <2>1 DEF IsArchiving
  <1> HIDE DEF rest
  <1>12. PICK appended : appended = <<e>> \o rest
    OBVIOUS
  <1>13. /\ journal' \in Seq(MemoryEvent) /\ Rebuilt'
         /\ service' = Memory!Applied(Memory!ApplyMemory(service, e), rest)
    BY <1>1, <1>2, <1>5, <1>10, <1>12, AppendingRebuilds
  <1>14. PICK s : s = Memory!ApplyMemory(service, e)
    OBVIOUS
  <1>15. /\ ServiceOK(s) /\ Consistent(s, {w.id})
         /\ DOMAIN s.memories = DOMAIN service.memories \cup {w.id} /\ s.memories[w.id] = r
    <2>1. r.id \notin DOMAIN service.memories
          /\ r.supersedes \cup r.contradicts \cup r.from \subseteq DOMAIN service.memories
      BY <1>c, <1>1, <1>5
    <2> HIDE DEF tx
    <2>2. /\ ServiceOK(s) /\ Consistent(s, {r.id})
          /\ DOMAIN s.memories = DOMAIN service.memories \cup {r.id} /\ s.memories[r.id] = r
      <3>1. PICK rec \in MemoryRecord : rec = r
        BY <1>5
      <3>2. PICK at \in Nat : at = tx
        BY <1>3
      <3>3. e = [kind |-> "MemoryWritten", record |-> rec, tx |-> at]
        BY <1>2, <3>1, <3>2
      <3>4. rec.id \notin DOMAIN service.memories
            /\ rec.supersedes \cup rec.contradicts \cup rec.from \subseteq DOMAIN service.memories
        BY <2>1, <3>1
      <3>5. LET after == Memory!ApplyMemory(service, e)
            IN  /\ ServiceOK(after) /\ Consistent(after, {rec.id})
                /\ DOMAIN after.memories = DOMAIN service.memories \cup {rec.id} /\ after.memories[rec.id] = rec
        BY <1>3, <3>3, <3>4, WritingStaysConsistent
      <3> QED BY <1>14, <3>1, <3>5
    <2> QED BY <1>5, <2>2
  <1>16. PICK t : t = Memory!Applied(s, rest)
    OBVIOUS
  <1>17. /\ ServiceOK(t) /\ Consistent(t, {w.id})
         /\ DOMAIN t.memories = DOMAIN s.memories
         /\ \A m \in DOMAIN s.memories : t.memories[m].from = s.memories[m].from
         /\ \A i \in 1..Len(rest) : order[i] \in DOMAIN s.memories => NotCurrent(t, order[i])
    <2>1. PICK new : new = {w.id}
      OBVIOUS
    <2>2. PICK last \in Nat : last = tx
      BY <1>3
    <2>3. Consistent(s, new) /\ IsArchiving(rest, order, last)
      BY <1>11, <1>15, <2>1, <2>2
    <2>4. Consistent(t, new)
      BY <1>15, <1>16, <2>3, ArchivingStaysConsistent
    <2> QED BY <1>15, <1>16, <2>1, <2>3, <2>4, ArchivingStaysConsistent
  <1>18. \A m \in t.memories[w.id].from : NotCurrent(t, m)
    <2> SUFFICES ASSUME NEW m \in t.memories[w.id].from PROVE NotCurrent(t, m)
      OBVIOUS
    <2>1. m \in sources /\ m \in DOMAIN s.memories
      BY <1>1, <1>5, <1>15, <1>17
    <2>2. PICK i \in 1..n : order[i] = m
      BY <1>7, <1>8, <2>1
    <2> QED BY <1>10, <1>17, <2>1, <2>2
  <1>19. Consistent(t, {})
    BY <1>17, <1>18 DEF Consistent
  <1> QED BY <1>13, <1>14, <1>16, <1>17, <1>19 DEF MemoryInv

LEMMA MemoryInitially == Memory!MemoryInit => MemoryInv
  <1> SUFFICES ASSUME Memory!MemoryInit PROVE MemoryInv
    OBVIOUS
  <1>1. PICK start \in 0..1 : service = Memory!NewService(start)
    BY DEF Memory!MemoryInit
  <1>2. journal = <<>>
    BY DEF Memory!MemoryInit
  <1>3. service = [memories |-> <<>>, last_tx |-> start, superseded_by |-> {}, contradicted_by |-> {}]
    BY <1>1 DEF Memory!NewService
  <1>4. /\ service.memories = <<>> /\ service.last_tx = start
        /\ service.superseded_by = {} /\ service.contradicted_by = {}
    BY <1>3
  <1>5. DOMAIN service.memories = {} /\ service.memories \in [{} -> MemoryRecord]
    <2>1. <<>> = [i \in {} |-> i]
      OBVIOUS
    <2>2. [i \in {} |-> i] \in [{} -> MemoryRecord] /\ DOMAIN [i \in {} |-> i] = {}
      OBVIOUS
    <2> QED BY <1>4, <2>1, <2>2
  <1>6. ServiceOK(service)
    BY <1>3, <1>4, <1>5, FS_EmptySet DEF ServiceOK
  <1>7. Consistent(service, {})
    BY <1>4, <1>5 DEF Consistent
  <1>8. Rebuilt
    BY <1>1, <1>2 DEF Rebuilt, Memory!MemoryIsJournal
  <1> QED BY <1>2, <1>6, <1>7, <1>8 DEF MemoryInv

LEMMA MemoryStep == MemoryInv /\ [Memory!MemoryNext]_Memory!memoryVars => MemoryInv'
  <1> SUFFICES ASSUME MemoryInv, [Memory!MemoryNext]_Memory!memoryVars PROVE MemoryInv'
    OBVIOUS
  <1>1. CASE UNCHANGED Memory!memoryVars
    BY <1>1 DEF Memory!memoryVars, MemoryInv, Rebuilt, Memory!MemoryIsJournal
  <1>2. CASE Memory!MemoryNext
    <2>1. PICK w \in MemoryWrite : \/ Memory!WriteMemory(w)
                             \/ \E sources \in SUBSET Memory!Known : Memory!ConsolidateMemory(w, sources)
                             \/ \E old \in Memory!Known : Memory!SupersedeMemory(old, w)
      BY <1>2 DEF Memory!MemoryNext
    <2>2. CASE Memory!WriteMemory(w)
      BY <2>2, WriteStep
    <2>3. CASE \E sources \in SUBSET Memory!Known : Memory!ConsolidateMemory(w, sources)
      BY <2>3, ConsolidateStep
    <2>4. CASE \E old \in Memory!Known : Memory!SupersedeMemory(old, w)
      BY <2>4, SupersedeStep
    <2> QED BY <2>1, <2>2, <2>3, <2>4
  <1> QED BY <1>1, <1>2

LEMMA MemoryInvStands == MemoryInv => MemoryStands
  <1> SUFFICES ASSUME MemoryInv PROVE Memory!CorrectedStaysOut
    BY DEF MemoryInv, Rebuilt, MemoryStands
  <1>1. Consistent(service, {}) /\ ServiceOK(service)
    BY DEF MemoryInv
  <1>2. ASSUME NEW link \in service.superseded_by \cup service.contradicted_by, NEW reader \in Reader
        PROVE  link[1] \notin Memory!RetrieveMemory(reader, "GraphTemporal", 1, FALSE)
    <2>1. NotCurrent(service, link[1])
      BY <1>1 DEF Consistent
    <2> QED BY <2>1 DEF NotCurrent, Memory!RetrieveMemory
  <1>3. ASSUME NEW m \in Memory!Known
        PROVE  LET r == service.memories[m]
               IN  /\ \A old \in r.supersedes : <<old, m>> \in service.superseded_by
                   /\ \A old \in r.contradicts : <<old, m>> \in service.contradicted_by
                   /\ r.from \cup r.supersedes \cup r.contradicts \subseteq Memory!Known
                   /\ \A old \in r.from : ~Memory!CurrentTruth(service.memories[old])
    <2>1. /\ \A old \in service.memories[m].supersedes : <<old, m>> \in service.superseded_by
          /\ \A old \in service.memories[m].contradicts : <<old, m>> \in service.contradicted_by
          /\ service.memories[m].from \subseteq Memory!Known
          /\ \A old \in service.memories[m].from : NotCurrent(service, old)
      BY <1>1, <1>3 DEF Consistent, Memory!Known
    <2>2. \A old : <<old, m>> \in service.superseded_by \cup service.contradicted_by => old \in Memory!Known
      <3> SUFFICES ASSUME NEW old, <<old, m>> \in service.superseded_by \cup service.contradicted_by
                   PROVE  old \in Memory!Known
        OBVIOUS
      <3>1. PICK link \in service.superseded_by \cup service.contradicted_by : link = <<old, m>>
        OBVIOUS
      <3>2. NotCurrent(service, link[1])
        BY <1>1 DEF Consistent
      <3> QED BY <3>1, <3>2 DEF NotCurrent, Memory!Known
    <2> QED BY <2>1, <2>2 DEF NotCurrent
  <1> QED BY <1>2, <1>3 DEF Memory!CorrectedStaysOut

(***************************************************************************)
(* Whatever agents write, consolidate and supersede, and in which order, a *)
(* restart rebuilds the service from its journal, and a memory once        *)
(* corrected is never offered as current truth again, nor its correction   *)
(* forgotten at either end (AgentMemoryService::replay, append_event,      *)
(* retrieve_memory, explain_memory).                                       *)
(***************************************************************************)
THEOREM MemoryAlwaysStands == MemorySpec => []MemoryStands
  <1>1. Memory!MemoryInit => MemoryInv
    BY MemoryInitially
  <1>2. MemoryInv /\ [Memory!MemoryNext]_Memory!memoryVars => MemoryInv'
    BY MemoryStep
  <1>3. MemoryInv => MemoryStands
    BY MemoryInvStands
  <1> QED BY <1>1, <1>2, <1>3, PTL DEF MemorySpec

-----------------------------------------------------------------------------
(***************************************************************************)
(* The services side by side: they share no variable, so that what each of *)
(* them promises stands whatever the others do.                            *)
(***************************************************************************)
(***************************************************************************)
(* The memory that is read is the one its journal and its corrections say, *)
(* a snapshot or a backup is restored whole, and no cache offers what has  *)
(* changed since (AgentMemoryService::replay, write_atomic,                *)
(* SnapshotReader::read, TemporalInvalidationIndex::invalidate_keys).      *)
(***************************************************************************)
THEOREM StoredAlwaysServed == MemorySpec /\ SnapshotSpec /\ CacheSpec => []StoredIsServed
  <1>1. MemoryStands /\ SnapshotsRestoreWhole /\ CachedIsFresh => StoredIsServed
    BY DEF StoredIsServed
  <1> QED BY <1>1, MemoryAlwaysStands, SnapshotsAlwaysRestore, CacheAlwaysFresh, PTL

(***************************************************************************)
(* Whoever is shown a record, a pack or an answer of other graphs was      *)
(* given it, and what is shown is never half of an exchange nor more than  *)
(* before a redaction (exchange_evidence, enforce_evidence_pack_inner,     *)
(* execute_plan, with_redaction).                                          *)
(***************************************************************************)
THEOREM ShownAlwaysPermitted == SharingSpec /\ GovernanceSpec /\ FederationSpec => ShownIsPermitted
  BY SharingAlwaysAudited, GovernedPacksAreClosed, FederationAlwaysAccounts, ExchangesAreWhole,
     RedactionsNeverReveal, PTL DEF ShownIsPermitted
=============================================================================
