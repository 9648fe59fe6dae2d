----------------------------- MODULE GraphStore -----------------------------
(***************************************************************************)
(* The serving store of crates/rg-storage (InMemoryStorage) fed by the     *)
(* event log, as rg-api and the storage tests feed it: every event the log *)
(* accepts is appended to the store, and a restarted process rebuilds both *)
(* from the events.  An index is the set of <<key, assertion>> pairs of    *)
(* its BTreeMap.  by_predicate and by_valid_time are maintained by the     *)
(* same two calls as by_subject from another field that never changes, and *)
(* are left out.                                                           *)
(***************************************************************************)
EXTENDS EventLog, TLC

VARIABLES
  stored,     \* events of the store
  served,     \* its own copy of the graph state
  indexes     \* StorageIndexes

storeVars == <<stored, served, indexes>>
vars == <<logVars, storeVars>>

NoIndexes ==
  [bySubject |-> {}, byObject |-> {}, byEntity |-> {}, byTx |-> {},
   bySource |-> {}]

(***************************************************************************)
(* index_assertion: the pairs one assertion record contributes.            *)
(***************************************************************************)
\* A slip the properties must notice: the object entity is not an end of the assertion.
IndexSubjectOnly(idx, a, r) ==
  [bySubject |-> idx.bySubject \cup {<<r.subject, a>>},
   byObject  |-> idx.byObject \cup {<<r.object, a>>},
   byEntity  |-> idx.byEntity \cup {<<r.subject, a>>},
   byTx      |-> idx.byTx \cup {<<r.txStart, a>>},
   bySource  |-> idx.bySource \cup (r.sources \X {a})]

IndexAssertion(idx, a, r) ==
  [bySubject |-> idx.bySubject \cup {<<r.subject, a>>},
   byObject  |-> idx.byObject \cup {<<r.object, a>>},
   byEntity  |-> idx.byEntity \cup {<<r.subject, a>>}
                   \cup ({r.object} \cap Entity) \X {a},
   byTx      |-> idx.byTx \cup {<<r.txStart, a>>},
   bySource  |-> idx.bySource \cup (r.sources \X {a})]

(***************************************************************************)
(* StorageIndexes::from_state: index every assertion of a graph state.     *)
(***************************************************************************)
FromState(g) ==
  LET recs == g.assertions
      Pairs(Keys(_)) == UNION {Keys(recs[a]) \X {a} : a \in DOMAIN recs}
      Subject(r) == {r.subject}
      Objects(r) == {r.object}
      Ends(r)    == {r.subject} \cup ({r.object} \cap Entity)
      Start(r)   == {r.txStart}
      Origins(r) == r.sources
  IN [bySubject |-> Pairs(Subject), byObject |-> Pairs(Objects),
      byEntity |-> Pairs(Ends), byTx |-> Pairs(Start),
      bySource |-> Pairs(Origins)]

(***************************************************************************)
(* StorageIndexes::apply_event, run on the state after the event.          *)
(***************************************************************************)
IndexEvent(idx, e, g) ==
  LET c == e.cmd IN
  CASE c.kind = "add_assertion" -> IndexAssertion(idx, c.id, g.assertions[c.id])
    [] c.kind = "link_evidence" /\ c.id \in DOMAIN g.assertions ->
         [idx EXCEPT !.bySource = @ \cup {<<c.source, c.id>>}]
    [] OTHER -> idx

(***************************************************************************)
(* InMemoryStorage::append_event: nothing is kept of an event that does    *)
(* not apply.                                                              *)
(***************************************************************************)
AppendEvent(e) ==
  IF Applicable(served, e.cmd)
  THEN /\ stored' = Append(stored, e)
       /\ served' = ApplyEvent(served, e)
       /\ indexes' = IndexEvent(indexes, e, served')
  ELSE UNCHANGED storeVars

StorageReplay(log) ==
  /\ stored' = log
  /\ served' = Replay(log).graph
  /\ indexes' = FromState(served')

Init == LogInit /\ stored = <<>> /\ served = EmptyGraph /\ indexes = NoIndexes

Write(c) == Execute(c) /\ AppendEvent(NextEvent(c))

Restart == FromEvents /\ StorageReplay(events)

CreateEntity      == \E c \in Command : c.kind = "create_entity" /\ Write(c)
AddAssertion      == \E c \in Command : c.kind = "add_assertion" /\ Write(c)
RetractAssertion  == \E c \in Command : c.kind = "retract_assertion" /\ Write(c)
AddSource         == \E c \in Command : c.kind = "add_source" /\ Write(c)
LinkEvidence      == \E c \in Command : c.kind = "link_evidence" /\ Write(c)
MergeEntities     == \E c \in Command : c.kind = "merge_entities" /\ Write(c)
UpdateConfidence  == \E c \in Command : c.kind = "update_confidence" /\ Write(c)
AddCausalLink     == \E c \in Command : c.kind = "add_causal_link" /\ Write(c)
RecordAgentMemory == \E c \in Command : c.kind = "record_memory" /\ Write(c)

Next ==
  \/ CreateEntity \/ AddAssertion \/ RetractAssertion \/ AddSource
  \/ LinkEvidence \/ MergeEntities \/ UpdateConfidence \/ AddCausalLink
  \/ RecordAgentMemory \/ Restart

Spec == Init /\ [][Next]_vars

-----------------------------------------------------------------------------
StoreTypeOK ==
  /\ LogTypeOK
  /\ stored \in Seq(Event)
  /\ IsGraphState(served)
  /\ indexes \in [bySubject : SUBSET (Entity \X Assertion),
                  byObject  : SUBSET (Object \X Assertion),
                  byEntity  : SUBSET (Entity \X Assertion),
                  byTx      : SUBSET (Nat \X Assertion),
                  bySource  : SUBSET (Source \X Assertion)]

(***************************************************************************)
(* The store is fed event by event, applies each to a second copy of the   *)
(* state and maintains its indexes and the adjacency lists by separate     *)
(* code.  None of them ever drifts: the copy is the log's own state, the   *)
(* indexes are what a rebuild from it would put there for every key an     *)
(* assertion is given once and for all, and the source index lies between  *)
(* what its assertions cited when added and what supports them now.        *)
(***************************************************************************)
StoreFollowsLog == stored = events /\ served = graph

FixedKeysExact ==
  LET rebuilt == FromState(served) IN
  \A i \in {"bySubject", "byObject", "byEntity", "byTx"} : indexes[i] = rebuilt[i]

SourceIndexSound ==
  \A p \in indexes.bySource :
    LET a == p[2] IN
    /\ a \in DOMAIN served.assertions
    /\ p[1] \in served.assertions[a].sources \cup AsSet(served.evidence, a)

SourceIndexKeepsCited ==
  \A i \in 1..Len(stored) :
    stored[i].cmd.kind = "add_assertion" =>
      stored[i].cmd.sources \X {stored[i].cmd.id} \subseteq indexes.bySource

IndexesFollowState ==
  /\ StoreFollowsLog /\ OutgoingExact
  /\ FixedKeysExact /\ SourceIndexSound /\ SourceIndexKeepsCited

(***************************************************************************)
(* docs/architecture/system-overview.md: "Replaying the event log plus     *)
(* snapshots must rebuild equivalent serving indexes."                     *)
(***************************************************************************)
ReplayRebuildsIndexes == indexes = FromState(Replay(events).graph)

\* The identifiers of one kind are interchangeable: a state and its renamings are explored once.
Symmetry ==
  Permutations(Entity) \cup Permutations(Source)
    \cup Permutations(Assertion) \cup Permutations(Memory)
=============================================================================
