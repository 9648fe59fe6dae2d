---------------------------- MODULE GraphEvents ----------------------------
(***************************************************************************)
(* The event-sourced write path of crates/rg-events: the graph state, the  *)
(* validation of a command against it, the event a command becomes, and    *)
(* what one event does to the state.  Everything here is a pure function   *)
(* of its arguments; EventLog.tla keeps the log these functions run over.  *)
(*                                                                         *)
(* Abstractions.  Identifiers are model values.  Names, types, uris,       *)
(* predicates, contexts, valid time and the causal ends of a link do not   *)
(* take part in any guard of the write path and are left out.  A sorted,   *)
(* de-duplicated Vec of ids is a set.  A BTreeMap is a function whose      *)
(* domain is the set of its keys.                                          *)
(***************************************************************************)
EXTENDS Integers, Sequences

CONSTANTS
  Entity, Source, Assertion, CausalLink, Memory,  \* identifiers
  Literal,      \* assertion objects that are not entities
  Confidence,   \* confidence scores
  Open          \* the absent end of a transaction-time interval

ASSUME IdentifierAssumption ==
  /\ Entity \cap Literal = {}
  /\ Open \notin Int

Object == Entity \cup Literal

AssertionStatus == {"active", "retracted"}
MemoryStatus    == {"active", "superseded"}

Put(f, k, v) == [x \in DOMAIN f \cup {k} |-> IF x = k THEN v ELSE f[x]]

IsMap(f, K, V) == DOMAIN f \subseteq K /\ f \in [DOMAIN f -> V]

-----------------------------------------------------------------------------
(***************************************************************************)
(* The graph state.                                                        *)
(***************************************************************************)
AssertionRecord ==
  [subject : Entity, object : Object, sources : SUBSET Source,
   confidence : Confidence, status : AssertionStatus,
   txStart : Int, txEnd : Int \cup {Open}]

MemoryRecord ==
  [sources : SUBSET Source, related : SUBSET Entity,
   supersedes : SUBSET Memory, status : MemoryStatus]

IsGraphState(g) ==
  /\ g \in [entities : SUBSET Entity, sources : SUBSET Source,
            assertions : {g.assertions}, evidence : {g.evidence},
            merged : {g.merged}, causal : {g.causal},
            memories : {g.memories}, outgoing : {g.outgoing}]
  /\ IsMap(g.assertions, Assertion, AssertionRecord)
  /\ IsMap(g.evidence, Assertion, SUBSET Source)
  /\ IsMap(g.merged, Entity, Entity)
  /\ IsMap(g.causal, CausalLink, SUBSET Source)
  /\ IsMap(g.memories, Memory, MemoryRecord)
  /\ IsMap(g.outgoing, Entity, SUBSET Assertion)

NoEntries == [x \in {} |-> x]

EmptyGraph ==
  [entities |-> {}, assertions |-> NoEntries, sources |-> {},
   evidence |-> NoEntries, merged |-> NoEntries, causal |-> NoEntries,
   memories |-> NoEntries, outgoing |-> NoEntries]

-----------------------------------------------------------------------------
(***************************************************************************)
(* Commands and the events they become.  An event is its command, stamped  *)
(* with the sequence number in its event id and its transaction time.      *)
(***************************************************************************)
Command ==
       [kind : {"create_entity"}, id : Entity]
  \cup [kind : {"add_assertion"}, id : Assertion, subject : Entity,
        object : Object, sources : SUBSET Source, confidence : Confidence]
  \cup [kind : {"retract_assertion"}, id : Assertion]
  \cup [kind : {"add_source"}, id : Source, scoreInRange : BOOLEAN]
  \cup [kind : {"link_evidence"}, id : Assertion, source : Source]
  \cup [kind : {"merge_entities"}, from : Entity, into : Entity]
  \cup [kind : {"update_confidence"}, id : Assertion,
        confidence : Confidence, sources : SUBSET Source]
  \cup [kind : {"add_causal_link"}, id : CausalLink, sources : SUBSET Source]
  \cup [kind : {"record_memory"}, id : Memory, sources : SUBSET Source,
        related : SUBSET Entity, supersedes : SUBSET Memory,
        status : MemoryStatus]

Event == [seq : Nat, tx : Int, cmd : Command]

EventOf(c, seq, tx) == [seq |-> seq, tx |-> tx, cmd |-> c]

(***************************************************************************)
(* validate: what a command must satisfy before it becomes an event.       *)
(***************************************************************************)
\* A slip the properties must notice: the object is not looked up.
RefsKnownButObject(g, c) ==
  c.subject \in g.entities /\ c.sources \subseteq g.sources

RefsKnown(g, c) ==
  /\ c.subject \in g.entities
  /\ c.object \in Entity => c.object \in g.entities
  /\ c.sources \subseteq g.sources

Validates(g, c) ==
  /\ c.kind = "create_entity" =>
       c.id \notin g.entities
  /\ c.kind = "add_assertion" =>
       RefsKnown(g, c) /\ c.id \notin DOMAIN g.assertions /\ c.sources # {}
  /\ c.kind = "retract_assertion" =>
       c.id \in DOMAIN g.assertions
  /\ c.kind = "add_source" =>
       c.id \notin g.sources /\ c.scoreInRange
  /\ c.kind = "link_evidence" =>
       c.id \in DOMAIN g.assertions /\ c.source \in g.sources
  /\ c.kind = "merge_entities" =>
       c.from # c.into /\ {c.from, c.into} \subseteq g.entities
  /\ c.kind = "update_confidence" =>
       c.id \in DOMAIN g.assertions /\ c.sources \subseteq g.sources
  /\ c.kind = "add_causal_link" =>
       c.id \notin DOMAIN g.causal /\ c.sources \subseteq g.sources
  /\ c.kind = "record_memory" =>
       /\ c.id \notin DOMAIN g.memories
       /\ c.sources # {} /\ c.sources \subseteq g.sources
       /\ c.related \subseteq g.entities
       /\ c.supersedes \subseteq DOMAIN g.memories

(***************************************************************************)
(* apply_event: the references an event must find in the state, ...        *)
(***************************************************************************)
Applicable(g, c) ==
  /\ c.kind = "add_assertion"     => RefsKnown(g, c)
  /\ c.kind = "retract_assertion" => c.id \in DOMAIN g.assertions
  /\ c.kind = "link_evidence"     =>
       c.id \in DOMAIN g.assertions /\ c.source \in g.sources
  /\ c.kind = "merge_entities"    => {c.from, c.into} \subseteq g.entities
  /\ c.kind = "update_confidence" =>
       c.sources \subseteq g.sources /\ c.id \in DOMAIN g.assertions
  /\ c.kind = "add_causal_link"   => c.sources \subseteq g.sources
  /\ c.kind = "record_memory"     =>
       /\ c.sources \subseteq g.sources
       /\ c.related \subseteq g.entities
       /\ c.supersedes \subseteq DOMAIN g.memories

(***************************************************************************)
(* ... and what the event does to the state, one operator per event.       *)
(***************************************************************************)
AsSet(f, k) == IF k \in DOMAIN f THEN f[k] ELSE {}

EntityCreated(g, c) == [g EXCEPT !.entities = @ \cup {c.id}]

SourceAdded(g, c) == [g EXCEPT !.sources = @ \cup {c.id}]

AssertionAdded(g, c, tx) ==
  [g EXCEPT
    !.outgoing = Put(@, c.subject, AsSet(@, c.subject) \cup {c.id}),
    !.assertions = Put(@, c.id,
       [subject |-> c.subject, object |-> c.object, sources |-> c.sources,
        confidence |-> c.confidence, status |-> "active",
        txStart |-> tx, txEnd |-> Open])]

\* A slip the properties must notice: the status of another type of record.
SupersededAt(r, tx) == [r EXCEPT !.status = "superseded", !.txEnd = tx]

\* A slip the properties must notice: the interval is closed where it began.
RetractedFromStart(r, tx) == [r EXCEPT !.status = "retracted", !.txEnd = r.txStart]

RetractedAt(r, tx) == [r EXCEPT !.status = "retracted", !.txEnd = tx]

AssertionRetracted(g, c, tx) ==
  [g EXCEPT !.assertions = Put(@, c.id, RetractedAt(@[c.id], tx))]

EvidenceLinked(g, c) ==
  [g EXCEPT !.evidence = Put(@, c.id, AsSet(@, c.id) \cup {c.source})]

EntityMerged(g, c) == [g EXCEPT !.merged = Put(@, c.from, c.into)]

Reassessed(r, c) ==
  [r EXCEPT !.confidence = c.confidence, !.sources = @ \cup c.sources]

ConfidenceUpdated(g, c) ==
  [g EXCEPT !.assertions = Put(@, c.id, Reassessed(@[c.id], c))]

CausalLinkAdded(g, c) == [g EXCEPT !.causal = Put(@, c.id, c.sources)]

\* A slip the properties must notice: superseded memories stay as they are.
MarkNone(mem, ids) == mem

MarkSuperseded(mem, ids) ==
  [m \in DOMAIN mem |->
     IF m \in ids THEN [mem[m] EXCEPT !.status = "superseded"] ELSE mem[m]]

AgentMemoryRecorded(g, c) ==
  [g EXCEPT !.memories =
    Put(MarkSuperseded(@, c.supersedes), c.id,
        [sources |-> c.sources, related |-> c.related,
         supersedes |-> c.supersedes, status |-> c.status])]

ApplyEvent(g, e) ==
  LET c == e.cmd IN
  CASE c.kind = "create_entity"     -> EntityCreated(g, c)
    [] c.kind = "add_assertion"     -> AssertionAdded(g, c, e.tx)
    [] c.kind = "retract_assertion" -> AssertionRetracted(g, c, e.tx)
    [] c.kind = "add_source"        -> SourceAdded(g, c)
    [] c.kind = "link_evidence"     -> EvidenceLinked(g, c)
    [] c.kind = "merge_entities"    -> EntityMerged(g, c)
    [] c.kind = "update_confidence" -> ConfidenceUpdated(g, c)
    [] c.kind = "add_causal_link"   -> CausalLinkAdded(g, c)
    [] c.kind = "record_memory"     -> AgentMemoryRecorded(g, c)

(***************************************************************************)
(* replay: the state after each prefix of a log, up to the first event     *)
(* that does not apply; a failed replay keeps nothing.                     *)
(***************************************************************************)
Replay(log) ==
  LET after[n \in 0..Len(log)] ==
        IF n = 0 THEN [ok |-> TRUE, graph |-> EmptyGraph]
        ELSE LET before == after[n - 1] IN
             IF before.ok /\ Applicable(before.graph, log[n].cmd)
             THEN [ok |-> TRUE, graph |-> ApplyEvent(before.graph, log[n])]
             ELSE [ok |-> FALSE, graph |-> EmptyGraph]
  IN after[Len(log)]

(***************************************************************************)
(* The assertions a graph state reports as known at transaction time k     *)
(* (TimeInterval::contains: the start is inclusive, the end exclusive).    *)
(***************************************************************************)
KnownAt(g, k) ==
  {a \in DOMAIN g.assertions :
     /\ g.assertions[a].txStart <= k
     /\ g.assertions[a].txEnd = Open \/ k < g.assertions[a].txEnd}
=============================================================================
