-------------------------- MODULE GraphEventsProofs --------------------------
(***************************************************************************)
(* Facts about the write path of crates/rg-events that every log built on  *)
(* it needs: that an accepted command applies, that applying an event      *)
(* keeps the types of the graph state, and what replay computes for a log  *)
(* of any length.  The recursive function of Replay is shown to exist and  *)
(* to be unique by the least-number principle: induction over a set of     *)
(* numbers, unlike induction over a formula, takes no operator argument.   *)
(***************************************************************************)
EXTENDS GraphEvents, WellFoundedInduction, TLAPS

-----------------------------------------------------------------------------
(***************************************************************************)
(* Maps.                                                                   *)
(***************************************************************************)

(* Put has the new key in its domain, the new value there, and the old     *)
(* values everywhere else.                                                 *)
LEMMA PutValues ==
  ASSUME NEW f, NEW k, NEW v
  PROVE  /\ DOMAIN Put(f, k, v) = DOMAIN f \cup {k}
         /\ Put(f, k, v)[k] = v
         /\ \A x \in DOMAIN f : x # k => Put(f, k, v)[x] = f[x]
  BY DEF Put

(* Put keeps a map over K and V one, when its key and value are of them.   *)
LEMMA PutIsMap ==
  ASSUME NEW K, NEW V, NEW f, IsMap(f, K, V), NEW k \in K, NEW v \in V
  PROVE  IsMap(Put(f, k, v), K, V)
  BY DEF Put, IsMap

(* A value looked up with a default is of the range of the map, or empty.  *)
LEMMA AsSetType ==
  ASSUME NEW K, NEW S, NEW f, IsMap(f, K, SUBSET S), NEW k
  PROVE  AsSet(f, k) \in SUBSET S
  BY DEF IsMap, AsSet

(* Marking memories superseded keeps the map of memories one, and its keys. *)
LEMMA MarkIsMap ==
  ASSUME NEW mem, IsMap(mem, Memory, MemoryRecord), NEW ids
  PROVE  /\ IsMap(MarkSuperseded(mem, ids), Memory, MemoryRecord)
         /\ DOMAIN MarkSuperseded(mem, ids) = DOMAIN mem
  BY DEF MarkSuperseded, IsMap, MemoryRecord, MemoryStatus

-----------------------------------------------------------------------------
(***************************************************************************)
(* Commands.                                                               *)
(***************************************************************************)

(* Every check that applying an event makes was made when its command was  *)
(* validated: an accepted command always applies.                          *)
LEMMA ValidApplies ==
  ASSUME NEW g, NEW c \in Command, Validates(g, c)
  PROVE  Applicable(g, c)
  BY DEF Validates, Applicable

(* What an event of each kind does to the state.                           *)
LEMMA ApplyCases ==
  ASSUME NEW g, NEW e
  PROVE  LET c == e.cmd  after == ApplyEvent(g, e) IN
         /\ c.kind = "create_entity"     => after = EntityCreated(g, c)
         /\ c.kind = "add_assertion"     => after = AssertionAdded(g, c, e.tx)
         /\ c.kind = "retract_assertion" => after = AssertionRetracted(g, c, e.tx)
         /\ c.kind = "add_source"        => after = SourceAdded(g, c)
         /\ c.kind = "link_evidence"     => after = EvidenceLinked(g, c)
         /\ c.kind = "merge_entities"    => after = EntityMerged(g, c)
         /\ c.kind = "update_confidence" => after = ConfidenceUpdated(g, c)
         /\ c.kind = "add_causal_link"   => after = CausalLinkAdded(g, c)
         /\ c.kind = "record_memory"     => after = AgentMemoryRecorded(g, c)
  BY Zenon DEF ApplyEvent

(* The kinds of a command.                                                 *)
LEMMA CommandKinds ==
  ASSUME NEW c \in Command
  PROVE  c.kind \in {"create_entity", "add_assertion", "retract_assertion",
                     "add_source", "link_evidence", "merge_entities",
                     "update_confidence", "add_causal_link", "record_memory"}
  BY DEF Command

-----------------------------------------------------------------------------
(***************************************************************************)
(* Types.                                                                  *)
(***************************************************************************)

(* The empty graph is a graph state.                                       *)
LEMMA EmptyGraphType == IsGraphState(EmptyGraph)
  BY DEF IsGraphState, EmptyGraph, NoEntries, IsMap

(* An event that applies takes a graph state to a graph state.             *)
LEMMA ApplyType ==
  ASSUME NEW g, IsGraphState(g), NEW e \in Event, Applicable(g, e.cmd)
  PROVE  IsGraphState(ApplyEvent(g, e))
  <1> DEFINE c == e.cmd
  <1>e. c \in Command /\ e.tx \in Int
    BY DEF Event
  <1>1. CASE c.kind = "create_entity"
    <2>1. ApplyEvent(g, e) = EntityCreated(g, c)  BY <1>1, ApplyCases
    <2>2. c.id \in Entity  BY <1>1, <1>e DEF Command
    <2> QED BY <2>1, <2>2 DEF EntityCreated, IsGraphState
  <1>2. CASE c.kind = "add_assertion"
    <2>1. ApplyEvent(g, e) = AssertionAdded(g, c, e.tx)  BY <1>2, ApplyCases
    <2>2. /\ c.id \in Assertion /\ c.subject \in Entity /\ c.object \in Object
          /\ c.sources \in SUBSET Source /\ c.confidence \in Confidence
      BY <1>2, <1>e DEF Command
    <2>3. IsMap(Put(g.outgoing, c.subject, AsSet(g.outgoing, c.subject) \cup {c.id}),
                Entity, SUBSET Assertion)
      <3>1. AsSet(g.outgoing, c.subject) \in SUBSET Assertion
        BY AsSetType DEF IsGraphState
      <3> QED BY <2>2, <3>1, PutIsMap DEF IsGraphState
    <2>4. IsMap(Put(g.assertions, c.id,
                    [subject |-> c.subject, object |-> c.object, sources |-> c.sources,
                     confidence |-> c.confidence, status |-> "active",
                     txStart |-> e.tx, txEnd |-> Open]),
                Assertion, AssertionRecord)
      <3>1. [subject |-> c.subject, object |-> c.object, sources |-> c.sources,
             confidence |-> c.confidence, status |-> "active",
             txStart |-> e.tx, txEnd |-> Open] \in AssertionRecord
        BY <1>e, <2>2 DEF AssertionRecord, AssertionStatus
      <3> QED BY <2>2, <3>1, PutIsMap DEF IsGraphState
    <2> QED BY <2>1, <2>3, <2>4 DEF AssertionAdded, IsGraphState
  <1>3. CASE c.kind = "retract_assertion"
    <2>1. ApplyEvent(g, e) = AssertionRetracted(g, c, e.tx)  BY <1>3, ApplyCases
    <2>2. c.id \in DOMAIN g.assertions  BY <1>3 DEF Applicable
    <2>3. /\ c.id \in Assertion
          /\ RetractedAt(g.assertions[c.id], e.tx) \in AssertionRecord
      BY <1>e, <2>2
      DEF IsGraphState, IsMap, AssertionRecord, AssertionStatus, RetractedAt
    <2>4. IsMap(Put(g.assertions, c.id, RetractedAt(g.assertions[c.id], e.tx)),
                Assertion, AssertionRecord)
      BY <2>3, PutIsMap DEF IsGraphState
    <2> QED BY <2>1, <2>4 DEF AssertionRetracted, IsGraphState
  <1>4. CASE c.kind = "add_source"
    <2>1. ApplyEvent(g, e) = SourceAdded(g, c)  BY <1>4, ApplyCases
    <2>2. c.id \in Source  BY <1>4, <1>e DEF Command
    <2> QED BY <2>1, <2>2 DEF SourceAdded, IsGraphState
  <1>5. CASE c.kind = "link_evidence"
    <2>1. ApplyEvent(g, e) = EvidenceLinked(g, c)  BY <1>5, ApplyCases
    <2>2. c.id \in Assertion /\ c.source \in Source  BY <1>5, <1>e DEF Command
    <2>3. AsSet(g.evidence, c.id) \in SUBSET Source
      BY AsSetType DEF IsGraphState
    <2>4. IsMap(Put(g.evidence, c.id, AsSet(g.evidence, c.id) \cup {c.source}),
                Assertion, SUBSET Source)
      BY <2>2, <2>3, PutIsMap DEF IsGraphState
    <2> QED BY <2>1, <2>4 DEF EvidenceLinked, IsGraphState
  <1>6. CASE c.kind = "merge_entities"
    <2>1. ApplyEvent(g, e) = EntityMerged(g, c)  BY <1>6, ApplyCases
    <2>2. c.from \in Entity /\ c.into \in Entity  BY <1>6, <1>e DEF Command
    <2>3. IsMap(Put(g.merged, c.from, c.into), Entity, Entity)
      BY <2>2, PutIsMap DEF IsGraphState
    <2> QED BY <2>1, <2>3 DEF EntityMerged, IsGraphState
  <1>7. CASE c.kind = "update_confidence"
    <2>1. ApplyEvent(g, e) = ConfidenceUpdated(g, c)  BY <1>7, ApplyCases
    <2>2. c.id \in DOMAIN g.assertions  BY <1>7 DEF Applicable
    <2>3. c.confidence \in Confidence /\ c.sources \in SUBSET Source
      BY <1>7, <1>e DEF Command
    <2>4. /\ c.id \in Assertion
          /\ Reassessed(g.assertions[c.id], c) \in AssertionRecord
      BY <2>2, <2>3 DEF IsGraphState, IsMap, AssertionRecord, Reassessed
    <2>5. IsMap(Put(g.assertions, c.id, Reassessed(g.assertions[c.id], c)),
                Assertion, AssertionRecord)
      BY <2>4, PutIsMap DEF IsGraphState
    <2> QED BY <2>1, <2>5 DEF ConfidenceUpdated, IsGraphState
  <1>8. CASE c.kind = "add_causal_link"
    <2>1. ApplyEvent(g, e) = CausalLinkAdded(g, c)  BY <1>8, ApplyCases
    <2>2. c.id \in CausalLink /\ c.sources \in SUBSET Source
      BY <1>8, <1>e DEF Command
    <2>3. IsMap(Put(g.causal, c.id, c.sources), CausalLink, SUBSET Source)
      BY <2>2, PutIsMap DEF IsGraphState
    <2> QED BY <2>1, <2>3 DEF CausalLinkAdded, IsGraphState
  <1>9. CASE c.kind = "record_memory"
    <2>1. ApplyEvent(g, e) = AgentMemoryRecorded(g, c)  BY <1>9, ApplyCases
    <2> DEFINE rec == [sources |-> c.sources, related |-> c.related,
                       supersedes |-> c.supersedes, status |-> c.status]
    <2>2. c.id \in Memory /\ rec \in MemoryRecord
      BY <1>9, <1>e DEF Command, MemoryRecord
    <2>3. IsMap(MarkSuperseded(g.memories, c.supersedes), Memory, MemoryRecord)
      BY MarkIsMap DEF IsGraphState
    <2>4. IsMap(Put(MarkSuperseded(g.memories, c.supersedes), c.id, rec),
                Memory, MemoryRecord)
      BY <2>2, <2>3, PutIsMap
    <2> QED BY <2>1, <2>4 DEF AgentMemoryRecorded, IsGraphState
  <1> QED
    BY <1>e, <1>1, <1>2, <1>3, <1>4, <1>5, <1>6, <1>7, <1>8, <1>9, CommandKinds

(* Only adding, retracting and reassessing an assertion touch assertions.  *)
LEMMA AssertionsUntouched ==
  ASSUME NEW g, IsGraphState(g), NEW e \in Event,
         e.cmd.kind \notin {"add_assertion", "retract_assertion", "update_confidence"}
  PROVE  ApplyEvent(g, e).assertions = g.assertions
  <1> DEFINE c == e.cmd
             h == ApplyEvent(g, e)
  <1>e. c \in Command  BY DEF Event
  <1> SUFFICES h.assertions = g.assertions
    OBVIOUS
  <1> USE DEF IsGraphState
  <1>1. c.kind = "create_entity" => h.assertions = g.assertions
    BY ApplyCases DEF EntityCreated
  <1>2. c.kind = "add_source" => h.assertions = g.assertions
    BY ApplyCases DEF SourceAdded
  <1>3. c.kind = "link_evidence" => h.assertions = g.assertions
    <2> SUFFICES ASSUME c.kind = "link_evidence" PROVE h.assertions = g.assertions
      OBVIOUS
    <2>1. h = EvidenceLinked(g, c)  BY ApplyCases
    <2> QED BY <2>1 DEF EvidenceLinked
  <1>4. c.kind = "merge_entities" => h.assertions = g.assertions
    BY ApplyCases DEF EntityMerged
  <1>5. c.kind = "add_causal_link" => h.assertions = g.assertions
    BY ApplyCases DEF CausalLinkAdded
  <1>6. c.kind = "record_memory" => h.assertions = g.assertions
    <2> SUFFICES ASSUME c.kind = "record_memory" PROVE h.assertions = g.assertions
      OBVIOUS
    <2>1. h = AgentMemoryRecorded(g, c)  BY ApplyCases
    <2> QED BY <2>1 DEF AgentMemoryRecorded
  <1> QED BY <1>e, <1>1, <1>2, <1>3, <1>4, <1>5, <1>6, CommandKinds

-----------------------------------------------------------------------------
(***************************************************************************)
(* Nothing an event could refer to is ever taken out of the state, so that *)
(* an event that applies to a state applies to any state that knows more:  *)
(* the log a process writes to and the one it would read back may differ   *)
(* by events whose append was reported as failed.                          *)
(***************************************************************************)
Covers(h, g) ==
  /\ g.entities \subseteq h.entities /\ g.sources \subseteq h.sources
  /\ DOMAIN g.assertions \subseteq DOMAIN h.assertions
  /\ DOMAIN g.memories \subseteq DOMAIN h.memories

New(c, kind) == IF c.kind = kind THEN {c.id} ELSE {}

(* What a state knows after an event that applies: one more identifier.    *)
LEMMA ApplyKnows ==
  ASSUME NEW g, IsGraphState(g), NEW e \in Event, Applicable(g, e.cmd)
  PROVE  LET c == e.cmd  h == ApplyEvent(g, e) IN
         /\ h.entities = g.entities \cup New(c, "create_entity")
         /\ h.sources = g.sources \cup New(c, "add_source")
         /\ DOMAIN h.assertions = DOMAIN g.assertions \cup New(c, "add_assertion")
         /\ DOMAIN h.memories = DOMAIN g.memories \cup New(c, "record_memory")
  <1> DEFINE c == e.cmd
             h == ApplyEvent(g, e)
             Knows(x) ==
               /\ x.entities = g.entities \cup New(c, "create_entity")
               /\ x.sources = g.sources \cup New(c, "add_source")
               /\ DOMAIN x.assertions = DOMAIN g.assertions \cup New(c, "add_assertion")
               /\ DOMAIN x.memories = DOMAIN g.memories \cup New(c, "record_memory")
  <1>e. c \in Command  BY DEF Event
  <1> SUFFICES Knows(h)
    OBVIOUS
  <1>1. CASE c.kind = "create_entity"
    <2>1. h = EntityCreated(g, c)  BY <1>1, ApplyCases
    <2> HIDE DEF h
    <2> QED BY <1>1, <2>1 DEF EntityCreated, IsGraphState, New
  <1>2. CASE c.kind = "add_assertion"
    <2>1. h = AssertionAdded(g, c, e.tx)  BY <1>2, ApplyCases
    <2> DEFINE r == [subject |-> c.subject, object |-> c.object, sources |-> c.sources,
                     confidence |-> c.confidence, status |-> "active",
                     txStart |-> e.tx, txEnd |-> Open]
    <2>2. /\ h.entities = g.entities /\ h.sources = g.sources /\ h.memories = g.memories
          /\ h.assertions = Put(g.assertions, c.id, r)
      BY <2>1 DEF AssertionAdded, IsGraphState
    <2>3. DOMAIN h.assertions = DOMAIN g.assertions \cup {c.id}
      <3> HIDE DEF c, h, r
      <3> QED BY <2>2 DEF Put
    <2> HIDE DEF h
    <2> QED BY <1>2, <2>2, <2>3 DEF New
  <1>3. CASE c.kind = "retract_assertion"
    <2>1. h = AssertionRetracted(g, c, e.tx)  BY <1>3, ApplyCases
    <2>2. \A v : DOMAIN Put(g.assertions, c.id, v) = DOMAIN g.assertions
      <3>1. c.id \in DOMAIN g.assertions  BY <1>3 DEF Applicable
      <3> HIDE DEF c
      <3> QED BY <3>1 DEF Put
    <2>3. /\ h.entities = g.entities /\ h.sources = g.sources /\ h.memories = g.memories
          /\ DOMAIN h.assertions = DOMAIN g.assertions
      BY <2>1, <2>2 DEF AssertionRetracted, IsGraphState
    <2> HIDE DEF h
    <2> QED BY <1>3, <2>3 DEF New
  <1>4. CASE c.kind = "add_source"
    <2>1. h = SourceAdded(g, c)  BY <1>4, ApplyCases
    <2> HIDE DEF h
    <2> QED BY <1>4, <2>1 DEF SourceAdded, IsGraphState, New
  <1>5. CASE c.kind = "link_evidence"
    <2>1. h = EvidenceLinked(g, c)  BY <1>5, ApplyCases
    <2>2. /\ h.entities = g.entities /\ h.sources = g.sources /\ h.memories = g.memories
          /\ h.assertions = g.assertions
      BY <2>1 DEF EvidenceLinked, IsGraphState
    <2> HIDE DEF h
    <2> QED BY <1>5, <2>2 DEF New
  <1>6. CASE c.kind = "merge_entities"
    <2>1. h = EntityMerged(g, c)  BY <1>6, ApplyCases
    <2>2. /\ h.entities = g.entities /\ h.sources = g.sources /\ h.memories = g.memories
          /\ h.assertions = g.assertions
      BY <2>1 DEF EntityMerged, IsGraphState
    <2> HIDE DEF h
    <2> QED BY <1>6, <2>2 DEF New
  <1>7. CASE c.kind = "update_confidence"
    <2>1. h = ConfidenceUpdated(g, c)  BY <1>7, ApplyCases
    <2>2. \A v : DOMAIN Put(g.assertions, c.id, v) = DOMAIN g.assertions
      <3>1. c.id \in DOMAIN g.assertions  BY <1>7 DEF Applicable
      <3> HIDE DEF c
      <3> QED BY <3>1 DEF Put
    <2>3. /\ h.entities = g.entities /\ h.sources = g.sources /\ h.memories = g.memories
          /\ DOMAIN h.assertions = DOMAIN g.assertions
      BY <2>1, <2>2 DEF ConfidenceUpdated, IsGraphState
    <2> HIDE DEF h
    <2> QED BY <1>7, <2>3 DEF New
  <1>8. CASE c.kind = "add_causal_link"
    <2>1. h = CausalLinkAdded(g, c)  BY <1>8, ApplyCases
    <2>2. /\ h.entities = g.entities /\ h.sources = g.sources /\ h.memories = g.memories
          /\ h.assertions = g.assertions
      BY <2>1 DEF CausalLinkAdded, IsGraphState
    <2> HIDE DEF h
    <2> QED BY <1>8, <2>2 DEF New
  <1>9. CASE c.kind = "record_memory"
    <2>1. h = AgentMemoryRecorded(g, c)  BY <1>9, ApplyCases
    <2>2. \A v : DOMAIN Put(MarkSuperseded(g.memories, c.supersedes), c.id, v)
                   = DOMAIN g.memories \cup {c.id}
      <3>1. DOMAIN MarkSuperseded(g.memories, c.supersedes) = DOMAIN g.memories
        BY DEF MarkSuperseded
      <3> HIDE DEF c
      <3> QED BY <3>1 DEF Put
    <2>3. /\ h.entities = g.entities /\ h.sources = g.sources /\ h.assertions = g.assertions
          /\ DOMAIN h.memories = DOMAIN g.memories \cup {c.id}
      BY <2>1, <2>2 DEF AgentMemoryRecorded, IsGraphState
    <2> HIDE DEF h
    <2> QED BY <1>9, <2>3 DEF New
  <1> QED
    BY <1>e, <1>1, <1>2, <1>3, <1>4, <1>5, <1>6, <1>7, <1>8, <1>9, CommandKinds

(* What applies to a state applies to one that knows more.                 *)
LEMMA ApplicableUpward ==
  ASSUME NEW g, NEW h, Covers(h, g), NEW c, Applicable(g, c)
  PROVE  Applicable(h, c)
  BY DEF Covers, Applicable, RefsKnown

(* And leaves it knowing more than either.                                 *)
LEMMA ApplyCovers ==
  ASSUME NEW g, IsGraphState(g), NEW h, IsGraphState(h), Covers(h, g),
         NEW e \in Event, Applicable(g, e.cmd)
  PROVE  /\ Covers(ApplyEvent(h, e), ApplyEvent(g, e))
         /\ Covers(ApplyEvent(h, e), g)
  <1>1. Applicable(h, e.cmd)
    BY ApplicableUpward
  <1> QED BY <1>1, ApplyKnows DEF Covers

-----------------------------------------------------------------------------
(***************************************************************************)
(* Induction, for sets of naturals.                                        *)
(***************************************************************************)

(* A set of naturals that is not empty has a least element.                *)
LEMMA LeastNumber ==
  ASSUME NEW S \in SUBSET Nat, NEW n \in S
  PROVE  \E m \in S : \A k \in S : m <= k
<1> DEFINE Below == {p \in Nat \X Nat : p[1] < p[2]}
<1>1. IsWellFoundedOn(Below, Nat)
  BY NatLessThanWellFounded DEF OpToRel
<1>2. PICK m \in S : \A k \in S : ~ (<<k, m>> \in Below)
  <2> HIDE DEF Below
  <2> QED BY <1>1, WFMin, Zenon
<1>3. \A k \in S : m <= k
  <2> SUFFICES ASSUME NEW k \in S, ~(m <= k) PROVE FALSE
    OBVIOUS
  <2>1. k \in Nat /\ m \in Nat /\ k < m
    OBVIOUS
  <2>2. <<k, m>> \in Below
    BY <2>1
  <2> QED BY <1>2, <2>2
<1> QED BY <1>3

(* A set with 0 and the successor of each of its members is all of Nat.    *)
LEMMA InductionOnSets ==
  ASSUME NEW S \in SUBSET Nat, 0 \in S, \A n \in S : n + 1 \in S
  PROVE  S = Nat
<1> SUFFICES ASSUME NEW x \in Nat, x \notin S PROVE FALSE
  OBVIOUS
<1> DEFINE Rest == Nat \ S
<1>1. x \in Rest /\ Rest \in SUBSET Nat
  OBVIOUS
<1>2. PICK m \in Rest : \A k \in Rest : m <= k
  <2> HIDE DEF Rest
  <2> QED BY <1>1, LeastNumber
<1>3. m \in Nat /\ m # 0 /\ m - 1 \in Nat
  BY <1>2
<1>4. m - 1 \in S
  BY <1>2, <1>3
<1>5. (m - 1) + 1 \in S
  BY <1>4
<1> QED BY <1>2, <1>3, <1>5

-----------------------------------------------------------------------------
(***************************************************************************)
(* The function that Replay defines.                                       *)
(***************************************************************************)
NothingReplayed == [ok |-> TRUE, graph |-> EmptyGraph]

Stepped(before, e) ==
  IF before.ok /\ Applicable(before.graph, e.cmd)
  THEN [ok |-> TRUE, graph |-> ApplyEvent(before.graph, e)]
  ELSE [ok |-> FALSE, graph |-> EmptyGraph]

\* f holds the state after each of the first k events of the log.
IsReplay(f, log, k) ==
  f = [n \in 0..k |-> IF n = 0 THEN NothingReplayed ELSE Stepped(f[n - 1], log[n])]

(* What such a function is, point by point.                                *)
LEMMA ReplayPoints ==
  ASSUME NEW f, NEW log, NEW k \in Nat, IsReplay(f, log, k)
  PROVE  /\ f[0] = NothingReplayed
         /\ \A n \in 1..k : f[n] = Stepped(f[n - 1], log[n])
<1> DEFINE G(n) == IF n = 0 THEN NothingReplayed ELSE Stepped(f[n - 1], log[n])
<1>1. f = [n \in 0..k |-> G(n)]
  BY DEF IsReplay
<1>2. \A n \in 0..k : f[n] = G(n)
  <2> HIDE DEF G
  <2> QED BY <1>1
<1> QED BY <1>2

(* There is one for every number of events.                                *)
LEMMA ReplayExists ==
  ASSUME NEW log
  PROVE  \A k \in Nat : \E f : IsReplay(f, log, k)
<1> DEFINE S == {k \in Nat : \E f : IsReplay(f, log, k)}
<1>1. 0 \in S
  <2> DEFINE f == [n \in 0..0 |-> NothingReplayed]
  <2>1. f = [n \in 0..0 |-> IF n = 0 THEN NothingReplayed ELSE Stepped(f[n - 1], log[n])]
    OBVIOUS
  <2>2. IsReplay(f, log, 0)
    BY <2>1 DEF IsReplay
  <2> QED BY <2>2
<1>2. ASSUME NEW k \in S PROVE k + 1 \in S
  <2>1. PICK f : IsReplay(f, log, k)
    OBVIOUS
  <2>2. k \in Nat /\ f[0] = NothingReplayed /\ \A n \in 1..k : f[n] = Stepped(f[n - 1], log[n])
    BY <2>1, ReplayPoints
  <2> DEFINE g == [n \in 0..k + 1 |-> IF n = k + 1 THEN Stepped(f[k], log[k + 1]) ELSE f[n]]
             H(n) == IF n = 0 THEN NothingReplayed ELSE Stepped(g[n - 1], log[n])
  <2>3. ASSUME NEW n \in 0..k + 1 PROVE g[n] = H(n)
    <3>1. CASE n = 0
      BY <2>2, <3>1
    <3>2. CASE n \in 1..k
      <4>1. g[n] = f[n] /\ g[n - 1] = f[n - 1] /\ n # 0
        BY <2>2, <3>2
      <4> QED BY <2>2, <3>2, <4>1
    <3>3. CASE n = k + 1
      <4>1. g[n] = Stepped(f[k], log[k + 1]) /\ g[n - 1] = f[k] /\ n # 0
        BY <2>2, <3>3
      <4> QED BY <3>3, <4>1
    <3> QED BY <2>2, <3>1, <3>2, <3>3
  <2>4. g = [n \in 0..k + 1 |-> H(n)]
    <3>1. DOMAIN g = 0..k + 1 /\ g = [n \in DOMAIN g |-> g[n]]
      OBVIOUS
    <3> HIDE DEF g, H
    <3> QED BY <2>3, <3>1
  <2>5. IsReplay(g, log, k + 1)
    BY <2>4 DEF IsReplay
  <2> QED BY <2>2, <2>5
<1>3. S = Nat
  <2>1. S \in SUBSET Nat
    OBVIOUS
  <2> HIDE DEF S
  <2> QED BY <1>1, <1>2, <2>1, InductionOnSets
<1> QED BY <1>3

\* The first k events of the two logs are the same.
SameUpTo(log, longer, k) == \A n \in 1..k : log[n] = longer[n]

(* It depends on no event after the k-th, and there is only one.           *)
LEMMA ReplayUnique ==
  ASSUME NEW log, NEW longer, NEW f, NEW g, NEW k \in Nat, NEW m \in Nat, k <= m,
         IsReplay(f, log, k), IsReplay(g, longer, m),
         SameUpTo(log, longer, k)
  PROVE  f[k] = g[k]
<1>1. /\ \A n \in 1..k : log[n] = longer[n]
      /\ f[0] = NothingReplayed /\ \A n \in 1..k : f[n] = Stepped(f[n - 1], log[n])
      /\ g[0] = NothingReplayed /\ \A n \in 1..m : g[n] = Stepped(g[n - 1], longer[n])
  BY ReplayPoints DEF SameUpTo
<1> DEFINE S == {n \in Nat : n <= k => f[n] = g[n]}
<1>2. 0 \in S
  BY <1>1
<1>3. ASSUME NEW n \in S PROVE n + 1 \in S
  <2> SUFFICES ASSUME n + 1 <= k PROVE f[n + 1] = g[n + 1]
    OBVIOUS
  <2>1. n \in Nat /\ n + 1 \in 1..k /\ n + 1 \in 1..m /\ (n + 1) - 1 = n /\ f[n] = g[n]
    OBVIOUS
  <2>2. f[n + 1] = Stepped(f[n], log[n + 1])
    BY <1>1, <2>1
  <2>3. g[n + 1] = Stepped(g[n], longer[n + 1])
    BY <1>1, <2>1
  <2> QED BY <1>1, <2>1, <2>2, <2>3
<1>4. S = Nat
  <2>1. S \in SUBSET Nat
    OBVIOUS
  <2> HIDE DEF S
  <2> QED BY <1>2, <1>3, <2>1, InductionOnSets
<1> QED BY <1>4

(* Replay is the last value of that function.                              *)
LEMMA ReplayIs ==
  ASSUME NEW log, Len(log) \in Nat, NEW f, IsReplay(f, log, Len(log))
  PROVE  Replay(log) = f[Len(log)]
<1>1. Replay(log) = (CHOOSE g : IsReplay(g, log, Len(log)))[Len(log)]
  BY DEF Replay, IsReplay, NothingReplayed, Stepped
<1>2. IsReplay(CHOOSE g : IsReplay(g, log, Len(log)), log, Len(log))
  OBVIOUS
<1>3. SameUpTo(log, log, Len(log))
  BY DEF SameUpTo
<1> HIDE DEF IsReplay
<1> QED BY <1>1, <1>2, <1>3, ReplayUnique

(* One more event is one more step.                                        *)
LEMMA ReplayNext ==
  ASSUME NEW log, NEW longer, NEW n \in Nat, Len(log) = n, Len(longer) = n + 1,
         \A i \in 1..n : log[i] = longer[i]
  PROVE  Replay(longer) = Stepped(Replay(log), longer[n + 1])
<1>1. PICK f : IsReplay(f, log, n)
  BY ReplayExists
<1>2. PICK m \in Nat : m = n + 1
  OBVIOUS
<1>3. PICK g : IsReplay(g, longer, m)
  BY ReplayExists
<1>4. f[n] = g[n]
  <2>1. m \in Nat /\ n <= m /\ SameUpTo(log, longer, n)
    BY <1>2 DEF SameUpTo
  <2> QED BY <1>1, <1>3, <2>1, ReplayUnique
<1>5. g[m] = Stepped(g[n], longer[m])
  <2>1. m \in 1..m /\ m - 1 = n
    BY <1>2
  <2> QED BY <1>3, <2>1, ReplayPoints
<1>6. Replay(log) = f[n]
  BY <1>1, ReplayIs
<1>7. Replay(longer) = g[m]
  BY <1>2, <1>3, ReplayIs
<1> QED BY <1>2, <1>4, <1>5, <1>6, <1>7

(***************************************************************************)
(* replay of no events is the empty state, and replay of a longer log goes *)
(* on from the state of the shorter one, as apply_event goes on from the   *)
(* state in memory.                                                        *)
(***************************************************************************)
THEOREM ReplayUnfolds ==
  /\ Replay(<<>>) = [ok |-> TRUE, graph |-> EmptyGraph]
  /\ \A X : \A log \in Seq(X) : \A e :
       Replay(Append(log, e)) =
         IF Replay(log).ok /\ Applicable(Replay(log).graph, e.cmd)
         THEN [ok |-> TRUE, graph |-> ApplyEvent(Replay(log).graph, e)]
         ELSE [ok |-> FALSE, graph |-> EmptyGraph]
<1>1. Replay(<<>>) = NothingReplayed
  <2>1. PICK f : IsReplay(f, <<>>, 0)
    BY ReplayExists
  <2>2. f[0] = NothingReplayed
    BY <2>1, ReplayPoints
  <2>3. Len(<<>>) = 0
    OBVIOUS
  <2> QED BY <2>1, <2>2, <2>3, ReplayIs
<1>2. ASSUME NEW X, NEW log \in Seq(X), NEW e
      PROVE  Replay(Append(log, e)) = Stepped(Replay(log), e)
  <2>1. PICK longer : longer = Append(log, e)
    OBVIOUS
  <2>2. log \in Seq(X \cup {e}) /\ e \in X \cup {e}
    OBVIOUS
  <2>3. PICK n \in Nat : n = Len(log)
    OBVIOUS
  <2>4. /\ Len(longer) = n + 1 /\ longer[n + 1] = e
        /\ \A i \in 1..n : log[i] = longer[i]
    BY <2>1, <2>2, <2>3
  <2>5. Replay(longer) = Stepped(Replay(log), longer[n + 1])
    BY <2>3, <2>4, ReplayNext
  <2> QED BY <2>1, <2>4, <2>5
<1> QED BY <1>1, <1>2 DEF NothingReplayed, Stepped
=============================================================================
