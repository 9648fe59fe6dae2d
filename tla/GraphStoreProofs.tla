-------------------------- MODULE GraphStoreProofs --------------------------
(***************************************************************************)
(* What holds of the event log and of the store that follows it, for every *)
(* set of identifiers, every start time and every length of the log.       *)
(*                                                                         *)
(* First the log between two restarts (LogSpec, which an API server's log  *)
(* implements): its types, the closedness of its references, the order of  *)
(* its events, the past, and that nothing superseded or retracted comes    *)
(* back.  Then the store of InMemoryStorage beside it, across restarts     *)
(* (Spec): replay of the log is the state in memory, and the indexes,      *)
(* maintained event by event, are those of a rebuild.                      *)
(***************************************************************************)
EXTENDS GraphStore, GraphEventsProofs

-----------------------------------------------------------------------------
(***************************************************************************)
(* The log between two restarts.                                           *)
(***************************************************************************)

(* The event a command becomes is an event.                                *)
LEMMA NextEventType ==
  ASSUME LogTypeOK, NEW c \in Command
  PROVE  NextEvent(c) \in Event /\ NextEvent(c).cmd = c
  BY DEF LogTypeOK, NextEvent, EventOf, Event

(* The one step a log takes: an accepted command applies, and its event    *)
(* goes to the end of the log and into the state.                          *)
LEMMA ExecuteStep ==
  ASSUME LogTypeOK, NEW c \in Command, Execute(c)
  PROVE  /\ Len(events) < MaxEvents
         /\ Validates(graph, c) /\ Applicable(graph, c)
         /\ events' = Append(events, NextEvent(c))
         /\ graph' = ApplyEvent(graph, NextEvent(c))
         /\ lastTx' = lastTx + 1
         /\ nextSequence' = nextSequence + 1
  <1>1. Validates(graph, c)  BY DEF Execute
  <1>2. Applicable(graph, c)  BY <1>1, ValidApplies
  <1> QED BY <1>1, <1>2 DEF Execute

(* Executing a command keeps the types.                                    *)
LEMMA ExecuteType ==
  ASSUME LogTypeOK, NEW c \in Command, Execute(c)
  PROVE  LogTypeOK'
  <1>1. NextEvent(c) \in Event /\ NextEvent(c).cmd = c  BY NextEventType
  <1>2. IsGraphState(graph')
    BY <1>1, ExecuteStep, ApplyType DEF LogTypeOK
  <1>3. events' \in Seq(Event) /\ Len(events') \in 0..MaxEvents
    BY <1>1, ExecuteStep, LogAssumption DEF LogTypeOK
  <1>4. lastTx' \in Nat /\ nextSequence' \in Nat
    BY ExecuteStep DEF LogTypeOK
  <1> QED BY <1>2, <1>3, <1>4 DEF LogTypeOK

(* LogTypeOK: the log, the state and the counters of EventLog always have  *)
(* their types, whatever commands are executed.                            *)
THEOREM LogTypeCorrect == LogSpec => []LogTypeOK
  <1>1. LogInit => LogTypeOK
    BY EmptyGraphType, LogAssumption DEF LogInit, LogTypeOK
  <1>2. LogTypeOK /\ [LogNext]_logVars => LogTypeOK'
    <2>1. LogTypeOK /\ LogNext => LogTypeOK'
      BY ExecuteType DEF LogNext
    <2>2. LogTypeOK /\ UNCHANGED logVars => LogTypeOK'
      BY DEF logVars, LogTypeOK
    <2> QED BY <2>1, <2>2
  <1> QED BY <1>1, <1>2, PTL DEF LogSpec

-----------------------------------------------------------------------------
(***************************************************************************)
(* References.  NoDangling is inductive by itself: entities, sources,      *)
(* assertions and memories are only ever added.                            *)
(***************************************************************************)

(* An event that applies leaves no reference dangling.                     *)
LEMMA ApplyRefs ==
  ASSUME NEW g, IsGraphState(g), NoDangling(g), NEW e \in Event,
         Applicable(g, e.cmd)
  PROVE  NoDangling(ApplyEvent(g, e))
  <1> DEFINE c == e.cmd
             h == ApplyEvent(g, e)
  <1>e. c \in Command  BY DEF Event
  <1> USE DEF IsGraphState
  <1>1. CASE c.kind = "create_entity"
    <2>1. h = EntityCreated(g, c)  BY <1>1, ApplyCases
    <2>2. /\ h.entities = g.entities \cup {c.id} /\ h.sources = g.sources
          /\ h.assertions = g.assertions /\ h.evidence = g.evidence
          /\ h.merged = g.merged /\ h.causal = g.causal /\ h.memories = g.memories
      BY <2>1 DEF EntityCreated
    <2> QED
      BY <2>2 DEF NoDangling, AssertionRefs, EvidenceRefs, MergeRefs, CausalRefs, MemoryRefs
  <1>2. CASE c.kind = "add_assertion"
    <2>1. h = AssertionAdded(g, c, e.tx)  BY <1>2, ApplyCases
    <2> DEFINE r == [subject |-> c.subject, object |-> c.object, sources |-> c.sources,
                     confidence |-> c.confidence, status |-> "active",
                     txStart |-> e.tx, txEnd |-> Open]
    <2>2. /\ h.entities = g.entities /\ h.sources = g.sources
          /\ h.assertions = Put(g.assertions, c.id, r) /\ h.evidence = g.evidence
          /\ h.merged = g.merged /\ h.causal = g.causal /\ h.memories = g.memories
      BY <2>1 DEF AssertionAdded
    <2>3. /\ r.subject \in g.entities
          /\ r.object \in g.entities \cup Literal
          /\ r.sources \subseteq g.sources
      BY <1>2, <1>e DEF Applicable, RefsKnown, Command, Object
    <2>4. AssertionRefs(h)
      <3> HIDE DEF r, h, c, IsGraphState
      <3>1. /\ DOMAIN h.assertions = DOMAIN g.assertions \cup {c.id}
            /\ h.assertions[c.id] = r
            /\ \A x \in DOMAIN g.assertions : x # c.id => h.assertions[x] = g.assertions[x]
        BY <2>2 DEF Put
      <3> QED BY <2>2, <2>3, <3>1 DEF AssertionRefs, NoDangling
    <2>5. EvidenceRefs(h)
      <3> HIDE DEF h, IsGraphState
      <3>1. DOMAIN g.assertions \subseteq DOMAIN h.assertions
        BY <2>2 DEF Put
      <3> QED BY <2>2, <3>1 DEF EvidenceRefs, NoDangling
    <2> QED BY <2>2, <2>4, <2>5 DEF NoDangling, MergeRefs, CausalRefs, MemoryRefs
  <1>3. CASE c.kind = "retract_assertion"
    <2>1. h = AssertionRetracted(g, c, e.tx)  BY <1>3, ApplyCases
    <2> DEFINE r == RetractedAt(g.assertions[c.id], e.tx)
    <2>2. /\ h.entities = g.entities /\ h.sources = g.sources
          /\ h.assertions = Put(g.assertions, c.id, r) /\ h.evidence = g.evidence
          /\ h.merged = g.merged /\ h.causal = g.causal /\ h.memories = g.memories
      BY <2>1 DEF AssertionRetracted
    <2>3. c.id \in DOMAIN g.assertions  BY <1>3 DEF Applicable
    <2>4. /\ r.subject = g.assertions[c.id].subject
          /\ r.object = g.assertions[c.id].object
          /\ r.sources = g.assertions[c.id].sources
      BY <2>3 DEF RetractedAt, IsMap, AssertionRecord
    <2>5. AssertionRefs(h)
      <3> HIDE DEF r, h, c, IsGraphState
      <3>1. /\ DOMAIN h.assertions = DOMAIN g.assertions \cup {c.id}
            /\ h.assertions[c.id] = r
            /\ \A x \in DOMAIN g.assertions : x # c.id => h.assertions[x] = g.assertions[x]
        BY <2>2 DEF Put
      <3> QED BY <2>2, <2>3, <2>4, <3>1 DEF AssertionRefs, NoDangling
    <2>6. EvidenceRefs(h)
      <3> HIDE DEF h, IsGraphState
      <3>1. DOMAIN g.assertions \subseteq DOMAIN h.assertions
        BY <2>2 DEF Put
      <3> QED BY <2>2, <3>1 DEF EvidenceRefs, NoDangling
    <2> QED BY <2>2, <2>5, <2>6 DEF NoDangling, MergeRefs, CausalRefs, MemoryRefs
  <1>4. CASE c.kind = "add_source"
    <2>1. h = SourceAdded(g, c)  BY <1>4, ApplyCases
    <2>2. /\ h.entities = g.entities /\ h.sources = g.sources \cup {c.id}
          /\ h.assertions = g.assertions /\ h.evidence = g.evidence
          /\ h.merged = g.merged /\ h.causal = g.causal /\ h.memories = g.memories
      BY <2>1 DEF SourceAdded
    <2> QED
      BY <2>2 DEF NoDangling, AssertionRefs, EvidenceRefs, MergeRefs, CausalRefs, MemoryRefs
  <1>5. CASE c.kind = "link_evidence"
    <2>1. h = EvidenceLinked(g, c)  BY <1>5, ApplyCases
    <2> DEFINE s == AsSet(g.evidence, c.id) \cup {c.source}
    <2>2. /\ h.entities = g.entities /\ h.sources = g.sources
          /\ h.assertions = g.assertions /\ h.evidence = Put(g.evidence, c.id, s)
          /\ h.merged = g.merged /\ h.causal = g.causal /\ h.memories = g.memories
      BY <2>1 DEF EvidenceLinked
    <2>3. c.id \in DOMAIN g.assertions /\ s \subseteq g.sources
      BY <1>5 DEF Applicable, AsSet, NoDangling, EvidenceRefs
    <2>4. EvidenceRefs(h)
      <3> HIDE DEF s, h, c, IsGraphState
      <3>1. /\ DOMAIN h.evidence = DOMAIN g.evidence \cup {c.id}
            /\ h.evidence[c.id] = s
            /\ \A x \in DOMAIN g.evidence : x # c.id => h.evidence[x] = g.evidence[x]
        BY <2>2 DEF Put
      <3> QED BY <2>2, <2>3, <3>1 DEF EvidenceRefs, NoDangling
    <2> QED BY <2>2, <2>4 DEF NoDangling, AssertionRefs, MergeRefs, CausalRefs, MemoryRefs
  <1>6. CASE c.kind = "merge_entities"
    <2>1. h = EntityMerged(g, c)  BY <1>6, ApplyCases
    <2>2. /\ h.entities = g.entities /\ h.sources = g.sources
          /\ h.assertions = g.assertions /\ h.evidence = g.evidence
          /\ h.merged = Put(g.merged, c.from, c.into)
          /\ h.causal = g.causal /\ h.memories = g.memories
      BY <2>1 DEF EntityMerged
    <2>3. c.from \in g.entities /\ c.into \in g.entities
      BY <1>6 DEF Applicable
    <2>4. MergeRefs(h)
      <3> HIDE DEF h, c, IsGraphState
      <3>1. /\ DOMAIN h.merged = DOMAIN g.merged \cup {c.from}
            /\ h.merged[c.from] = c.into
            /\ \A x \in DOMAIN g.merged : x # c.from => h.merged[x] = g.merged[x]
        BY <2>2 DEF Put
      <3> QED BY <2>2, <2>3, <3>1 DEF MergeRefs, NoDangling
    <2> QED BY <2>2, <2>4 DEF NoDangling, AssertionRefs, EvidenceRefs, CausalRefs, MemoryRefs
  <1>7. CASE c.kind = "update_confidence"
    <2>1. h = ConfidenceUpdated(g, c)  BY <1>7, ApplyCases
    <2> DEFINE r == Reassessed(g.assertions[c.id], c)
    <2>2. /\ h.entities = g.entities /\ h.sources = g.sources
          /\ h.assertions = Put(g.assertions, c.id, r) /\ h.evidence = g.evidence
          /\ h.merged = g.merged /\ h.causal = g.causal /\ h.memories = g.memories
      BY <2>1 DEF ConfidenceUpdated
    <2>3. c.id \in DOMAIN g.assertions /\ c.sources \subseteq g.sources
      BY <1>7 DEF Applicable
    <2>4. /\ r.subject = g.assertions[c.id].subject
          /\ r.object = g.assertions[c.id].object
          /\ r.sources = g.assertions[c.id].sources \cup c.sources
      BY <2>3 DEF Reassessed, IsMap, AssertionRecord
    <2>5. AssertionRefs(h)
      <3> HIDE DEF r, h, c, IsGraphState
      <3>1. /\ DOMAIN h.assertions = DOMAIN g.assertions \cup {c.id}
            /\ h.assertions[c.id] = r
            /\ \A x \in DOMAIN g.assertions : x # c.id => h.assertions[x] = g.assertions[x]
        BY <2>2 DEF Put
      <3> QED BY <2>2, <2>3, <2>4, <3>1 DEF AssertionRefs, NoDangling
    <2>6. EvidenceRefs(h)
      <3> HIDE DEF h, IsGraphState
      <3>1. DOMAIN g.assertions \subseteq DOMAIN h.assertions
        BY <2>2 DEF Put
      <3> QED BY <2>2, <3>1 DEF EvidenceRefs, NoDangling
    <2> QED BY <2>2, <2>5, <2>6 DEF NoDangling, MergeRefs, CausalRefs, MemoryRefs
  <1>8. CASE c.kind = "add_causal_link"
    <2>1. h = CausalLinkAdded(g, c)  BY <1>8, ApplyCases
    <2>2. /\ h.entities = g.entities /\ h.sources = g.sources
          /\ h.assertions = g.assertions /\ h.evidence = g.evidence
          /\ h.merged = g.merged /\ h.causal = Put(g.causal, c.id, c.sources)
          /\ h.memories = g.memories
      BY <2>1 DEF CausalLinkAdded
    <2>3. CausalRefs(h)
      <3> HIDE DEF h, c, IsGraphState
      <3>1. /\ DOMAIN h.causal = DOMAIN g.causal \cup {c.id}
            /\ h.causal[c.id] = c.sources
            /\ \A x \in DOMAIN g.causal : x # c.id => h.causal[x] = g.causal[x]
        BY <2>2 DEF Put
      <3>2. c.sources \subseteq g.sources  BY <1>8 DEF Applicable, c
      <3> QED BY <2>2, <3>1, <3>2 DEF CausalRefs, NoDangling
    <2> QED BY <2>2, <2>3 DEF NoDangling, AssertionRefs, EvidenceRefs, MergeRefs, MemoryRefs
  <1>9. CASE c.kind = "record_memory"
    <2>1. h = AgentMemoryRecorded(g, c)  BY <1>9, ApplyCases
    <2> DEFINE r == [sources |-> c.sources, related |-> c.related,
                     supersedes |-> c.supersedes, status |-> c.status]
               marked == MarkSuperseded(g.memories, c.supersedes)
    <2>2. /\ h.entities = g.entities /\ h.sources = g.sources
          /\ h.assertions = g.assertions /\ h.evidence = g.evidence
          /\ h.merged = g.merged /\ h.causal = g.causal
          /\ h.memories = Put(marked, c.id, r)
      BY <2>1 DEF AgentMemoryRecorded
    <2>3. DOMAIN marked = DOMAIN g.memories  BY DEF MarkSuperseded
    <2>4. \A m \in DOMAIN g.memories :
            /\ marked[m].sources = g.memories[m].sources
            /\ marked[m].related = g.memories[m].related
            /\ marked[m].supersedes = g.memories[m].supersedes
      BY DEF MarkSuperseded, IsMap, MemoryRecord
    <2>5. /\ r.sources \subseteq g.sources /\ r.related \subseteq g.entities
          /\ r.supersedes \subseteq DOMAIN g.memories
      BY <1>9 DEF Applicable
    <2>6. MemoryRefs(h)
      <3> HIDE DEF r, marked, h, c, IsGraphState
      <3>1. /\ DOMAIN h.memories = DOMAIN marked \cup {c.id}
            /\ h.memories[c.id] = r
            /\ \A x \in DOMAIN marked : x # c.id => h.memories[x] = marked[x]
        BY <2>2 DEF Put
      <3> QED BY <2>2, <2>3, <2>4, <2>5, <3>1 DEF MemoryRefs, NoDangling
    <2> QED BY <2>2, <2>6 DEF NoDangling, AssertionRefs, EvidenceRefs, MergeRefs, CausalRefs
  <1> QED
    BY <1>e, <1>1, <1>2, <1>3, <1>4, <1>5, <1>6, <1>7, <1>8, <1>9, CommandKinds

(* So does executing a command.                                            *)
LEMMA ExecuteRefs ==
  ASSUME LogTypeOK, RefsClosed, NEW c \in Command, Execute(c)
  PROVE  RefsClosed'
  <1>1. NextEvent(c) \in Event /\ NextEvent(c).cmd = c  BY NextEventType
  <1> QED BY <1>1, ExecuteStep, ApplyRefs DEF LogTypeOK, RefsClosed

(* RefsClosed: no assertion, evidence link, merge, causal link or memory   *)
(* of the state ever names something that is not there.                    *)
THEOREM RefsStayClosed == LogSpec => []RefsClosed
  <1>1. LogInit => RefsClosed
    BY DEF LogInit, RefsClosed, NoDangling, EmptyGraph, NoEntries,
           AssertionRefs, EvidenceRefs, MergeRefs, CausalRefs, MemoryRefs
  <1>2. LogTypeOK /\ RefsClosed /\ [LogNext]_logVars => RefsClosed'
    <2>1. LogTypeOK /\ RefsClosed /\ LogNext => RefsClosed'
      BY ExecuteRefs DEF LogNext
    <2>2. RefsClosed /\ UNCHANGED logVars => RefsClosed'
      BY DEF logVars, RefsClosed
    <2> QED BY <2>1, <2>2
  <1> QED BY <1>1, <1>2, LogTypeCorrect, PTL DEF LogSpec

-----------------------------------------------------------------------------
(***************************************************************************)
(* Order.  That every event has its own number needs that the counter      *)
(* keeps pace with the log, which in turn needs that an accepted command   *)
(* always applies: an event pushed and not applied would leave the counter *)
(* behind.                                                                 *)
(***************************************************************************)
Counted == nextSequence = Len(events) + 1

(* The event of an executed command takes the next number and time.        *)
LEMMA ExecuteOrder ==
  ASSUME LogTypeOK, EventsOrdered, Counted, NEW c \in Command, Execute(c)
  PROVE  (EventsOrdered /\ Counted)'
  <1> DEFINE e == NextEvent(c)
  <1>1. e.seq = Len(events) + 1 /\ e.tx = lastTx + 1
    BY DEF NextEvent, EventOf, Counted
  <1>2. /\ Len(events') = Len(events) + 1
        /\ \A i \in 1..Len(events) : events'[i] = events[i]
        /\ events'[Len(events) + 1] = e
    <2>1. e \in Event /\ events \in Seq(Event)
      BY NextEventType DEF LogTypeOK
    <2>2. events' = Append(events, e)
      BY ExecuteStep
    <2> HIDE DEF e
    <2> QED BY <2>1, <2>2
  <1>3. lastTx' = lastTx + 1 /\ nextSequence' = nextSequence + 1
    BY ExecuteStep
  <1>4. Len(events) \in Nat /\ lastTx \in Nat
    BY LogAssumption DEF LogTypeOK
  <1>5. \A i \in 1..Len(events) : events[i].tx \in Int
    <2> TAKE i \in 1..Len(events)
    <2>1. events[i] \in Event  BY DEF LogTypeOK
    <2> QED BY <2>1 DEF Event
  <1> HIDE DEF e
  <1>6. \A i \in 1..Len(events') : events'[i].seq = i /\ events'[i].tx <= lastTx'
    BY <1>1, <1>2, <1>3, <1>4, <1>5 DEF EventsOrdered
  <1>7. \A i, j \in 1..Len(events') : i < j => events'[i].tx < events'[j].tx
    BY <1>1, <1>2, <1>3, <1>4, <1>5 DEF EventsOrdered
  <1>8. Counted'
    BY <1>2, <1>3 DEF Counted
  <1> QED BY <1>6, <1>7, <1>8 DEF EventsOrdered

(* EventsOrdered: the events are numbered by their places, and their       *)
(* transaction times increase.                                             *)
THEOREM EventsStayOrdered == LogSpec => [](EventsOrdered /\ Counted)
  <1>1. LogInit => EventsOrdered /\ Counted
    BY DEF LogInit, EventsOrdered, Counted
  <1>2. LogTypeOK /\ EventsOrdered /\ Counted /\ [LogNext]_logVars
          => (EventsOrdered /\ Counted)'
    <2>1. LogTypeOK /\ EventsOrdered /\ Counted /\ LogNext => (EventsOrdered /\ Counted)'
      BY ExecuteOrder DEF LogNext
    <2>2. EventsOrdered /\ Counted /\ UNCHANGED logVars => (EventsOrdered /\ Counted)'
      BY DEF logVars, EventsOrdered, Counted
    <2> QED BY <2>1, <2>2
  <1> QED BY <1>1, <1>2, LogTypeCorrect, PTL DEF LogSpec

-----------------------------------------------------------------------------
(***************************************************************************)
(* The past.                                                               *)
(***************************************************************************)

(* An event stamped after k takes no assertion out of what was known at k. *)
LEMMA ApplyKeepsPast ==
  ASSUME NEW g, IsGraphState(g), NEW e \in Event, Validates(g, e.cmd),
         NEW k \in Int, k < e.tx
  PROVE  KnownAt(g, k) \subseteq KnownAt(ApplyEvent(g, e), k)
  <1> DEFINE c == e.cmd
             h == ApplyEvent(g, e)
  <1>e. c \in Command /\ e.tx \in Int  BY DEF Event
  <1> SUFFICES KnownAt(g, k) \subseteq KnownAt(h, k)
    OBVIOUS
  <1>s. h.assertions = g.assertions => KnownAt(g, k) \subseteq KnownAt(h, k)
    BY DEF KnownAt
  <1>1. CASE c.kind = "add_assertion"
    <2>1. h = AssertionAdded(g, c, e.tx)  BY <1>1, ApplyCases
    <2>2. c.id \notin DOMAIN g.assertions  BY <1>1 DEF Validates
    <2>3. /\ DOMAIN g.assertions \subseteq DOMAIN h.assertions
          /\ \A a \in DOMAIN g.assertions : h.assertions[a] = g.assertions[a]
      BY <2>1, <2>2 DEF AssertionAdded, Put, IsGraphState
    <2> HIDE DEF h
    <2> QED BY <2>3 DEF KnownAt
  <1>2. CASE c.kind = "retract_assertion"
    <2>1. h = AssertionRetracted(g, c, e.tx)  BY <1>2, ApplyCases
    <2>2. c.id \in DOMAIN g.assertions  BY <1>2 DEF Validates
    <2> DEFINE r == RetractedAt(g.assertions[c.id], e.tx)
    <2>3. r.txStart = g.assertions[c.id].txStart /\ r.txEnd = e.tx
      BY <2>2 DEF RetractedAt, IsGraphState, IsMap, AssertionRecord
    <2>4. /\ DOMAIN h.assertions = DOMAIN g.assertions
          /\ h.assertions[c.id] = r
          /\ \A a \in DOMAIN g.assertions : a # c.id => h.assertions[a] = g.assertions[a]
      BY <2>1, <2>2 DEF AssertionRetracted, Put, IsGraphState
    <2> HIDE DEF h, r, c
    <2> QED BY <2>3, <2>4 DEF KnownAt
  <1>3. CASE c.kind = "update_confidence"
    <2>1. h = ConfidenceUpdated(g, c)  BY <1>3, ApplyCases
    <2>2. c.id \in DOMAIN g.assertions  BY <1>3 DEF Validates
    <2> DEFINE r == Reassessed(g.assertions[c.id], c)
    <2>3. /\ r.txStart = g.assertions[c.id].txStart
          /\ r.txEnd = g.assertions[c.id].txEnd
      BY <2>2 DEF Reassessed, IsGraphState, IsMap, AssertionRecord
    <2>4. /\ DOMAIN h.assertions = DOMAIN g.assertions
          /\ h.assertions[c.id] = r
          /\ \A a \in DOMAIN g.assertions : a # c.id => h.assertions[a] = g.assertions[a]
      BY <2>1, <2>2 DEF ConfidenceUpdated, Put, IsGraphState
    <2> HIDE DEF h, r, c
    <2> QED BY <2>3, <2>4 DEF KnownAt
  <1>4. CASE c.kind \notin {"add_assertion", "retract_assertion", "update_confidence"}
    BY <1>4, <1>s, AssertionsUntouched
  <1> QED BY <1>1, <1>2, <1>3, <1>4

(* What was known at every time that has passed, a step leaves known.      *)
PastKept == \A k \in 0..lastTx : KnownAt(graph, k) \subseteq KnownAt(graph', k)

(* The event of an executed command is stamped after all that has passed.  *)
LEMMA ExecuteKeepsPast ==
  ASSUME LogTypeOK, NEW c \in Command, Execute(c)
  PROVE  PastKept
  <1>1. /\ NextEvent(c) \in Event /\ NextEvent(c).cmd = c
        /\ NextEvent(c).tx = lastTx + 1 /\ lastTx \in Nat
    BY NextEventType DEF NextEvent, EventOf, LogTypeOK
  <1>2. graph' = ApplyEvent(graph, NextEvent(c)) /\ Validates(graph, c)
    BY ExecuteStep
  <1>3. ASSUME NEW k \in 0..lastTx PROVE KnownAt(graph, k) \subseteq KnownAt(graph', k)
    <2>1. k \in Int /\ k < NextEvent(c).tx
      BY <1>1
    <2> QED BY <1>1, <1>2, <2>1, ApplyKeepsPast DEF LogTypeOK
  <1> QED BY <1>3 DEF PastKept

(* PastNeverShrinks: no command takes an assertion out of the answer to a  *)
(* query about a transaction time that has passed.                         *)
THEOREM PastIsKept == LogSpec => PastNeverShrinks
  <1>1. LogTypeOK /\ [LogNext]_logVars => [PastKept]_logVars
    BY ExecuteKeepsPast DEF LogNext
  <1>2. [PastKept]_logVars
          => [\A k \in 0..lastTx : KnownAt(graph, k) \subseteq KnownAt(graph', k)]_logVars
    BY DEF PastKept
  <1> QED BY <1>1, <1>2, LogTypeCorrect, PTL DEF LogSpec, PastNeverShrinks

-----------------------------------------------------------------------------
(***************************************************************************)
(* What is superseded or retracted.  A recorded memory could only come     *)
(* back by being recorded again, or by being superseded before it exists:  *)
(* the first is excluded by the check for duplicates, the second by        *)
(* NoDangling, which the invariant is therefore relative to.               *)
(***************************************************************************)
MemoriesSettled(g) ==
  \A m \in DOMAIN g.memories : \A old \in g.memories[m].supersedes :
    g.memories[old].status = "superseded"

AssertionsSettled(g) ==
  \A a \in DOMAIN g.assertions :
    (g.assertions[a].status = "retracted") <=> (g.assertions[a].txEnd # Open)

(* Recording a memory supersedes what it names, and nothing comes back.    *)
LEMMA ApplyKeepsSuperseded ==
  ASSUME NEW g, IsGraphState(g), MemoryRefs(g), MemoriesSettled(g),
         NEW e \in Event, Validates(g, e.cmd)
  PROVE  MemoriesSettled(ApplyEvent(g, e))
  <1> DEFINE c == e.cmd
             h == ApplyEvent(g, e)
  <1>e. c \in Command  BY DEF Event
  <1> SUFFICES MemoriesSettled(h)
    OBVIOUS
  <1>1. CASE c.kind = "record_memory"
    <2>1. h = AgentMemoryRecorded(g, c)  BY <1>1, ApplyCases
    <2> DEFINE rec == [sources |-> c.sources, related |-> c.related,
                       supersedes |-> c.supersedes, status |-> c.status]
               marked == MarkSuperseded(g.memories, c.supersedes)
    <2>2. h.memories = Put(marked, c.id, rec)
      BY <2>1 DEF AgentMemoryRecorded, IsGraphState
    <2>3. /\ c.id \notin DOMAIN g.memories
          /\ c.supersedes \subseteq DOMAIN g.memories
      BY <1>1 DEF Validates
    <2>4. /\ DOMAIN marked = DOMAIN g.memories
          /\ \A m \in DOMAIN g.memories :
               /\ marked[m].supersedes = g.memories[m].supersedes
               /\ m \in c.supersedes => marked[m].status = "superseded"
               /\ g.memories[m].status = "superseded" => marked[m].status = "superseded"
      BY DEF MarkSuperseded, IsGraphState, IsMap, MemoryRecord
    <2>5. rec.supersedes = c.supersedes  OBVIOUS
    <2> HIDE DEF rec, marked, h, c
    <2>6. /\ DOMAIN h.memories = DOMAIN g.memories \cup {c.id}
          /\ h.memories[c.id] = rec
          /\ \A m \in DOMAIN g.memories : h.memories[m] = marked[m]
      BY <2>2, <2>3, <2>4 DEF Put
    <2>7. \A m \in DOMAIN g.memories : g.memories[m].supersedes \subseteq DOMAIN g.memories
      BY DEF MemoryRefs
    <2> QED BY <2>3, <2>4, <2>5, <2>6, <2>7 DEF MemoriesSettled
  <1>2. CASE c.kind # "record_memory"
    <2>1. h.memories = g.memories
      <3>1. c.kind = "create_entity" => h = EntityCreated(g, c)  BY ApplyCases
      <3>2. c.kind = "add_assertion" => h = AssertionAdded(g, c, e.tx)  BY ApplyCases
      <3>3. c.kind = "retract_assertion" => h = AssertionRetracted(g, c, e.tx)
        BY ApplyCases
      <3>4. c.kind = "add_source" => h = SourceAdded(g, c)  BY ApplyCases
      <3>5. c.kind = "link_evidence" => h = EvidenceLinked(g, c)  BY ApplyCases
      <3>6. c.kind = "merge_entities" => h = EntityMerged(g, c)  BY ApplyCases
      <3>7. c.kind = "update_confidence" => h = ConfidenceUpdated(g, c)  BY ApplyCases
      <3>8. c.kind = "add_causal_link" => h = CausalLinkAdded(g, c)  BY ApplyCases
      <3> HIDE DEF h, c
      <3>11. EntityCreated(g, c).memories = g.memories
        BY DEF EntityCreated, IsGraphState
      <3>12. AssertionAdded(g, c, e.tx).memories = g.memories
        BY DEF AssertionAdded, IsGraphState
      <3>13. AssertionRetracted(g, c, e.tx).memories = g.memories
        BY DEF AssertionRetracted, IsGraphState
      <3>14. SourceAdded(g, c).memories = g.memories
        BY DEF SourceAdded, IsGraphState
      <3>15. EvidenceLinked(g, c).memories = g.memories
        BY DEF EvidenceLinked, IsGraphState
      <3>16. EntityMerged(g, c).memories = g.memories
        BY DEF EntityMerged, IsGraphState
      <3>17. ConfidenceUpdated(g, c).memories = g.memories
        BY DEF ConfidenceUpdated, IsGraphState
      <3>18. CausalLinkAdded(g, c).memories = g.memories
        BY DEF CausalLinkAdded, IsGraphState
      <3> QED
        BY <1>e, <1>2, <3>1, <3>2, <3>3, <3>4, <3>5, <3>6, <3>7, <3>8, <3>11, <3>12,
           <3>13, <3>14, <3>15, <3>16, <3>17, <3>18, CommandKinds
    <2> HIDE DEF h
    <2> QED BY <2>1 DEF MemoriesSettled
  <1> QED BY <1>1, <1>2

(* An assertion's interval is closed when, and only when, it is retracted. *)
LEMMA ApplyKeepsRetracted ==
  ASSUME NEW g, IsGraphState(g), AssertionsSettled(g),
         NEW e \in Event, Validates(g, e.cmd)
  PROVE  AssertionsSettled(ApplyEvent(g, e))
  <1> DEFINE c == e.cmd
             h == ApplyEvent(g, e)
  <1>e. c \in Command /\ e.tx \in Int  BY DEF Event
  <1> SUFFICES AssertionsSettled(h)
    OBVIOUS
  <1>1. CASE c.kind = "add_assertion"
    <2>1. h = AssertionAdded(g, c, e.tx)  BY <1>1, ApplyCases
    <2>2. c.id \notin DOMAIN g.assertions  BY <1>1 DEF Validates
    <2>3. /\ DOMAIN h.assertions = DOMAIN g.assertions \cup {c.id}
          /\ h.assertions[c.id].status = "active" /\ h.assertions[c.id].txEnd = Open
          /\ \A a \in DOMAIN g.assertions : h.assertions[a] = g.assertions[a]
      BY <2>1, <2>2 DEF AssertionAdded, Put, IsGraphState
    <2> HIDE DEF h, c
    <2> QED BY <2>3 DEF AssertionsSettled
  <1>2. CASE c.kind = "retract_assertion"
    <2>1. h = AssertionRetracted(g, c, e.tx)  BY <1>2, ApplyCases
    <2>2. c.id \in DOMAIN g.assertions  BY <1>2 DEF Validates
    <2> DEFINE r == RetractedAt(g.assertions[c.id], e.tx)
    <2>3. r.status = "retracted" /\ r.txEnd # Open
      BY <1>e, <2>2, IdentifierAssumption
      DEF RetractedAt, IsGraphState, IsMap, AssertionRecord
    <2>4. /\ DOMAIN h.assertions = DOMAIN g.assertions
          /\ h.assertions[c.id] = r
          /\ \A a \in DOMAIN g.assertions : a # c.id => h.assertions[a] = g.assertions[a]
      BY <2>1, <2>2 DEF AssertionRetracted, Put, IsGraphState
    <2> HIDE DEF h, r, c
    <2> QED BY <2>3, <2>4 DEF AssertionsSettled
  <1>3. CASE c.kind = "update_confidence"
    <2>1. h = ConfidenceUpdated(g, c)  BY <1>3, ApplyCases
    <2>2. c.id \in DOMAIN g.assertions  BY <1>3 DEF Validates
    <2> DEFINE r == Reassessed(g.assertions[c.id], c)
    <2>3. /\ r.status = g.assertions[c.id].status
          /\ r.txEnd = g.assertions[c.id].txEnd
      BY <2>2 DEF Reassessed, IsGraphState, IsMap, AssertionRecord
    <2>4. /\ DOMAIN h.assertions = DOMAIN g.assertions
          /\ h.assertions[c.id] = r
          /\ \A a \in DOMAIN g.assertions : a # c.id => h.assertions[a] = g.assertions[a]
      BY <2>1, <2>2 DEF ConfidenceUpdated, Put, IsGraphState
    <2> HIDE DEF h, r, c
    <2> QED BY <2>3, <2>4 DEF AssertionsSettled
  <1>4. CASE c.kind \notin {"add_assertion", "retract_assertion", "update_confidence"}
    <2>1. h.assertions = g.assertions  BY <1>4, AssertionsUntouched
    <2> HIDE DEF h
    <2> QED BY <2>1 DEF AssertionsSettled
  <1> QED BY <1>1, <1>2, <1>3, <1>4

(* Executing a command keeps both.                                         *)
LEMMA ExecuteSettled ==
  ASSUME LogTypeOK, RefsClosed, SupersededStays, NEW c \in Command, Execute(c)
  PROVE  SupersededStays'
  <1>1. NextEvent(c) \in Event /\ NextEvent(c).cmd = c  BY NextEventType
  <1>2. graph' = ApplyEvent(graph, NextEvent(c)) /\ Validates(graph, c)
    BY ExecuteStep
  <1>3. IsGraphState(graph) /\ MemoryRefs(graph)
    BY DEF LogTypeOK, RefsClosed, NoDangling
  <1>4. MemoriesSettled(graph) /\ AssertionsSettled(graph)
    BY DEF SupersededStays, MemoriesSettled, AssertionsSettled
  <1>5. MemoriesSettled(graph')
    BY <1>1, <1>2, <1>3, <1>4, ApplyKeepsSuperseded
  <1>6. AssertionsSettled(graph')
    BY <1>1, <1>2, <1>3, <1>4, ApplyKeepsRetracted
  <1> QED BY <1>5, <1>6 DEF SupersededStays, MemoriesSettled, AssertionsSettled

(* SupersededStays: what a memory supersedes stays superseded, and         *)
(* retraction and the end of an assertion's interval go together.          *)
THEOREM SupersededStaysSo == LogSpec => []SupersededStays
  <1>1. LogInit => SupersededStays
    BY DEF LogInit, EmptyGraph, NoEntries, SupersededStays
  <1>2. LogTypeOK /\ RefsClosed /\ SupersededStays /\ [LogNext]_logVars => SupersededStays'
    <2>1. LogTypeOK /\ RefsClosed /\ SupersededStays /\ LogNext => SupersededStays'
      BY ExecuteSettled DEF LogNext
    <2>2. SupersededStays /\ UNCHANGED logVars => SupersededStays'
      BY DEF logVars, SupersededStays
    <2> QED BY <2>1, <2>2
  <1> QED BY <1>1, <1>2, LogTypeCorrect, RefsStayClosed, PTL DEF LogSpec

-----------------------------------------------------------------------------
(***************************************************************************)
(* The indexes.                                                            *)
(***************************************************************************)

(* What a rebuild puts in the indexes, index by index.                     *)
LEMMA FromStateIs ==
  ASSUME NEW g
  PROVE  LET recs == g.assertions  known == DOMAIN g.assertions IN
         FromState(g) =
         [bySubject |-> UNION {{recs[a].subject} \X {a} : a \in known},
          byObject  |-> UNION {{recs[a].object} \X {a} : a \in known},
          byEntity  |-> UNION {({recs[a].subject} \cup ({recs[a].object} \cap Entity)) \X {a} : a \in known},
          byTx      |-> UNION {{recs[a].txStart} \X {a} : a \in known},
          bySource  |-> UNION {recs[a].sources \X {a} : a \in known}]
  BY DEF FromState

\* The indexes by what an assertion is given once and for all are a rebuild's.
FixedExact(idx, g) ==
  LET recs == g.assertions  known == DOMAIN g.assertions IN
  /\ idx.bySubject = UNION {{recs[a].subject} \X {a} : a \in known}
  /\ idx.byObject  = UNION {{recs[a].object} \X {a} : a \in known}
  /\ idx.byEntity  = UNION {({recs[a].subject} \cup ({recs[a].object} \cap Entity)) \X {a} : a \in known}
  /\ idx.byTx      = UNION {{recs[a].txStart} \X {a} : a \in known}

SourceSound(idx, g) ==
  \A p \in idx.bySource :
    /\ p[2] \in DOMAIN g.assertions
    /\ p[1] \in g.assertions[p[2]].sources \cup AsSet(g.evidence, p[2])

OutgoingOf(g) ==
  \A e \in Entity :
    AsSet(g.outgoing, e) = {a \in DOMAIN g.assertions : g.assertions[a].subject = e}

\* The record of an assertion keeps what the indexes sort it by.
SameKeys(g, h) ==
  /\ DOMAIN h.assertions = DOMAIN g.assertions
  /\ \A a \in DOMAIN g.assertions :
       /\ h.assertions[a].subject = g.assertions[a].subject
       /\ h.assertions[a].object = g.assertions[a].object
       /\ h.assertions[a].txStart = g.assertions[a].txStart
       /\ g.assertions[a].sources \subseteq h.assertions[a].sources

(* Every event but that of a new assertion keeps them.                     *)
LEMMA KeysKept ==
  ASSUME NEW g, IsGraphState(g), NEW e \in Event, Validates(g, e.cmd),
         e.cmd.kind # "add_assertion"
  PROVE  SameKeys(g, ApplyEvent(g, e))
  <1> DEFINE c == e.cmd
             h == ApplyEvent(g, e)
  <1>e. c \in Command /\ e.tx \in Int  BY DEF Event
  <1> SUFFICES SameKeys(g, h)
    OBVIOUS
  <1>1. CASE c.kind = "retract_assertion"
    <2>1. h = AssertionRetracted(g, c, e.tx)  BY <1>1, ApplyCases
    <2>2. c.id \in DOMAIN g.assertions  BY <1>1 DEF Validates
    <2> DEFINE r == RetractedAt(g.assertions[c.id], e.tx)
    <2>3. /\ r.subject = g.assertions[c.id].subject /\ r.object = g.assertions[c.id].object
          /\ r.txStart = g.assertions[c.id].txStart /\ r.sources = g.assertions[c.id].sources
      BY <2>2 DEF RetractedAt, IsGraphState, IsMap, AssertionRecord
    <2>4. /\ DOMAIN h.assertions = DOMAIN g.assertions
          /\ h.assertions[c.id] = r
          /\ \A a \in DOMAIN g.assertions : a # c.id => h.assertions[a] = g.assertions[a]
      BY <2>1, <2>2 DEF AssertionRetracted, Put, IsGraphState
    <2> HIDE DEF h, r, c
    <2> QED BY <2>3, <2>4 DEF SameKeys
  <1>2. CASE c.kind = "update_confidence"
    <2>1. h = ConfidenceUpdated(g, c)  BY <1>2, ApplyCases
    <2>2. c.id \in DOMAIN g.assertions  BY <1>2 DEF Validates
    <2> DEFINE r == Reassessed(g.assertions[c.id], c)
    <2>3. /\ r.subject = g.assertions[c.id].subject /\ r.object = g.assertions[c.id].object
          /\ r.txStart = g.assertions[c.id].txStart
          /\ g.assertions[c.id].sources \subseteq r.sources
      BY <2>2 DEF Reassessed, IsGraphState, IsMap, AssertionRecord
    <2>4. /\ DOMAIN h.assertions = DOMAIN g.assertions
          /\ h.assertions[c.id] = r
          /\ \A a \in DOMAIN g.assertions : a # c.id => h.assertions[a] = g.assertions[a]
      BY <2>1, <2>2 DEF ConfidenceUpdated, Put, IsGraphState
    <2> HIDE DEF h, r, c
    <2> QED BY <2>3, <2>4 DEF SameKeys
  <1>3. CASE c.kind \notin {"add_assertion", "retract_assertion", "update_confidence"}
    <2>1. h.assertions = g.assertions  BY <1>3, AssertionsUntouched
    <2> HIDE DEF h
    <2> QED BY <2>1 DEF SameKeys
  <1> QED BY <1>1, <1>2, <1>3

(* What an event leaves of the adjacency lists and the evidence links.     *)
LEMMA ListsUntouched ==
  ASSUME NEW g, IsGraphState(g), NEW e \in Event
  PROVE  /\ e.cmd.kind # "add_assertion" => ApplyEvent(g, e).outgoing = g.outgoing
         /\ e.cmd.kind # "link_evidence" => ApplyEvent(g, e).evidence = g.evidence
  <1> DEFINE c == e.cmd
             h == ApplyEvent(g, e)
  <1>e. c \in Command  BY DEF Event
  <1>1. c.kind = "create_entity" => h = EntityCreated(g, c)  BY ApplyCases
  <1>2. c.kind = "add_assertion" => h = AssertionAdded(g, c, e.tx)  BY ApplyCases
  <1>3. c.kind = "retract_assertion" => h = AssertionRetracted(g, c, e.tx)  BY ApplyCases
  <1>4. c.kind = "add_source" => h = SourceAdded(g, c)  BY ApplyCases
  <1>5. c.kind = "link_evidence" => h = EvidenceLinked(g, c)  BY ApplyCases
  <1>6. c.kind = "merge_entities" => h = EntityMerged(g, c)  BY ApplyCases
  <1>7. c.kind = "update_confidence" => h = ConfidenceUpdated(g, c)  BY ApplyCases
  <1>8. c.kind = "add_causal_link" => h = CausalLinkAdded(g, c)  BY ApplyCases
  <1>9. c.kind = "record_memory" => h = AgentMemoryRecorded(g, c)  BY ApplyCases
  <1> SUFFICES /\ c.kind # "add_assertion" => h.outgoing = g.outgoing
               /\ c.kind # "link_evidence" => h.evidence = g.evidence
    OBVIOUS
  <1> HIDE DEF h, c
  <1>11. EntityCreated(g, c).outgoing = g.outgoing /\ EntityCreated(g, c).evidence = g.evidence
    BY DEF EntityCreated, IsGraphState
  <1>12. AssertionAdded(g, c, e.tx).evidence = g.evidence
    BY DEF AssertionAdded, IsGraphState
  <1>13. /\ AssertionRetracted(g, c, e.tx).outgoing = g.outgoing
         /\ AssertionRetracted(g, c, e.tx).evidence = g.evidence
    BY DEF AssertionRetracted, IsGraphState
  <1>14. SourceAdded(g, c).outgoing = g.outgoing /\ SourceAdded(g, c).evidence = g.evidence
    BY DEF SourceAdded, IsGraphState
  <1>15. EvidenceLinked(g, c).outgoing = g.outgoing
    BY DEF EvidenceLinked, IsGraphState
  <1>16. EntityMerged(g, c).outgoing = g.outgoing /\ EntityMerged(g, c).evidence = g.evidence
    BY DEF EntityMerged, IsGraphState
  <1>17. ConfidenceUpdated(g, c).outgoing = g.outgoing /\ ConfidenceUpdated(g, c).evidence = g.evidence
    BY DEF ConfidenceUpdated, IsGraphState
  <1>18. CausalLinkAdded(g, c).outgoing = g.outgoing /\ CausalLinkAdded(g, c).evidence = g.evidence
    BY DEF CausalLinkAdded, IsGraphState
  <1>19. AgentMemoryRecorded(g, c).outgoing = g.outgoing /\ AgentMemoryRecorded(g, c).evidence = g.evidence
    BY DEF AgentMemoryRecorded, IsGraphState
  <1>20. c.kind # "add_assertion" => h.outgoing = g.outgoing
    BY <1>e, <1>1, <1>3, <1>4, <1>5, <1>6, <1>7, <1>8, <1>9, <1>11, <1>13, <1>14, <1>15,
       <1>16, <1>17, <1>18, <1>19, CommandKinds
  <1>21. c.kind # "link_evidence" => h.evidence = g.evidence
    BY <1>e, <1>1, <1>2, <1>3, <1>4, <1>6, <1>7, <1>8, <1>9, <1>11, <1>12, <1>13, <1>14,
       <1>16, <1>17, <1>18, <1>19, CommandKinds
  <1> QED BY <1>20, <1>21

(* The state after a new assertion.                                        *)
LEMMA AddedFacts ==
  ASSUME NEW g, IsGraphState(g), NEW e \in Event, Validates(g, e.cmd),
         e.cmd.kind = "add_assertion"
  PROVE  LET c == e.cmd  h == ApplyEvent(g, e) IN
         /\ c.id \in Assertion /\ c.id \notin DOMAIN g.assertions
         /\ DOMAIN h.assertions = DOMAIN g.assertions \cup {c.id}
         /\ \A a \in DOMAIN g.assertions : h.assertions[a] = g.assertions[a]
         /\ h.assertions[c.id] =
              [subject |-> c.subject, object |-> c.object, sources |-> c.sources,
               confidence |-> c.confidence, status |-> "active",
               txStart |-> e.tx, txEnd |-> Open]
         /\ h.assertions[c.id].subject = c.subject
         /\ h.assertions[c.id].sources = c.sources
         /\ h.assertions[c.id].txStart = e.tx
         /\ h.outgoing = Put(g.outgoing, c.subject, AsSet(g.outgoing, c.subject) \cup {c.id})
         /\ h.evidence = g.evidence
  <1> DEFINE c == e.cmd
             h == ApplyEvent(g, e)
  <1>1. h = AssertionAdded(g, c, e.tx)  BY ApplyCases
  <1>2. c \in Command /\ c.id \notin DOMAIN g.assertions  BY DEF Validates, Event
  <1>3. c.id \in Assertion  BY <1>2 DEF Command
  <1>4. h.outgoing = Put(g.outgoing, c.subject, AsSet(g.outgoing, c.subject) \cup {c.id})
        /\ h.evidence = g.evidence
    BY <1>1 DEF AssertionAdded, IsGraphState
  <1>5. /\ DOMAIN h.assertions = DOMAIN g.assertions \cup {c.id}
        /\ \A a \in DOMAIN g.assertions : h.assertions[a] = g.assertions[a]
        /\ h.assertions[c.id] =
              [subject |-> c.subject, object |-> c.object, sources |-> c.sources,
               confidence |-> c.confidence, status |-> "active",
               txStart |-> e.tx, txEnd |-> Open]
    BY <1>1, <1>2 DEF AssertionAdded, Put, IsGraphState
  <1>6. /\ h.assertions[c.id].subject = c.subject /\ h.assertions[c.id].sources = c.sources
        /\ h.assertions[c.id].txStart = e.tx
    <2> HIDE DEF h, c
    <2> QED BY <1>5
  <1> QED BY <1>2, <1>3, <1>4, <1>5, <1>6

(* IndexEvent, by the kind of the event.                                   *)
LEMMA IndexCases ==
  ASSUME NEW idx, NEW e, NEW g
  PROVE  /\ e.cmd.kind = "add_assertion" =>
              IndexEvent(idx, e, g) = IndexAssertion(idx, e.cmd.id, g.assertions[e.cmd.id])
         /\ (e.cmd.kind = "link_evidence" /\ e.cmd.id \in DOMAIN g.assertions) =>
              IndexEvent(idx, e, g) =
                [idx EXCEPT !.bySource = @ \cup {<<e.cmd.source, e.cmd.id>>}]
         /\ e.cmd.kind \notin {"add_assertion", "link_evidence"} =>
              IndexEvent(idx, e, g) = idx
  <1>1. e.cmd.kind = "add_assertion" =>
          IndexEvent(idx, e, g) = IndexAssertion(idx, e.cmd.id, g.assertions[e.cmd.id])
    BY Zenon DEF IndexEvent
  <1>2. (e.cmd.kind = "link_evidence" /\ e.cmd.id \in DOMAIN g.assertions) =>
          IndexEvent(idx, e, g) = [idx EXCEPT !.bySource = @ \cup {<<e.cmd.source, e.cmd.id>>}]
    BY DEF IndexEvent
  <1>3. e.cmd.kind \notin {"add_assertion", "link_evidence"} => IndexEvent(idx, e, g) = idx
    BY DEF IndexEvent
  <1> QED BY <1>1, <1>2, <1>3

Indexes ==
  [bySubject : SUBSET (Entity \X Assertion), byObject : SUBSET (Object \X Assertion),
   byEntity : SUBSET (Entity \X Assertion), byTx : SUBSET (Nat \X Assertion),
   bySource : SUBSET (Source \X Assertion)]

(* An index is given pairs of its own keys.                                *)
LEMMA IndexType ==
  ASSUME NEW idx \in Indexes, NEW g, IsGraphState(g), NEW e \in Event, e.tx \in Nat,
         Validates(g, e.cmd)
  PROVE  IndexEvent(idx, e, ApplyEvent(g, e)) \in Indexes
  <1> DEFINE c == e.cmd
             h == ApplyEvent(g, e)
             after == IndexEvent(idx, e, h)
  <1>e. c \in Command  BY DEF Event
  <1> SUFFICES after \in Indexes
    OBVIOUS
  <1>1. CASE c.kind = "add_assertion"
    <2>1. after = IndexAssertion(idx, c.id, h.assertions[c.id])  BY <1>1, IndexCases
    <2>2. /\ h.assertions[c.id] =
               [subject |-> c.subject, object |-> c.object, sources |-> c.sources,
                confidence |-> c.confidence, status |-> "active",
                txStart |-> e.tx, txEnd |-> Open]
      BY <1>1, AddedFacts
    <2>3. /\ c.id \in Assertion /\ c.subject \in Entity /\ c.object \in Object
          /\ c.sources \in SUBSET Source
      BY <1>1, <1>e DEF Command
    <2>4. PICK r : r = h.assertions[c.id]
      OBVIOUS
    <2>5. /\ r.subject \in Entity /\ r.object \in Object /\ r.sources \in SUBSET Source
          /\ r.txStart \in Nat
      BY <2>2, <2>3, <2>4
    <2> HIDE DEF c, h
    <2>6. IndexAssertion(idx, c.id, r) \in Indexes
      <3>1. /\ idx.bySubject \cup {<<r.subject, c.id>>} \in SUBSET (Entity \X Assertion)
            /\ idx.byObject \cup {<<r.object, c.id>>} \in SUBSET (Object \X Assertion)
            /\ idx.byEntity \cup {<<r.subject, c.id>>} \cup ({r.object} \cap Entity) \X {c.id}
                 \in SUBSET (Entity \X Assertion)
        BY <2>3, <2>5 DEF Indexes
      <3>2. /\ idx.byTx \cup {<<r.txStart, c.id>>} \in SUBSET (Nat \X Assertion)
            /\ idx.bySource \cup (r.sources \X {c.id}) \in SUBSET (Source \X Assertion)
        BY <2>3, <2>5 DEF Indexes
      <3> QED BY <3>1, <3>2 DEF IndexAssertion, Indexes
    <2> QED BY <2>1, <2>4, <2>6
  <1>2. CASE c.kind = "link_evidence"
    <2>1. c.id \in DOMAIN g.assertions  BY <1>2 DEF Validates
    <2>2. c.id \in DOMAIN h.assertions
      BY <1>2, <2>1, AssertionsUntouched
    <2>3. after = [idx EXCEPT !.bySource = @ \cup {<<c.source, c.id>>}]
      BY <1>2, <2>2, IndexCases
    <2>4. c.source \in Source /\ c.id \in Assertion
      BY <1>2, <1>e DEF Command
    <2> HIDE DEF c, h
    <2> QED BY <2>3, <2>4 DEF Indexes
  <1>3. CASE c.kind \notin {"add_assertion", "link_evidence"}
    BY <1>3, IndexCases
  <1> QED BY <1>1, <1>2, <1>3

(* The indexes by fixed keys follow the state ...                          *)
LEMMA FixedFollows ==
  ASSUME NEW idx \in Indexes, NEW g, IsGraphState(g), NEW e \in Event,
         Validates(g, e.cmd), FixedExact(idx, g)
  PROVE  FixedExact(IndexEvent(idx, e, ApplyEvent(g, e)), ApplyEvent(g, e))
  <1> DEFINE c == e.cmd
             h == ApplyEvent(g, e)
             after == IndexEvent(idx, e, h)
  <1> SUFFICES FixedExact(after, h)
    OBVIOUS
  <1>1. CASE c.kind = "add_assertion"
    <2>1. after = IndexAssertion(idx, c.id, h.assertions[c.id])  BY <1>1, IndexCases
    <2>2. /\ DOMAIN h.assertions = DOMAIN g.assertions \cup {c.id}
          /\ \A a \in DOMAIN g.assertions : h.assertions[a] = g.assertions[a]
      BY <1>1, AddedFacts
    <2>3. PICK r : r = h.assertions[c.id]
      OBVIOUS
    <2> HIDE DEF h, c, after
    <2>4. /\ after.bySubject = idx.bySubject \cup ({r.subject} \X {c.id})
          /\ after.byObject = idx.byObject \cup ({r.object} \X {c.id})
          /\ after.byEntity = idx.byEntity
               \cup (({r.subject} \cup ({r.object} \cap Entity)) \X {c.id})
          /\ after.byTx = idx.byTx \cup ({r.txStart} \X {c.id})
      BY <2>1, <2>3 DEF IndexAssertion
    <2>5. after.bySubject = UNION {{h.assertions[a].subject} \X {a} : a \in DOMAIN h.assertions}
      BY <2>2, <2>3, <2>4 DEF FixedExact
    <2>6. after.byObject = UNION {{h.assertions[a].object} \X {a} : a \in DOMAIN h.assertions}
      BY <2>2, <2>3, <2>4 DEF FixedExact
    <2>7. after.byEntity =
            UNION {({h.assertions[a].subject} \cup ({h.assertions[a].object} \cap Entity)) \X {a} :
                     a \in DOMAIN h.assertions}
      BY <2>2, <2>3, <2>4 DEF FixedExact
    <2>8. after.byTx = UNION {{h.assertions[a].txStart} \X {a} : a \in DOMAIN h.assertions}
      BY <2>2, <2>3, <2>4 DEF FixedExact
    <2> QED BY <2>5, <2>6, <2>7, <2>8 DEF FixedExact
  <1>2. CASE c.kind # "add_assertion"
    <2>1. SameKeys(g, h)  BY <1>2, KeysKept
    <2>2. /\ after.bySubject = idx.bySubject /\ after.byObject = idx.byObject
          /\ after.byEntity = idx.byEntity /\ after.byTx = idx.byTx
      <3>1. CASE c.kind = "link_evidence"
        <4>1. c.id \in DOMAIN h.assertions  BY <2>1, <3>1 DEF Validates, SameKeys
        <4>2. after = [idx EXCEPT !.bySource = @ \cup {<<c.source, c.id>>}]
          BY <3>1, <4>1, IndexCases
        <4> HIDE DEF after, c, h
        <4> QED BY <4>2 DEF Indexes
      <3>2. CASE c.kind # "link_evidence"
        BY <1>2, <3>2, IndexCases
      <3> QED BY <3>1, <3>2
    <2> HIDE DEF h, c, after
    <2>3. UNION {{h.assertions[a].subject} \X {a} : a \in DOMAIN h.assertions}
            = UNION {{g.assertions[a].subject} \X {a} : a \in DOMAIN g.assertions}
      BY <2>1 DEF SameKeys
    <2>4. UNION {{h.assertions[a].object} \X {a} : a \in DOMAIN h.assertions}
            = UNION {{g.assertions[a].object} \X {a} : a \in DOMAIN g.assertions}
      BY <2>1 DEF SameKeys
    <2>5. UNION {({h.assertions[a].subject} \cup ({h.assertions[a].object} \cap Entity)) \X {a} :
                     a \in DOMAIN h.assertions}
            = UNION {({g.assertions[a].subject} \cup ({g.assertions[a].object} \cap Entity)) \X {a} :
                     a \in DOMAIN g.assertions}
      BY <2>1 DEF SameKeys
    <2>6. UNION {{h.assertions[a].txStart} \X {a} : a \in DOMAIN h.assertions}
            = UNION {{g.assertions[a].txStart} \X {a} : a \in DOMAIN g.assertions}
      BY <2>1 DEF SameKeys
    <2> QED BY <2>2, <2>3, <2>4, <2>5, <2>6 DEF FixedExact
  <1> QED BY <1>1, <1>2

(* ... the source index never names what does not support an assertion ... *)
LEMMA SourceFollows ==
  ASSUME NEW idx \in Indexes, NEW g, IsGraphState(g), NEW e \in Event,
         Validates(g, e.cmd), SourceSound(idx, g)
  PROVE  SourceSound(IndexEvent(idx, e, ApplyEvent(g, e)), ApplyEvent(g, e))
  <1> DEFINE c == e.cmd
             h == ApplyEvent(g, e)
             after == IndexEvent(idx, e, h)
  <1> SUFFICES SourceSound(after, h)
    OBVIOUS
  <1>1. CASE c.kind = "add_assertion"
    <2>1. after = IndexAssertion(idx, c.id, h.assertions[c.id])  BY <1>1, IndexCases
    <2>2. /\ DOMAIN h.assertions = DOMAIN g.assertions \cup {c.id}
          /\ \A a \in DOMAIN g.assertions : h.assertions[a] = g.assertions[a]
          /\ h.evidence = g.evidence
      BY <1>1, AddedFacts
    <2>3. PICK r : r = h.assertions[c.id]
      OBVIOUS
    <2> HIDE DEF h, c, after
    <2>4. after.bySource = idx.bySource \cup (r.sources \X {c.id})
      BY <2>1, <2>3 DEF IndexAssertion
    <2> SUFFICES ASSUME NEW p \in after.bySource
                 PROVE  /\ p[2] \in DOMAIN h.assertions
                        /\ p[1] \in h.assertions[p[2]].sources \cup AsSet(h.evidence, p[2])
      BY DEF SourceSound
    <2>5. CASE p \in idx.bySource
      BY <2>2, <2>5 DEF SourceSound
    <2>6. CASE p \in r.sources \X {c.id}
      BY <2>2, <2>3, <2>6
    <2> QED BY <2>4, <2>5, <2>6
  <1>2. CASE c.kind = "link_evidence"
    <2>1. c.id \in DOMAIN g.assertions /\ c.source \in g.sources  BY <1>2 DEF Validates
    <2>2. h.assertions = g.assertions
      BY <1>2, AssertionsUntouched
    <2>3. after = [idx EXCEPT !.bySource = @ \cup {<<c.source, c.id>>}]
      BY <1>2, <2>1, <2>2, IndexCases
    <2>4. h = EvidenceLinked(g, c)  BY <1>2, ApplyCases
    <2>5. h.evidence = Put(g.evidence, c.id, AsSet(g.evidence, c.id) \cup {c.source})
      BY <2>4 DEF EvidenceLinked, IsGraphState
    <2> HIDE DEF h, c, after
    <2>6. /\ c.source \in AsSet(h.evidence, c.id)
          /\ \A a : AsSet(g.evidence, a) \subseteq AsSet(h.evidence, a)
      BY <2>5 DEF Put, AsSet
    <2>7. after.bySource = idx.bySource \cup {<<c.source, c.id>>}
      BY <2>3 DEF Indexes
    <2> SUFFICES ASSUME NEW p \in after.bySource
                 PROVE  /\ p[2] \in DOMAIN h.assertions
                        /\ p[1] \in h.assertions[p[2]].sources \cup AsSet(h.evidence, p[2])
      BY DEF SourceSound
    <2>8. CASE p \in idx.bySource
      BY <2>2, <2>6, <2>8 DEF SourceSound
    <2>9. CASE p = <<c.source, c.id>>
      BY <2>1, <2>2, <2>6, <2>9
    <2> QED BY <2>7, <2>8, <2>9
  <1>3. CASE c.kind \notin {"add_assertion", "link_evidence"}
    <2>1. after = idx  BY <1>3, IndexCases
    <2>2. SameKeys(g, h)  BY <1>3, KeysKept
    <2>3. h.evidence = g.evidence  BY <1>3, ListsUntouched
    <2> HIDE DEF h, c, after
    <2> QED BY <2>1, <2>2, <2>3 DEF SourceSound, SameKeys
  <1> QED BY <1>1, <1>2, <1>3

(* ... and forgets no pair.                                                *)
LEMMA SourceGrows ==
  ASSUME NEW idx \in Indexes, NEW g, IsGraphState(g), NEW e \in Event, Validates(g, e.cmd)
  PROVE  LET after == IndexEvent(idx, e, ApplyEvent(g, e)) IN
         /\ idx.bySource \subseteq after.bySource
         /\ e.cmd.kind = "add_assertion" =>
              e.cmd.sources \X {e.cmd.id} \subseteq after.bySource
  <1> DEFINE c == e.cmd
             h == ApplyEvent(g, e)
             after == IndexEvent(idx, e, h)
  <1> SUFFICES /\ idx.bySource \subseteq after.bySource
               /\ c.kind = "add_assertion" => c.sources \X {c.id} \subseteq after.bySource
    OBVIOUS
  <1>1. CASE c.kind = "add_assertion"
    <2>1. after = IndexAssertion(idx, c.id, h.assertions[c.id])  BY <1>1, IndexCases
    <2>2. h.assertions[c.id].sources = c.sources  BY <1>1, AddedFacts
    <2> HIDE DEF h, c, after
    <2> QED BY <2>1, <2>2 DEF IndexAssertion
  <1>2. CASE c.kind = "link_evidence"
    <2>1. c.id \in DOMAIN g.assertions  BY <1>2 DEF Validates
    <2>2. c.id \in DOMAIN h.assertions
      BY <1>2, <2>1, AssertionsUntouched
    <2>3. after = [idx EXCEPT !.bySource = @ \cup {<<c.source, c.id>>}]
      BY <1>2, <2>2, IndexCases
    <2> HIDE DEF h, c, after
    <2> QED BY <1>2, <2>3 DEF Indexes
  <1>3. CASE c.kind \notin {"add_assertion", "link_evidence"}
    BY <1>3, IndexCases
  <1> QED BY <1>1, <1>2, <1>3

(* The adjacency lists follow the state.                                   *)
LEMMA OutgoingFollows ==
  ASSUME NEW g, IsGraphState(g), NEW e \in Event, Validates(g, e.cmd), OutgoingOf(g)
  PROVE  OutgoingOf(ApplyEvent(g, e))
  <1> DEFINE c == e.cmd
             h == ApplyEvent(g, e)
  <1> SUFFICES OutgoingOf(h)
    OBVIOUS
  <1>1. CASE c.kind = "add_assertion"
    <2>1. /\ c.id \notin DOMAIN g.assertions
          /\ DOMAIN h.assertions = DOMAIN g.assertions \cup {c.id}
          /\ \A a \in DOMAIN g.assertions : h.assertions[a] = g.assertions[a]
          /\ h.assertions[c.id].subject = c.subject
          /\ h.outgoing = Put(g.outgoing, c.subject, AsSet(g.outgoing, c.subject) \cup {c.id})
      BY <1>1, AddedFacts
    <2> HIDE DEF h, c
    <2> SUFFICES ASSUME NEW n \in Entity
                 PROVE  AsSet(h.outgoing, n)
                          = {a \in DOMAIN h.assertions : h.assertions[a].subject = n}
      BY DEF OutgoingOf
    <2>2. AsSet(h.outgoing, n) =
            IF n = c.subject THEN AsSet(g.outgoing, n) \cup {c.id} ELSE AsSet(g.outgoing, n)
      BY <2>1 DEF Put, AsSet
    <2>3. AsSet(g.outgoing, n) = {a \in DOMAIN g.assertions : g.assertions[a].subject = n}
      BY DEF OutgoingOf
    <2> QED BY <2>1, <2>2, <2>3
  <1>2. CASE c.kind # "add_assertion"
    <2>1. SameKeys(g, h) /\ h.outgoing = g.outgoing  BY <1>2, KeysKept, ListsUntouched
    <2> HIDE DEF h, c
    <2> QED BY <2>1 DEF SameKeys, OutgoingOf
  <1> QED BY <1>1, <1>2

-----------------------------------------------------------------------------
(***************************************************************************)
(* The store and the log it follows, across restarts.  A restart rebuilds  *)
(* everything from the events, so that the invariant must say what a       *)
(* rebuild computes: that replay of the log gives the state in memory, and *)
(* that the state still has every source an assertion was added with,      *)
(* which is all the rebuilt source index knows of.                         *)
(***************************************************************************)
CitedStay ==
  \A i \in 1..Len(events) :
    LET c == events[i].cmd IN
    c.kind = "add_assertion" =>
      c.id \in DOMAIN graph.assertions /\ c.sources \subseteq graph.assertions[c.id].sources

TimesAreCounts ==
  /\ \A i \in 1..Len(events) : events[i].tx \in Nat
  /\ \A a \in DOMAIN graph.assertions : graph.assertions[a].txStart \in Nat

StoreInv ==
  /\ StoreTypeOK /\ RefsClosed /\ EventsOrdered /\ ReplayEqualsState
  /\ SupersededStays /\ IndexesFollowState /\ TimesAreCounts /\ CitedStay

(* The parts of the invariant about the indexes, as the lemmas above put   *)
(* them.                                                                   *)
LEMMA IndexParts ==
  ASSUME NEW idx, NEW g
  PROVE  /\ FixedExact(idx, g) <=>
              \A i \in {"bySubject", "byObject", "byEntity", "byTx"} :
                idx[i] = FromState(g)[i]
         /\ FixedExact(FromState(g), g)
         /\ SourceSound(FromState(g), g)
         /\ FromState(g).bySource = UNION {g.assertions[a].sources \X {a} : a \in DOMAIN g.assertions}
  <1>1. FixedExact(FromState(g), g)
    BY FromStateIs DEF FixedExact
  <1>2. FromState(g).bySource = UNION {g.assertions[a].sources \X {a} : a \in DOMAIN g.assertions}
    BY FromStateIs
  <1>3. SourceSound(FromState(g), g)
    BY <1>2 DEF SourceSound
  <1>4. FixedExact(idx, g) <=>
          \A i \in {"bySubject", "byObject", "byEntity", "byTx"} : idx[i] = FromState(g)[i]
    BY <1>1 DEF FixedExact
  <1> QED BY <1>1, <1>2, <1>3, <1>4

(* A rebuilt index has pairs of its own keys.                              *)
LEMMA FromStateType ==
  ASSUME NEW g, IsGraphState(g), \A a \in DOMAIN g.assertions : g.assertions[a].txStart \in Nat
  PROVE  FromState(g) \in Indexes
  <1> DEFINE recs == g.assertions
  <1>1. \A a \in DOMAIN recs :
          /\ a \in Assertion /\ recs[a].subject \in Entity /\ recs[a].object \in Object
          /\ recs[a].sources \in SUBSET Source /\ recs[a].txStart \in Nat
    BY DEF IsGraphState, IsMap, AssertionRecord
  <1> HIDE DEF recs
  <1>2. UNION {{recs[a].subject} \X {a} : a \in DOMAIN recs} \in SUBSET (Entity \X Assertion)
    BY <1>1
  <1>3. UNION {{recs[a].object} \X {a} : a \in DOMAIN recs} \in SUBSET (Object \X Assertion)
    BY <1>1
  <1>4. UNION {({recs[a].subject} \cup ({recs[a].object} \cap Entity)) \X {a} : a \in DOMAIN recs}
          \in SUBSET (Entity \X Assertion)
    BY <1>1
  <1>5. UNION {{recs[a].txStart} \X {a} : a \in DOMAIN recs} \in SUBSET (Nat \X Assertion)
    BY <1>1
  <1>6. UNION {recs[a].sources \X {a} : a \in DOMAIN recs} \in SUBSET (Source \X Assertion)
    BY <1>1
  <1> QED BY <1>2, <1>3, <1>4, <1>5, <1>6, FromStateIs DEF Indexes, recs

(* The start of an empty store.                                            *)
LEMMA StoreStarts == Init => StoreInv
  <1> SUFFICES ASSUME Init PROVE StoreInv
    OBVIOUS
  <1>0. /\ events = <<>> /\ graph = EmptyGraph /\ lastTx = StartTx /\ nextSequence = 1
        /\ stored = <<>> /\ served = EmptyGraph /\ indexes = NoIndexes
    BY DEF Init, LogInit
  <1>1. StoreTypeOK
    BY <1>0, EmptyGraphType, LogAssumption DEF LogTypeOK, StoreTypeOK, NoIndexes
  <1>2. RefsClosed
    BY <1>0 DEF RefsClosed, NoDangling, EmptyGraph, NoEntries,
                AssertionRefs, EvidenceRefs, MergeRefs, CausalRefs, MemoryRefs
  <1>3. EventsOrdered /\ SupersededStays /\ TimesAreCounts /\ CitedStay
    BY <1>0 DEF EmptyGraph, NoEntries, EventsOrdered, SupersededStays, TimesAreCounts, CitedStay
  <1>4. ReplayEqualsState
    <2>1. Replay(<<>>) = [ok |-> TRUE, graph |-> EmptyGraph]
      BY ReplayUnfolds
    <2> QED BY <1>0, <2>1 DEF ReplayEqualsState
  <1>5. IndexesFollowState
    <2>1. FixedExact(NoIndexes, EmptyGraph)
      BY DEF FixedExact, NoIndexes, EmptyGraph, NoEntries
    <2>2. FixedKeysExact
      BY <1>0, <2>1, IndexParts DEF FixedKeysExact
    <2>3. StoreFollowsLog /\ SourceIndexSound /\ SourceIndexKeepsCited
      BY <1>0 DEF StoreFollowsLog, SourceIndexSound, SourceIndexKeepsCited, NoIndexes
    <2>4. OutgoingExact
      BY <1>0 DEF OutgoingExact, EmptyGraph, NoEntries, AsSet
    <2> QED BY <2>2, <2>3, <2>4 DEF IndexesFollowState
  <1> QED BY <1>1, <1>2, <1>3, <1>4, <1>5 DEF StoreInv

(* Replay of a longer log goes on from the state in memory.                *)
LEMMA ExecuteReplay ==
  ASSUME LogTypeOK, ReplayEqualsState, NEW c \in Command, Execute(c)
  PROVE  ReplayEqualsState'
  <1>1. NextEvent(c) \in Event /\ NextEvent(c).cmd = c
    BY NextEventType
  <1>2. /\ Applicable(graph, c) /\ events' = Append(events, NextEvent(c))
        /\ graph' = ApplyEvent(graph, NextEvent(c)) /\ nextSequence' = nextSequence + 1
    BY ExecuteStep
  <1>3. events \in Seq(Event)
    BY DEF LogTypeOK
  <1>4. Replay(events') = [ok |-> TRUE, graph |-> ApplyEvent(Replay(events).graph, NextEvent(c))]
    BY <1>1, <1>2, <1>3, ReplayUnfolds DEF ReplayEqualsState
  <1>5. Len(events') = Len(events) + 1
    <2> HIDE DEF NextEvent
    <2> QED BY <1>1, <1>2, <1>3
  <1> QED BY <1>2, <1>4, <1>5 DEF ReplayEqualsState

(* A write reaches the log, the store and the indexes.                     *)
LEMMA WriteKeeps ==
  ASSUME StoreInv, NEW c \in Command, Write(c)
  PROVE  StoreInv'
  <1> DEFINE e == NextEvent(c)
  <1>0. LogTypeOK /\ Execute(c) /\ StoreFollowsLog
    BY DEF StoreInv, StoreTypeOK, Write, IndexesFollowState
  <1>1. /\ e \in Event /\ e.cmd = c /\ e.tx = lastTx + 1 /\ e.tx \in Nat
    BY <1>0, NextEventType DEF NextEvent, EventOf, LogTypeOK
  <1>2. /\ Validates(graph, c) /\ Applicable(graph, c)
        /\ events' = Append(events, e) /\ graph' = ApplyEvent(graph, e)
    BY <1>0, ExecuteStep
  <1>3. LogTypeOK'
    BY <1>0, ExecuteType
  <1>4. /\ stored' = events' /\ served' = graph'
        /\ indexes' = IndexEvent(indexes, e, graph')
    BY <1>0, <1>1, <1>2 DEF Write, AppendEvent, StoreFollowsLog
  <1>5. IsGraphState(graph) /\ events \in Seq(Event) /\ indexes \in Indexes
    BY DEF StoreInv, StoreTypeOK, LogTypeOK, Indexes
  <1> HIDE DEF e
  <1>6. indexes' \in Indexes
    BY <1>1, <1>2, <1>4, <1>5, IndexType
  <1>7. StoreTypeOK'
    BY <1>3, <1>4, <1>6 DEF StoreTypeOK, LogTypeOK, Indexes
  <1>8. RefsClosed' /\ EventsOrdered' /\ ReplayEqualsState' /\ SupersededStays'
    <2>1. RefsClosed'
      BY <1>0, ExecuteRefs DEF StoreInv
    <2>2. EventsOrdered'
      BY <1>0, ExecuteOrder DEF StoreInv, Counted, ReplayEqualsState
    <2>3. ReplayEqualsState'
      BY <1>0, ExecuteReplay DEF StoreInv
    <2>4. SupersededStays'
      BY <1>0, ExecuteSettled DEF StoreInv
    <2> QED BY <2>1, <2>2, <2>3, <2>4
  <1>9. /\ Len(events) \in Nat /\ Len(events') = Len(events) + 1 /\ events'[Len(events) + 1] = e
        /\ \A i \in 1..Len(events) : events'[i] = events[i]
    BY <1>1, <1>2, <1>5
  <1>10. IndexesFollowState'
    <2>1. FixedExact(indexes, graph) /\ SourceSound(indexes, graph) /\ OutgoingOf(graph)
      <3>1. FixedExact(indexes, graph)
        BY <1>0, IndexParts DEF StoreInv, IndexesFollowState, FixedKeysExact, StoreFollowsLog
      <3> QED
        BY <1>0, <3>1 DEF StoreInv, IndexesFollowState, StoreFollowsLog, SourceIndexSound,
                          SourceSound, OutgoingExact, OutgoingOf
    <2>2. FixedExact(indexes', graph') /\ SourceSound(indexes', graph') /\ OutgoingOf(graph')
      BY <1>1, <1>2, <1>4, <1>5, <2>1, FixedFollows, SourceFollows, OutgoingFollows
    <2>3. FixedKeysExact'
      BY <1>4, <2>2, IndexParts DEF FixedKeysExact
    <2>4. SourceIndexSound' /\ OutgoingExact' /\ StoreFollowsLog'
      BY <1>4, <2>2 DEF SourceIndexSound, SourceSound, OutgoingExact, OutgoingOf, StoreFollowsLog
    <2>5. SourceIndexKeepsCited'
      <3>1. /\ indexes.bySource \subseteq indexes'.bySource
            /\ c.kind = "add_assertion" => c.sources \X {c.id} \subseteq indexes'.bySource
        BY <1>1, <1>2, <1>4, <1>5, SourceGrows
      <3>2. \A i \in 1..Len(events) :
              events[i].cmd.kind = "add_assertion" =>
                events[i].cmd.sources \X {events[i].cmd.id} \subseteq indexes.bySource
        BY <1>0 DEF StoreInv, IndexesFollowState, SourceIndexKeepsCited, StoreFollowsLog
      <3> QED BY <1>1, <1>4, <1>9, <3>1, <3>2 DEF SourceIndexKeepsCited
    <2> QED BY <2>3, <2>4, <2>5 DEF IndexesFollowState
  <1>11. /\ TimesAreCounts' /\ CitedStay'
    <2>1. CASE c.kind = "add_assertion"
      <3>1. /\ DOMAIN graph'.assertions = DOMAIN graph.assertions \cup {c.id}
            /\ \A a \in DOMAIN graph.assertions : graph'.assertions[a] = graph.assertions[a]
            /\ graph'.assertions[c.id].sources = c.sources
            /\ graph'.assertions[c.id].txStart = e.tx
        <4>1. graph' = ApplyEvent(graph, e) /\ e.cmd = c /\ IsGraphState(graph)
              /\ e \in Event /\ Validates(graph, c)
          BY <1>1, <1>2, <1>5
        <4> HIDE DEF Write, StoreInv
        <4> QED BY <2>1, <4>1, AddedFacts
      <3> QED BY <1>1, <1>9, <3>1 DEF StoreInv, TimesAreCounts, CitedStay
    <2>2. CASE c.kind # "add_assertion"
      <3>1. SameKeys(graph, graph')
        BY <1>1, <1>2, <1>5, <2>2, KeysKept
      <3>2. TimesAreCounts /\ CitedStay
        BY DEF StoreInv
      <3>3. TimesAreCounts'
        BY <1>1, <1>9, <3>1, <3>2 DEF SameKeys, TimesAreCounts
      <3>4. CitedStay'
        <4> SUFFICES ASSUME NEW i \in 1..Len(events'), events'[i].cmd.kind = "add_assertion"
                     PROVE  /\ events'[i].cmd.id \in DOMAIN graph'.assertions
                            /\ events'[i].cmd.sources
                                 \subseteq graph'.assertions[events'[i].cmd.id].sources
          BY DEF CitedStay
        <4>1. i \in 1..Len(events) /\ events'[i] = events[i]
          BY <1>1, <1>9, <2>2
        <4>2. /\ events[i].cmd.id \in DOMAIN graph.assertions
              /\ events[i].cmd.sources \subseteq graph.assertions[events[i].cmd.id].sources
          BY <3>2, <4>1 DEF CitedStay
        <4> QED BY <3>1, <4>1, <4>2 DEF SameKeys
      <3> QED BY <3>3, <3>4
    <2> QED BY <2>1, <2>2
  <1> QED BY <1>7, <1>8, <1>10, <1>11 DEF StoreInv

(* A restart finds the log it left, and rebuilds the state it left.        *)
LEMMA RestartKeeps ==
  ASSUME StoreInv, Restart
  PROVE  StoreInv' /\ graph' = graph /\ events' = events
  <1>0. StoreFollowsLog /\ ReplayEqualsState /\ EventsOrdered /\ TimesAreCounts /\ LogTypeOK
    BY DEF StoreInv, IndexesFollowState, StoreTypeOK
  <1>1. /\ events' = events /\ graph' = graph /\ stored' = events /\ served' = graph
        /\ indexes' = FromState(graph) /\ nextSequence' = Len(events) + 1
        /\ lastTx' = IF events = <<>> THEN 0 ELSE events[Len(events)].tx
    BY <1>0 DEF Restart, FromEvents, StorageReplay, ReplayEqualsState
  <1>2. events \in Seq(Event) /\ Len(events) \in Nat /\ IsGraphState(graph)
    BY <1>0, LogAssumption DEF LogTypeOK
  <1>3. lastTx' \in Nat /\ \A i \in 1..Len(events) : events[i].tx <= lastTx'
    <2>1. CASE events = <<>>
      BY <1>1, <2>1
    <2>2. CASE events # <<>>
      <3>1. Len(events) \in 1..Len(events) /\ lastTx' = events[Len(events)].tx
        BY <1>1, <1>2, <2>2
      <3>2. \A i \in 1..Len(events) : events[i].tx \in Nat /\ (i < Len(events) => events[i].tx < lastTx')
        BY <1>0, <3>1 DEF TimesAreCounts, EventsOrdered
      <3> HIDE DEF StoreInv, Restart
      <3> QED BY <1>2, <3>1, <3>2
    <2> QED BY <2>1, <2>2
  <1>4. FromState(graph) \in Indexes
    BY <1>0, <1>2, FromStateType DEF TimesAreCounts
  <1>5. StoreTypeOK'
    BY <1>0, <1>1, <1>2, <1>3, <1>4 DEF StoreTypeOK, LogTypeOK, Indexes
  <1>6. EventsOrdered'
    BY <1>0, <1>1, <1>3 DEF EventsOrdered
  <1>7. ReplayEqualsState'
    BY <1>0, <1>1 DEF ReplayEqualsState
  <1>8. RefsClosed' /\ SupersededStays' /\ TimesAreCounts' /\ CitedStay'
    BY <1>1 DEF StoreInv, RefsClosed, SupersededStays, TimesAreCounts, CitedStay
  <1>9. IndexesFollowState'
    <2>1. FixedKeysExact'
      BY <1>1 DEF FixedKeysExact
    <2>2. SourceIndexSound'
      BY <1>1, IndexParts DEF SourceIndexSound, SourceSound
    <2>3. SourceIndexKeepsCited'
      <3> SUFFICES ASSUME NEW i \in 1..Len(events), events[i].cmd.kind = "add_assertion"
                   PROVE  events[i].cmd.sources \X {events[i].cmd.id}
                            \subseteq FromState(graph).bySource
        BY <1>1 DEF SourceIndexKeepsCited
      <3>1. /\ events[i].cmd.id \in DOMAIN graph.assertions
            /\ events[i].cmd.sources \subseteq graph.assertions[events[i].cmd.id].sources
        BY DEF StoreInv, CitedStay
      <3>2. FromState(graph).bySource =
              UNION {graph.assertions[a].sources \X {a} : a \in DOMAIN graph.assertions}
        BY IndexParts
      <3> QED BY <3>1, <3>2
    <2>4. OutgoingExact' /\ StoreFollowsLog'
      BY <1>1 DEF StoreInv, IndexesFollowState, OutgoingExact, StoreFollowsLog
    <2> QED BY <2>1, <2>2, <2>3, <2>4 DEF IndexesFollowState
  <1> QED BY <1>1, <1>5, <1>6, <1>7, <1>8, <1>9 DEF StoreInv

(* Every step is a write of a command or a restart.                        *)
LEMMA NextIs == Next => Restart \/ \E c \in Command : Write(c)
  BY DEF Next, CreateEntity, AddAssertion, RetractAssertion, AddSource, LinkEvidence,
         MergeEntities, UpdateConfidence, AddCausalLink, RecordAgentMemory

(* The invariant holds of every run of the store.                          *)
LEMMA StoreInvHolds == Spec => []StoreInv
  <1>1. StoreInv /\ Next => StoreInv'
    BY NextIs, WriteKeeps, RestartKeeps
  <1>2. StoreInv /\ UNCHANGED vars => StoreInv'
    BY DEF vars, logVars, storeVars, StoreInv, StoreTypeOK, LogTypeOK, RefsClosed, EventsOrdered,
           ReplayEqualsState, SupersededStays, IndexesFollowState, StoreFollowsLog,
           OutgoingExact, FixedKeysExact, SourceIndexSound, SourceIndexKeepsCited,
           TimesAreCounts, CitedStay
  <1>3. StoreInv /\ [Next]_vars => StoreInv'
    BY <1>1, <1>2
  <1> QED BY <1>3, StoreStarts, PTL DEF Spec

(* StoreTypeOK: the store, its indexes and the log keep their types across *)
(* any number of writes and restarts.                                      *)
THEOREM StoreTypeCorrect == Spec => []StoreTypeOK
  <1>1. StoreInv => StoreTypeOK
    BY DEF StoreInv
  <1> QED BY <1>1, StoreInvHolds, PTL

(* ReplayEqualsState: replaying the log from nothing meets no unknown      *)
(* reference and ends in the state kept in memory, however long the log is *)
(* and however often the process was restarted.                            *)
THEOREM ReplayRebuilds == Spec => []ReplayEqualsState
  <1>1. StoreInv => ReplayEqualsState
    BY DEF StoreInv
  <1> QED BY <1>1, StoreInvHolds, PTL

(* IndexesFollowState: the store's copy of the state, its indexes and the  *)
(* adjacency lists never drift from the log, event by event or rebuilt.    *)
THEOREM StoreNeverDrifts == Spec => []IndexesFollowState
  <1>1. StoreInv => IndexesFollowState
    BY DEF StoreInv
  <1> QED BY <1>1, StoreInvHolds, PTL

(* RefsClosed, EventsOrdered and SupersededStays hold across restarts too: *)
(* the counters a restarted log takes from its last event do not give a    *)
(* number or a time out again.                                             *)
THEOREM RestartsKeepOrder == Spec => [](RefsClosed /\ EventsOrdered /\ SupersededStays)
  <1>1. StoreInv => RefsClosed /\ EventsOrdered /\ SupersededStays
    BY DEF StoreInv
  <1> QED BY <1>1, StoreInvHolds, PTL

(* PastNeverShrinks, across restarts.                                      *)
THEOREM RestartsKeepPast == Spec => PastNeverShrinks
  <1>1. StoreInv /\ [Next]_vars => [PastKept]_logVars
    <2>1. ASSUME StoreInv, NEW c \in Command, Write(c) PROVE PastKept
      <3>1. LogTypeOK /\ Execute(c)
        BY <2>1 DEF StoreInv, StoreTypeOK, Write
      <3> QED BY <3>1, ExecuteKeepsPast
    <2>2. StoreInv /\ Restart => PastKept
      BY RestartKeeps DEF PastKept
    <2>3. UNCHANGED vars => UNCHANGED logVars
      BY DEF vars, logVars
    <2> QED BY <2>1, <2>2, <2>3, NextIs
  <1>2. [PastKept]_logVars
          => [\A k \in 0..lastTx : KnownAt(graph, k) \subseteq KnownAt(graph', k)]_logVars
    BY DEF PastKept
  <1> QED BY <1>1, <1>2, StoreInvHolds, PTL DEF Spec, PastNeverShrinks
=============================================================================
