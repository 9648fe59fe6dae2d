------------------------------ MODULE EventLog ------------------------------
(***************************************************************************)
(* EventLog of crates/rg-events: the append-only log of graph events, the  *)
(* state it keeps materialised beside it, and the two counters it stamps   *)
(* events with.  The log is single-threaded: `execute` takes &mut self.    *)
(***************************************************************************)
EXTENDS GraphEvents

CONSTANTS
  StartTx,     \* the transaction time EventLog::new is given
  MaxEvents    \* bound on the length of the log

ASSUME LogAssumption == StartTx \in Nat /\ MaxEvents \in Nat

VARIABLES
  events,        \* Vec<GraphEvent>
  graph,         \* GraphState
  lastTx,        \* last_tx
  nextSequence   \* next_sequence

logVars == <<events, graph, lastTx, nextSequence>>

LogInit ==
  /\ events = <<>>
  /\ graph = EmptyGraph
  /\ lastTx = StartTx
  /\ nextSequence = 1

(***************************************************************************)
(* execute: a rejected command changes nothing.  An accepted one is pushed *)
(* before it is applied, so that an event that did not apply would stay in *)
(* the log while the counters stand still.                                 *)
(***************************************************************************)
\* A slip the properties must notice: the transaction time of the last event again.
SameTxEvent(c) == EventOf(c, nextSequence, lastTx)

NextEvent(c) == EventOf(c, nextSequence, lastTx + 1)

\* A slip the properties must notice: no validation.
ExecuteUnvalidated(c) ==
  /\ Len(events) < MaxEvents
  /\ events' = Append(events, NextEvent(c))
  /\ IF Applicable(graph, c)
     THEN /\ graph' = ApplyEvent(graph, NextEvent(c))
          /\ lastTx' = lastTx + 1
          /\ nextSequence' = nextSequence + 1
     ELSE UNCHANGED <<graph, lastTx, nextSequence>>

Execute(c) ==
  /\ Len(events) < MaxEvents
  /\ Validates(graph, c)
  /\ events' = Append(events, NextEvent(c))
  /\ IF Applicable(graph, c)
     THEN /\ graph' = ApplyEvent(graph, NextEvent(c))
          /\ lastTx' = lastTx + 1
          /\ nextSequence' = nextSequence + 1
     ELSE UNCHANGED <<graph, lastTx, nextSequence>>

(***************************************************************************)
(* from_events: the log a restarted process builds.  The last transaction  *)
(* time is that of the last event, or zero, whatever time the first        *)
(* process started its log at.                                             *)
(***************************************************************************)
FromEvents ==
  /\ Replay(events).ok
  /\ graph' = Replay(events).graph
  /\ lastTx' = IF events = <<>> THEN 0 ELSE events[Len(events)].tx
  /\ nextSequence' = Len(events) + 1
  /\ UNCHANGED events

(***************************************************************************)
(* The life of one log between two restarts; GraphStore.tla restarts it.   *)
(***************************************************************************)
LogNext == \E c \in Command : Execute(c)

LogSpec == LogInit /\ [][LogNext]_logVars

-----------------------------------------------------------------------------
LogTypeOK ==
  /\ events \in Seq(Event) /\ Len(events) \in 0..MaxEvents
  /\ IsGraphState(graph)
  /\ lastTx \in Nat
  /\ nextSequence \in Nat

(***************************************************************************)
(* No reference dangles: whatever an assertion, an evidence link, a merge, *)
(* a causal link or a memory names exists.  Each command is checked        *)
(* against the state of its own moment only, so this holds as long as no   *)
(* later event removes what an earlier one was checked against, and as     *)
(* long as every check that a kind of command needs is there.              *)
(***************************************************************************)
AssertionRefs(g) ==
  \A a \in DOMAIN g.assertions :
    /\ g.assertions[a].subject \in g.entities
    /\ g.assertions[a].object \in g.entities \cup Literal
    /\ g.assertions[a].sources \subseteq g.sources

EvidenceRefs(g) ==
  \A a \in DOMAIN g.evidence :
    a \in DOMAIN g.assertions /\ g.evidence[a] \subseteq g.sources

MergeRefs(g) ==
  \A e \in DOMAIN g.merged : {e, g.merged[e]} \subseteq g.entities

CausalRefs(g) ==
  \A l \in DOMAIN g.causal : g.causal[l] \subseteq g.sources

MemoryRefs(g) ==
  \A m \in DOMAIN g.memories :
    /\ g.memories[m].sources \subseteq g.sources
    /\ g.memories[m].related \subseteq g.entities
    /\ g.memories[m].supersedes \subseteq DOMAIN g.memories

NoDangling(g) ==
  /\ AssertionRefs(g) /\ EvidenceRefs(g) /\ MergeRefs(g)
  /\ CausalRefs(g) /\ MemoryRefs(g)

RefsClosed == NoDangling(graph)

(***************************************************************************)
(* Every event gets its own sequence number and a transaction time later   *)
(* than all before it ("monotonic transaction timestamps", README), across *)
(* any number of restarts.                                                 *)
(***************************************************************************)
EventsOrdered ==
  /\ \A i \in 1..Len(events) : events[i].seq = i /\ events[i].tx <= lastTx
  /\ \A i, j \in 1..Len(events) : i < j => events[i].tx < events[j].tx

(***************************************************************************)
(* The log alone rebuilds the state: replaying it from nothing meets no    *)
(* unknown reference and ends in the state kept in memory.  A command that *)
(* is accepted and pushed but does not apply would break every restart.    *)
(***************************************************************************)
ReplayEqualsState ==
  /\ Replay(events).ok
  /\ Replay(events).graph = graph
  /\ nextSequence = Len(events) + 1

(***************************************************************************)
(* The adjacency list kept beside the assertions lists exactly them.       *)
(***************************************************************************)
OutgoingExact ==
  \A e \in Entity :
    AsSet(graph.outgoing, e) =
      {a \in DOMAIN graph.assertions : graph.assertions[a].subject = e}

(***************************************************************************)
(* A memory that a recorded memory supersedes is never served as current   *)
(* again, and a retracted assertion never becomes active again.            *)
(***************************************************************************)
SupersededStays ==
  /\ \A m \in DOMAIN graph.memories : \A old \in graph.memories[m].supersedes :
       graph.memories[old].status = "superseded"
  /\ \A a \in DOMAIN graph.assertions :
       (graph.assertions[a].status = "retracted")
         <=> (graph.assertions[a].txEnd # Open)

(***************************************************************************)
(* What was known at a transaction time stays known at it: no later event  *)
(* removes an assertion from the answer to a past-time query.              *)
(***************************************************************************)
PastNeverShrinks ==
  [][\A k \in 0..lastTx : KnownAt(graph, k) \subseteq KnownAt(graph', k)]_logVars

(***************************************************************************)
(* docs/architecture/data-model.md: "Corrections and retractions append    *)
(* new events. They do not mutate historical truth."  The answer to a      *)
(* past-time query would then never change at all.                         *)
(***************************************************************************)
PastNeverChanges ==
  [][\A k \in 0..lastTx : KnownAt(graph, k) = KnownAt(graph', k)]_logVars
=============================================================================
