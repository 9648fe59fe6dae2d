---------------------------- MODULE AgentMemory ----------------------------
(***************************************************************************)
(* The agent memory service: memories that agents write, consolidate and   *)
(* supersede, each change an event of a journal that is applied to the     *)
(* service and then pushed.  A memory keeps what the corrections read: its *)
(* lifecycle, the memories it supersedes, contradicts or was compressed    *)
(* from, who may read it and since when it holds.  Content, kind and       *)
(* confidence only weigh a score and are left out.                         *)
(***************************************************************************)
EXTENDS Naturals, Sequences, SequencesExt

CONSTANTS
  Reader,     \* agents, who own memories and read them
  Write,      \* the writes the agents may ask for, records of WriteMemory
  MaxJournal  \* bound of the exploration: events in the journal

VARIABLES
  service,  \* memories, last_tx, superseded_by and contradicted_by
  journal   \* the events applied, in order

memoryVars == <<service, journal>>

MemoryId == {w.id : w \in Write}
Readable(record, reader) == record.public \/ reader \in record.readers
CurrentTruth(record) == record.lifecycle \in {"Active", "Reinforced"}

(***************************************************************************)
(* Applying an event: what it does to the service.                         *)
(***************************************************************************)
NewService(start) ==
  [memories |-> <<>>, last_tx |-> start, superseded_by |-> {}, contradicted_by |-> {}]

Touch(s, ids, status, tx) ==
  [m \in DOMAIN s.memories |->
     IF m \in ids THEN [s.memories[m] EXCEPT !.lifecycle = status, !.updated_tx = tx]
     ELSE s.memories[m]]

ApplyReferences(s, r) ==
  LET superseded == [s EXCEPT !.memories = Touch(s, r.supersedes, "Superseded", r.updated_tx)]
  IN  [s EXCEPT
         !.memories = Touch(superseded, r.contradicts, "Contradicted", r.updated_tx),
         !.superseded_by = @ \cup {<<m, r.id>> : m \in r.supersedes},
         !.contradicted_by = @ \cup {<<m, r.id>> : m \in r.contradicts}]

ApplyWritten(s, r) ==
  LET marked == ApplyReferences(s, r)
  IN  [marked EXCEPT !.memories = [m \in DOMAIN @ \cup {r.id} |-> IF m = r.id THEN r ELSE @[m]]]

ApplyMemory(s, e) ==
  LET applied ==
        CASE e.kind = "MemoryWritten" -> ApplyWritten(s, e.record)
          [] e.kind = "MemoryLifecycleChanged" ->
               [s EXCEPT !.memories = Touch(s, {e.id}, "Archived", e.tx)]
          [] e.kind = "MemorySuperseded" ->
               [s EXCEPT !.memories = Touch(s, {e.id}, "Superseded", e.tx),
                         !.superseded_by = @ \cup {<<e.id, e.by>>}]
  IN  [applied EXCEPT !.last_tx = IF e.tx > @ THEN e.tx ELSE @]

\* The events one after the other.
Applied(s, events) ==
  LET after[n \in Nat] == IF n = 0 THEN s ELSE ApplyMemory(after[n - 1], events[n])
  IN  after[Len(events)]

ReplayJournal(events) == Applied(NewService(0), events)

(***************************************************************************)
(* The operations: each validates, then appends its events one by one, the *)
(* transaction time of each one above the last.                            *)
(***************************************************************************)
Recorded(w, from, tx) ==
  [id |-> w.id, lifecycle |-> w.lifecycle, supersedes |-> w.supersedes,
   contradicts |-> w.contradicts, from |-> from, readers |-> w.readers,
   public |-> w.public, valid |-> w.valid, sources |-> w.sources, updated_tx |-> tx]

Written(w, from, tx) ==
  [kind |-> "MemoryWritten", record |-> Recorded(w, from, tx), tx |-> tx]

Known == DOMAIN service.memories
NextTx == service.last_tx + 1

ValidateWrite(w) ==
  /\ w.id \notin Known
  /\ w.sources # {}
  /\ w.supersedes \cup w.contradicts \subseteq Known

\* A slip the properties must notice: only the first event reaches the journal.
AppendFirst(events) ==
  /\ Len(journal) + Len(events) <= MaxJournal
  /\ service' = Applied(service, events)
  /\ journal' = Append(journal, Head(events))

AppendAll(events) ==
  /\ Len(journal) + Len(events) <= MaxJournal
  /\ service' = Applied(service, events)
  /\ journal' = journal \o events

WriteMemory(w) ==
  /\ ValidateWrite(w)
  /\ AppendAll(<<Written(w, {}, NextTx)>>)

ConsolidateMemory(w, sources) ==
  LET plain == [w EXCEPT !.supersedes = {}, !.contradicts = {}, !.lifecycle = "Active"]
      order == SetToSeq(sources)
  IN  /\ sources \subseteq Known
      /\ ValidateWrite(plain)
      /\ AppendAll(<<Written(plain, sources, NextTx)>> \o
           [i \in DOMAIN order |->
              [kind |-> "MemoryLifecycleChanged", id |-> order[i], tx |-> NextTx + i]])

SupersedeMemory(old, w) ==
  LET correction == [w EXCEPT !.supersedes = @ \cup {old}]
  IN  /\ old \in Known
      /\ ValidateWrite(correction)
      /\ AppendAll(<<Written(correction, {}, NextTx),
                     [kind |-> "MemorySuperseded", id |-> old, by |-> w.id, tx |-> NextTx + 1]>>)

(***************************************************************************)
(* Retrieval: what a reader is given, in which order being left out.  Only *)
(* the graph mode looks at valid time; the transcript mode ignores the     *)
(* lifecycle too.                                                          *)
(***************************************************************************)
RetrieveMemory(reader, mode, at, history) ==
  {m \in Known :
     LET r == service.memories[m]
     IN  /\ Readable(r, reader)
         /\ mode = "GraphTemporal" => r.valid <= at
         /\ history \/ mode = "TranscriptVector" \/ CurrentTruth(r)}

MemoryInit == journal = <<>> /\ \E start \in 0..1 : service = NewService(start)
MemoryNext ==
  \E w \in Write :
    \/ WriteMemory(w)
    \/ \E sources \in SUBSET Known : ConsolidateMemory(w, sources)
    \/ \E old \in Known : SupersedeMemory(old, w)

(***************************************************************************)
(* What a restart rebuilds from the journal is the service that wrote it,  *)
(* the next transaction time included, however the operations interleaved  *)
(* (AgentMemoryService::replay, apply_event).                              *)
(***************************************************************************)
MemoryIsJournal == journal # <<>> => service = ReplayJournal(journal)

(***************************************************************************)
(* A memory once superseded, contradicted or compressed into another one   *)
(* is never again offered as current truth to anyone, whatever was written *)
(* since, and a correction can be explained from both of its ends          *)
(* (retrieve_memory, explain_memory).                                      *)
(***************************************************************************)
CorrectedStaysOut ==
  /\ \A link \in service.superseded_by \cup service.contradicted_by :
       \A reader \in Reader :
         link[1] \notin RetrieveMemory(reader, "GraphTemporal", 1, FALSE)
  /\ \A m \in Known :
       LET r == service.memories[m]
       IN  /\ \A old \in r.supersedes : <<old, m>> \in service.superseded_by
           /\ \A old \in r.contradicts : <<old, m>> \in service.contradicted_by
           /\ r.from \cup r.supersedes \cup r.contradicts \subseteq Known
           /\ \A old \in r.from : ~CurrentTruth(service.memories[old])
=============================================================================
