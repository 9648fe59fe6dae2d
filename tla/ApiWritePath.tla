---------------------------- MODULE ApiWritePath ----------------------------
(***************************************************************************)
(* The write path of one rg-api process: request threads that run          *)
(* ApiState::execute against the in-memory event log, the durable log, the *)
(* serving storage and the idempotency records, each behind a mutex of its *)
(* own, with a crash possible between any two steps.                       *)
(*                                                                         *)
(* Abstractions.  The state and the commands are those of GraphEvents.tla. *)
(* last_tx and next_sequence are the time of the last event and one more   *)
(* than the number of events, as EventLog.tla shows.  The durable log is   *)
(* the sequence of its records: FileWal.tla models its bytes, so that here *)
(* a failed append leaves either nothing or the whole record.  The         *)
(* idempotency file is a file of WalFile.tla; its reader wants one whole   *)
(* record on each line that is not empty.  Only the process crashes: what  *)
(* was written stays.  Authentication, limits and metrics are left out.    *)
(***************************************************************************)
EXTENDS GraphEvents, WalFile, FiniteSetsExt

CONSTANTS
  Client,        \* request threads
  Requests,      \* the commands they send
  Key, NoKey,    \* values of the Idempotency-Key header, and its absence
  Nobody,        \* no thread: the event log lock is free
  WriteErrors,   \* do writes to the two files ever return an error
  MaxRequests,   \* bound on the requests sent
  MaxCrashes     \* bound on crashes

ASSUME ApiAssumption ==
  /\ Requests \subseteq Command
  /\ NoKey \notin Key /\ Nobody \notin Client
  /\ WriteErrors \in BOOLEAN
  /\ MaxRequests \in Nat /\ MaxCrashes \in Nat

VARIABLES
  wal,          \* durable_log: records of an event and the key it came with
  keyFile,      \* the file at idempotency_path
  up,           \* is the process running
  log,          \* ApiState::log: events and graph state
  storage,      \* ApiState::storage: events and graph state
  idempotency,  \* ApiState::idempotency: key -> fingerprint and event
  holder,       \* the thread that holds the lock of the event log
  pc,           \* where each thread is in execute
  req,          \* the command and key of its request
  event,        \* the event its request made, or found
  answered,     \* the keys and events of requests answered Ok
  late,         \* had the key of its request been answered before it came
  failed,       \* has a durable append returned Err after it had written
  sent,         \* requests sent so far
  crashes       \* crashes so far

disk    == <<wal, keyFile>>
memory  == <<up, log, storage, idempotency>>
threads == <<holder, pc, req, event, late>>
ghosts  == <<answered, failed, sent, crashes>>
vars == <<disk, memory, threads, ghosts>>

-----------------------------------------------------------------------------
EmptyLog == [events |-> <<>>, graph |-> EmptyGraph]

NoRequest == [cmd |-> NoKey, key |-> NoKey]

Before(evs) == IF evs = <<>> THEN 0 ELSE evs[Len(evs)].tx

NextEvent(l, c) == EventOf(c, Len(l.events) + 1, Before(l.events) + 1)

Applied(l, e) ==
  [events |-> Append(l.events, e), graph |-> ApplyEvent(l.graph, e)]

WalEvents == [i \in 1..Len(wal) |-> wal[i].ev]

Loaded(evs) == [events |-> evs, graph |-> Replay(evs).graph]

(***************************************************************************)
(* read_idempotency_records: the events are collected by id, the records   *)
(* by key, and the later one wins in both.                                 *)
(***************************************************************************)
KeyLine(n) == LinesRead(keyFile)[n]
KeyLines == {n \in 1..Len(LinesRead(keyFile)) : KeyLine(n) # <<>>}

\* A slip the properties must notice: the first event of an id wins.
FirstEventById(evs, id) ==
  LET is == {i \in 1..Len(evs) : evs[i].seq = id} IN evs[Min(is)]

EventById(evs, id) ==
  LET is == {i \in 1..Len(evs) : evs[i].seq = id} IN evs[Max(is)]

KeysReadable ==
  \A n \in KeyLines :
    /\ Len(KeyLine(n)) = 1 /\ KeyLine(n)[1] # Torn
    /\ \E i \in 1..Len(wal) : wal[i].ev.seq = KeyLine(n)[1].id

KeyTable(evs) ==
  [k \in {KeyLine(n)[1].key : n \in KeyLines} |->
     LET rec == KeyLine(Max({n \in KeyLines : KeyLine(n)[1].key = k}))[1]
     IN [fingerprint |-> rec.fingerprint, ev |-> EventById(evs, rec.id)]]

-----------------------------------------------------------------------------
Init ==
  /\ wal = <<>> /\ keyFile = EmptyFile
  /\ up = TRUE /\ log = EmptyLog /\ storage = EmptyLog
  /\ idempotency = NoEntries
  /\ holder = Nobody
  /\ pc = [p \in Client |-> "idle"]
  /\ req = [p \in Client |-> NoRequest]
  /\ event = [p \in Client |-> NoKey]
  /\ late = [p \in Client |-> FALSE]
  /\ answered = {} /\ failed = FALSE /\ sent = 0 /\ crashes = 0

Goto(p, step) == pc' = [pc EXCEPT ![p] = step]

\* The thread is done with its request, and forgets it.
Finish(p) ==
  /\ Goto(p, "idle")
  /\ req' = [req EXCEPT ![p] = NoRequest]
  /\ event' = [event EXCEPT ![p] = NoKey]
  /\ late' = [late EXCEPT ![p] = FALSE]

(***************************************************************************)
(* A request arrives; execute looks its key up under the idempotency lock  *)
(* and lets the lock go.                                                   *)
(***************************************************************************)
Arrives(p) ==
  /\ up /\ pc[p] = "idle" /\ sent < MaxRequests
  /\ sent' = sent + 1
  /\ UNCHANGED <<disk, memory, holder, answered, failed, crashes>>

Known(c, k) == k \in DOMAIN idempotency /\ idempotency[k].fingerprint = c

KeyHit(p, c, k) ==
  /\ Arrives(p)
  /\ Known(c, k)
  /\ req' = [req EXCEPT ![p] = [cmd |-> c, key |-> k]]
  /\ event' = [event EXCEPT ![p] = idempotency[k].ev]
  /\ Goto(p, "respond")
  /\ UNCHANGED late

KeyConflict(p, c, k) ==
  /\ Arrives(p)
  /\ k \in DOMAIN idempotency /\ ~Known(c, k)
  /\ UNCHANGED <<pc, req, event, late>>

KeyMiss(p, c, k) ==
  /\ Arrives(p)
  /\ k \notin DOMAIN idempotency
  /\ req' = [req EXCEPT ![p] = [cmd |-> c, key |-> k]]
  /\ late' = [late EXCEPT ![p] = k # NoKey /\ \E a \in answered : a.key = k]
  /\ Goto(p, "lock")
  /\ UNCHANGED event

(***************************************************************************)
(* The event log is locked from here to Publish.  The command is run on a  *)
(* clone of the log, of which only the event is worth remembering: the     *)
(* lock keeps the log as it is.                                            *)
(***************************************************************************)
Accepts(c) == Validates(log.graph, c) /\ Applicable(log.graph, c)

\* A slip the properties must notice: the command runs on the log itself, not on a clone.
ExecuteInPlace(p) ==
  /\ pc[p] = "lock" /\ holder = Nobody
  /\ Accepts(req[p].cmd)
  /\ holder' = p
  /\ event' = [event EXCEPT ![p] = NextEvent(log, req[p].cmd)]
  /\ log' = Applied(log, NextEvent(log, req[p].cmd))
  /\ Goto(p, "durable")
  /\ UNCHANGED <<disk, up, storage, idempotency, req, late, ghosts>>

\* A slip the properties must notice: the candidate is made without the lock.
ExecuteUnlocked(p) ==
  /\ pc[p] = "lock"
  /\ Accepts(req[p].cmd)
  /\ holder' = p
  /\ event' = [event EXCEPT ![p] = NextEvent(log, req[p].cmd)]
  /\ Goto(p, "durable")
  /\ UNCHANGED <<disk, memory, req, late, ghosts>>

\* A slip the properties must notice: the key is recorded before the event.
ExecuteKeyFirst(p) ==
  /\ pc[p] = "lock" /\ holder = Nobody
  /\ Accepts(req[p].cmd)
  /\ holder' = p
  /\ event' = [event EXCEPT ![p] = NextEvent(log, req[p].cmd)]
  /\ Goto(p, IF req[p].key = NoKey THEN "durable" ELSE "key_record")
  /\ UNCHANGED <<disk, memory, req, late, ghosts>>

ExecuteCandidate(p) ==
  /\ pc[p] = "lock" /\ holder = Nobody
  /\ Accepts(req[p].cmd)
  /\ holder' = p
  /\ event' = [event EXCEPT ![p] = NextEvent(log, req[p].cmd)]
  /\ Goto(p, "durable")
  /\ UNCHANGED <<disk, memory, req, late, ghosts>>

\* A slip the properties must notice: a rejected request leaves the lock taken.
RejectLocked(p) ==
  /\ pc[p] = "lock" /\ holder = Nobody
  /\ ~Accepts(req[p].cmd)
  /\ holder' = p
  /\ Finish(p)
  /\ UNCHANGED <<disk, memory, ghosts>>

Reject(p) ==
  /\ pc[p] = "lock" /\ holder = Nobody
  /\ ~Accepts(req[p].cmd)
  /\ Finish(p)
  /\ UNCHANGED <<disk, memory, holder, ghosts>>

AppendDurable(p) ==
  /\ pc[p] = "durable"
  /\ wal' = Append(wal, [ev |-> event[p], key |-> req[p].key])
  /\ Goto(p, "storage")
  /\ UNCHANGED <<keyFile, memory, holder, req, event, late, ghosts>>

\* A slip the properties must notice: the error of the durable append is dropped.
DurableIgnored(p) ==
  /\ WriteErrors /\ pc[p] = "durable"
  /\ Goto(p, "storage")
  /\ UNCHANGED <<disk, memory, holder, req, event, late, ghosts>>

DurableFails(p) ==
  /\ WriteErrors /\ pc[p] = "durable"
  /\ wal' \in {wal, Append(wal, [ev |-> event[p], key |-> req[p].key])}
  /\ failed' = (failed \/ wal' # wal)
  /\ holder' = Nobody
  /\ Finish(p)
  /\ UNCHANGED <<keyFile, memory, answered, sent, crashes>>

\* Readers lock the storage alone: they see the event from here on.
AppendStorage(p) ==
  /\ pc[p] = "storage"
  /\ IF Applicable(storage.graph, event[p].cmd)
     THEN /\ storage' = Applied(storage, event[p])
          /\ Goto(p, "publish")
          /\ UNCHANGED <<holder, req, event, late>>
     ELSE /\ holder' = Nobody
          /\ Finish(p)
          /\ UNCHANGED storage
  /\ UNCHANGED <<disk, up, log, idempotency, ghosts>>

\* A slip the properties must notice: the key is remembered but not written down.
PublishWithoutFile(p) ==
  /\ pc[p] = "publish"
  /\ log' = Applied(log, event[p])
  /\ holder' = Nobody
  /\ Goto(p, IF req[p].key = NoKey THEN "respond" ELSE "key_insert")
  /\ UNCHANGED <<disk, up, storage, idempotency, req, event, late, ghosts>>

Publish(p) ==
  /\ pc[p] = "publish"
  /\ log' = Applied(log, event[p])
  /\ holder' = Nobody
  /\ Goto(p, IF req[p].key = NoKey THEN "respond" ELSE "key_record")
  /\ UNCHANGED <<disk, up, storage, idempotency, req, event, late, ghosts>>

(***************************************************************************)
(* append_idempotency_record: no lock is held, and writeln! is one write   *)
(* for the record and one for the newline.  An error is returned to the    *)
(* client although the event is committed.                                 *)
(***************************************************************************)
KeyRecord(p) ==
  [key |-> req[p].key, fingerprint |-> req[p].cmd, id |-> event[p].seq]

WriteKeyRecord(p) ==
  /\ pc[p] = "key_record"
  /\ keyFile' = WriteToken(keyFile, KeyRecord(p))
  /\ Goto(p, "key_newline")
  /\ UNCHANGED <<wal, memory, holder, req, event, late, ghosts>>

WriteKeyNewline(p) ==
  /\ pc[p] = "key_newline"
  /\ keyFile' = EndLine(keyFile)
  /\ Goto(p, "key_insert")
  /\ UNCHANGED <<wal, memory, holder, req, event, late, ghosts>>

KeyWriteFails(p) ==
  /\ WriteErrors /\ pc[p] \in {"key_record", "key_newline", "key_insert"}
  /\ keyFile' \in {keyFile} \cup
       (IF pc[p] = "key_record" THEN {WriteToken(keyFile, Torn)} ELSE {})
  /\ Finish(p)
  /\ UNCHANGED <<wal, memory, holder, ghosts>>

InsertKey(p) ==
  /\ pc[p] = "key_insert"
  /\ idempotency' = Put(idempotency, req[p].key,
                        [fingerprint |-> req[p].cmd, ev |-> event[p]])
  /\ Goto(p, "respond")
  /\ UNCHANGED <<disk, up, log, storage, holder, req, event, late, ghosts>>

(***************************************************************************)
(* The handler reads the storage and answers.                              *)
(***************************************************************************)
Respond(p) ==
  /\ pc[p] = "respond"
  /\ answered' = answered \cup {[key |-> req[p].key, ev |-> event[p]]}
  /\ Finish(p)
  /\ UNCHANGED <<disk, memory, holder, failed, sent, crashes>>

(***************************************************************************)
(* The process dies with all its threads, and starts again: from_env reads *)
(* the durable log and then the idempotency file, and gives up when either *)
(* cannot be read.                                                         *)
(***************************************************************************)
Crash ==
  /\ up /\ crashes < MaxCrashes
  /\ crashes' = crashes + 1
  /\ keyFile' \in {keyFile} \cup
       (IF \E p \in Client : pc[p] = "key_record"
        THEN {WriteToken(keyFile, Torn)} ELSE {})
  /\ up' = FALSE
  /\ log' = EmptyLog /\ storage' = EmptyLog /\ idempotency' = NoEntries
  /\ holder' = Nobody
  /\ pc' = [p \in Client |-> "idle"]
  /\ req' = [p \in Client |-> NoRequest]
  /\ event' = [p \in Client |-> NoKey]
  /\ late' = [p \in Client |-> FALSE]
  /\ UNCHANGED <<wal, answered, failed, sent>>

Start ==
  /\ ~up
  /\ Replay(WalEvents).ok
  /\ KeysReadable
  /\ up' = TRUE
  /\ log' = Loaded(WalEvents) /\ storage' = Loaded(WalEvents)
  /\ idempotency' = KeyTable(WalEvents)
  /\ UNCHANGED <<disk, threads, ghosts>>

Receive(p) ==
  \E c \in Requests, k \in Key \cup {NoKey} :
    KeyHit(p, c, k) \/ KeyConflict(p, c, k) \/ KeyMiss(p, c, k)

Continue(p) ==
  \/ ExecuteCandidate(p) \/ Reject(p)
  \/ AppendDurable(p) \/ DurableFails(p) \/ AppendStorage(p) \/ Publish(p)
  \/ WriteKeyRecord(p) \/ WriteKeyNewline(p) \/ KeyWriteFails(p) \/ InsertKey(p)
  \/ Respond(p)

Next ==
  \/ \E p \in Client : Receive(p) \/ Continue(p)
  \/ Crash \/ Start

(***************************************************************************)
(* A thread with a request goes on: the runtime schedules it, and a lock   *)
(* that is free again and again is got in the end, since at most           *)
(* MaxRequests others can be served in between.                            *)
(***************************************************************************)
Spec ==
  /\ Init /\ [][Next]_vars
  /\ \A p \in Client : WF_vars(Continue(p))

-----------------------------------------------------------------------------
(***************************************************************************)
(* Nothing is shown or answered before it is durable: every event in the   *)
(* log or the storage of the running process, and every event a client was *)
(* answered with, is in the durable log.                                   *)
(***************************************************************************)
Durable == {wal[i].ev : i \in 1..Len(wal)}
EventsOf(l) == {l.events[i] : i \in 1..Len(l.events)}

VisibleIsDurable ==
  EventsOf(log) \cup EventsOf(storage) \cup {a.ev : a \in answered} \subseteq Durable

(***************************************************************************)
(* The log, the storage and the durable log agree but for the one event    *)
(* that the thread holding the lock is carrying from one to the next.  A   *)
(* durable append that failed after writing breaks this for the durable    *)
(* log: its event stays there and comes back with the next start.          *)
(***************************************************************************)
Carried(steps) ==
  IF holder # Nobody /\ pc[holder] \in steps THEN <<event[holder]>> ELSE <<>>

CopiesAgree ==
  up => /\ storage.events = log.events \o Carried({"publish"})
        /\ storage = log \/ pc[holder] = "publish"
        /\ ~failed => WalEvents = storage.events \o Carried({"storage"})

(***************************************************************************)
(* A client is answered with an event of the very command it sent, which   *)
(* the storage its handler reads next holds ("entity was not materialized" *)
(* never happens), whether the request ran or its key was found, in this   *)
(* life of the process or from the file.                                   *)
(***************************************************************************)
AnswerIsServed ==
  \A p \in Client : pc[p] = "respond" =>
    event[p].cmd = req[p].cmd /\ event[p] \in EventsOf(storage)

(***************************************************************************)
(* "API idempotency records can be persisted beside durable event logs"    *)
(* (docs/ops/production-readiness-status.md): a key that was once answered *)
(* Ok is never executed again, in whatever later life of the process.      *)
(***************************************************************************)
AnsweredKeyNotRerun ==
  \A p \in Client : late[p] => pc[p] \in {"idle", "respond"}

(***************************************************************************)
(* What is on disk at any moment is fit to start from, failed appends      *)
(* included: the durable log replays, and every whole record of the        *)
(* idempotency file names an event of it, made by the command that the     *)
(* record is the fingerprint of.                                           *)
(***************************************************************************)
KeyTokens ==
  (UNION {{LinesRead(keyFile)[n][i] : i \in 1..Len(LinesRead(keyFile)[n])} :
            n \in 1..Len(LinesRead(keyFile))}) \ {Torn}

DiskResolves ==
  /\ Replay(WalEvents).ok
  /\ \A t \in KeyTokens :
       /\ \E i \in 1..Len(wal) : wal[i].ev.seq = t.id
       /\ EventById(WalEvents, t.id).cmd = t.fingerprint

(***************************************************************************)
(* The threads, the locks and the crashes are invisible in the durable     *)
(* log: it grows as one sequential EventLog does that executes one valid   *)
(* command after the other, as long as no append failed after writing.     *)
(***************************************************************************)
Sequential == INSTANCE EventLog WITH
  StartTx <- 0, MaxEvents <- MaxRequests,
  events <- WalEvents, graph <- Replay(WalEvents).graph,
  lastTx <- Before(WalEvents), nextSequence <- Len(wal) + 1

ImplementsEventLog ==
  Sequential!LogInit /\ [][~failed' => Sequential!LogNext]_wal

(***************************************************************************)
(* Every request comes to an end: no thread waits for a lock for ever.     *)
(***************************************************************************)
RequestsEnd == \A p \in Client : pc[p] # "idle" ~> pc[p] = "idle"

(***************************************************************************)
(* crates/rg-api/tests/http_api.rs, the test                               *)
(* durable_api_state_recovers_events_and_idempotency_after_restart: "reload*)
(* idempotency", from the file that the API itself wrote, succeeds.        *)
(***************************************************************************)
Writing == {"key_record", "key_newline"}

KeyFileLoads == (\A p \in Client : pc[p] \notin Writing) => KeysReadable
=============================================================================
