------------------------------- MODULE FileWal -------------------------------
(***************************************************************************)
(* FileEventLog of crates/rg-storage: the single-file write-ahead log that *)
(* rg-api appends every accepted event to, between the in-memory log that  *)
(* numbers the events and the disk.  One append is four system calls with  *)
(* a crash possible before each of them: read the file for the next        *)
(* sequence number, write the record, write the newline, and fsync when    *)
(* the policy says so.                                                     *)
(*                                                                         *)
(* Abstractions.  Records, files and their reading are those of            *)
(* WalFile.tla.  The kernel's page cache survives a process crash and not  *)
(* a power loss, which keeps an arbitrary prefix of what was written since *)
(* the last fsync.                                                         *)
(***************************************************************************)
EXTENDS WalFile, FiniteSets, TLC

CONSTANTS
  Write,          \* the writes clients ask for, each asked once
  Policies,       \* fsync policies: 1 EveryWrite, n EveryNWrites(n), 0 Never
  RecoverOnOpen,  \* does the operator run the recovery before each opening
  MaxCrashes      \* bound on crashes of either kind

ASSUME WalAssumption ==
  /\ Policies \subseteq Nat /\ MaxCrashes \in Nat
  /\ RecoverOnOpen \in BOOLEAN
  /\ Torn \notin [seq : Nat, ev : [write : Write, no : Nat]]

VARIABLES
  file,      \* the log file as the running kernel sees it
  synced,    \* how much of it is known to be on disk
  policy,    \* WalOptions::fsync_policy
  mem,       \* the events of the in-memory EventLog
  pc,        \* where the process is in append_with_metadata
  current,   \* the record being appended
  asked,     \* writes already asked for
  acked,     \* events whose append returned Ok
  failed,    \* has an append returned Err after it began to write
  crashes,   \* crashes so far
  losses     \* power losses among them

vars == <<file, synced, policy, mem, pc, current, asked, acked, failed,
          crashes, losses>>

-----------------------------------------------------------------------------
(* Reading and recovering the file. *)

EventsRead(f) == [n \in 1..Len(LinesRead(f)) |-> LinesRead(f)[n][1].ev]

\* recover_wal_path_truncate_to_last_good: the terminated lines up to the
\* first one that does not decode; an unterminated line never counts.
GoodLines(f) ==
  CHOOSE k \in 0..Len(f.lines) :
    /\ \A n \in 1..k : Decodes(f.lines[n], n)
    /\ k < Len(f.lines) => ~Decodes(f.lines[k + 1], k + 1)

\* A slip the properties must notice: the last good line is cut as well.
TruncatedTooFar(f) ==
  [lines |-> SubSeq(f.lines, 1, GoodLines(f) - 1), tail |-> <<>>]

Truncated(f) == [lines |-> SubSeq(f.lines, 1, GoodLines(f)), tail |-> <<>>]

GoodEvents(f) == {f.lines[n][1].ev : n \in 1..GoodLines(f)}

AllOf(f) == [lines |-> Len(f.lines), tail |-> Len(f.tail)]

-----------------------------------------------------------------------------
NoRecord == [seq |-> 0, ev |-> [write |-> Torn, no |-> 0]]

Init ==
  /\ file = EmptyFile
  /\ synced = AllOf(EmptyFile)
  /\ policy \in Policies
  /\ mem = <<>>
  /\ pc = "idle"
  /\ current = NoRecord
  /\ asked = {}
  /\ acked = {}
  /\ failed = FALSE
  /\ crashes = 0
  /\ losses = 0

(***************************************************************************)
(* append_with_metadata.  The event is the next one of the in-memory log,  *)
(* the sequence number the next one of the file; an unreadable file makes  *)
(* the append fail before it writes.                                       *)
(***************************************************************************)
NextRecord(w) ==
  [seq |-> Len(RecordsRead(file)) + 1,
   ev  |-> [write |-> w, no |-> Len(mem) + 1]]

BeginAppend(w) ==
  /\ pc = "idle" /\ w \notin asked
  /\ Readable(file, 1)
  /\ current' = NextRecord(w)
  /\ asked' = asked \cup {w}
  /\ pc' = "record"
  /\ UNCHANGED <<file, synced, policy, mem, acked, failed, crashes, losses>>

WriteRecord ==
  /\ pc = "record"
  /\ file' = WriteToken(file, current)
  /\ pc' = "newline"
  /\ UNCHANGED <<synced, policy, mem, current, asked, acked, failed, crashes, losses>>

\* A slip the properties must notice: no fsync.
WriteNewlineOnly ==
  /\ pc = "newline"
  /\ file' = EndLine(file)
  /\ pc' = "done"
  /\ UNCHANGED <<synced, policy, mem, current, asked, acked, failed, crashes, losses>>

\* A slip the properties must notice: one fsync in n + 1 writes.
WriteNewlineLateSync ==
  /\ pc = "newline"
  /\ file' = EndLine(file)
  /\ pc' = IF policy > 0 /\ current.seq % (policy + 1) = 0 THEN "sync" ELSE "done"
  /\ UNCHANGED <<synced, policy, mem, current, asked, acked, failed, crashes, losses>>

WriteNewline ==
  /\ pc = "newline"
  /\ file' = EndLine(file)
  /\ pc' = IF policy > 0 /\ current.seq % policy = 0 THEN "sync" ELSE "done"
  /\ UNCHANGED <<synced, policy, mem, current, asked, acked, failed, crashes, losses>>

\* A slip the properties must notice: a flush that reaches the page cache only.
SyncNothing ==
  /\ pc = "sync"
  /\ pc' = "done"
  /\ UNCHANGED <<file, synced, policy, mem, current, asked, acked, failed,
                 crashes, losses>>

Sync ==
  /\ pc = "sync"
  /\ synced' = AllOf(file)
  /\ pc' = "done"
  /\ UNCHANGED <<file, policy, mem, current, asked, acked, failed, crashes, losses>>

(***************************************************************************)
(* The append returned Ok: the caller publishes the event and answers.     *)
(***************************************************************************)
\* A slip the properties must notice: the in-memory log is not replaced by the candidate.
AcknowledgeUnpublished ==
  /\ pc = "done"
  /\ acked' = acked \cup {current.ev}
  /\ current' = NoRecord
  /\ pc' = "idle"
  /\ UNCHANGED <<file, synced, policy, mem, asked, failed, crashes, losses>>

Acknowledge ==
  /\ pc = "done"
  /\ mem' = Append(mem, current.ev)
  /\ acked' = acked \cup {current.ev}
  /\ current' = NoRecord
  /\ pc' = "idle"
  /\ UNCHANGED <<file, synced, policy, asked, failed, crashes, losses>>

(***************************************************************************)
(* An I/O error returns Err from wherever it strikes, and the process goes *)
(* on with the in-memory log unchanged.                                    *)
(***************************************************************************)
AppendFails ==
  /\ pc \in {"record", "newline", "sync"}
  /\ file' \in {file} \cup
       (IF pc = "record" THEN {WriteToken(file, Torn)} ELSE {})
  /\ current' = NoRecord
  /\ failed' = TRUE
  /\ pc' = "idle"
  /\ UNCHANGED <<synced, policy, mem, asked, acked, crashes, losses>>

Down ==
  /\ crashes < MaxCrashes
  /\ pc # "down"
  /\ pc' = "down"
  /\ mem' = <<>>
  /\ current' = NoRecord
  /\ crashes' = crashes + 1
  /\ UNCHANGED <<policy, asked, acked, failed>>

ProcessCrash ==
  /\ Down
  /\ file' \in {file} \cup
       (IF pc = "record" THEN {WriteToken(file, Torn)} ELSE {})
  /\ UNCHANGED <<synced, losses>>

(***************************************************************************)
(* What a power loss may leave of a file: some of its lines, at least the  *)
(* synced ones, and a beginning of the next line, cut between two tokens   *)
(* or inside one.                                                          *)
(***************************************************************************)
Survivors(f, on_disk) ==
  LET Cut(k) == IF k = Len(f.lines) THEN f.tail ELSE f.lines[k + 1]
      Least(k) == IF k = on_disk.lines THEN on_disk.tail ELSE 0
      Kept(k, t) == [lines |-> SubSeq(f.lines, 1, k), tail |-> SubSeq(Cut(k), 1, t)]
      Points == {p \in (on_disk.lines..Len(f.lines)) \X (0..Cardinality(Write)) :
                   p[2] >= Least(p[1]) /\ p[2] <= Len(Cut(p[1]))}
  IN {Kept(p[1], p[2]) : p \in Points}
       \cup {WriteToken(Kept(p[1], p[2]), Torn) :
               p \in {q \in Points : q[2] < Len(Cut(q[1]))}}

PowerLoss ==
  /\ Down
  /\ file' \in Survivors(file, synced)
  /\ synced' = AllOf(file')
  /\ losses' = losses + 1

(***************************************************************************)
(* FileEventLog::open and EventLog::from_events on what it reads, after    *)
(* recover_truncate_to_last_good when the operator runs it.  An unreadable *)
(* file makes the start fail.  The recovery fsyncs what it cuts.           *)
(***************************************************************************)
Open ==
  /\ pc = "down"
  /\ file' = IF RecoverOnOpen THEN Truncated(file) ELSE file
  /\ synced' = IF file' = file THEN synced ELSE AllOf(file')
  /\ Readable(file', 1)
  /\ mem' = EventsRead(file')
  /\ pc' = "idle"
  /\ UNCHANGED <<policy, current, asked, acked, failed, crashes, losses>>

Next ==
  \/ \E w \in Write : BeginAppend(w)
  \/ WriteRecord \/ WriteNewline \/ Sync \/ Acknowledge \/ AppendFails
  \/ ProcessCrash \/ PowerLoss \/ Open

Spec == Init /\ [][Next]_vars

-----------------------------------------------------------------------------
(***************************************************************************)
(* docs/ops/production-readiness-gates.md, Gate 1: "no acknowledged write  *)
(* is lost across process crash, host reboot, or power-failure-equivalent  *)
(* WAL truncation".  Crashes lose nothing under the production policy      *)
(* EveryWrite, and only a power loss does under the others, as long as no  *)
(* append failed halfway: see AckedOnFile for what is left then.           *)
(***************************************************************************)
Durable == policy = 1 \/ losses = 0

AckedSurvive == Durable /\ ~failed => acked \subseteq GoodEvents(file)

(***************************************************************************)
(* Even after a failed append the bytes of an acknowledged record are in   *)
(* the file, though a record that a failed append left unterminated may    *)
(* stand before them on their line and hide them from every reader.        *)
(***************************************************************************)
AckedOnFile ==
  Durable =>
    \A e \in acked : \E n \in 1..GoodLines(file) :
      \E i \in 1..Len(file.lines[n]) : file.lines[n][i].ev = e

(***************************************************************************)
(* Group commit: with EveryNWrites(n) at most n - 1 acknowledged events    *)
(* are at the mercy of a power loss, and n - 1 more for each crash of the  *)
(* process that kept a due fsync from happening.                           *)
(***************************************************************************)
AtRisk ==
  acked \cap {file.lines[n][1].ev : n \in synced.lines + 1 .. GoodLines(file)}

RiskBounded ==
  policy > 0 /\ ~failed => Cardinality(AtRisk) <= (policy - 1) * (crashes + 1)

(***************************************************************************)
(* Between two appends the in-memory log is the log on file, so that an    *)
(* event gets the number, id and transaction time that its position on     *)
(* file says, in this life of the process and in the next.                 *)
(***************************************************************************)
MemoryIsFile ==
  ~failed =>
    /\ pc = "idle" => Readable(file, 1) /\ mem = EventsRead(file)
    /\ \A n \in 1..GoodLines(file) : file.lines[n][1].ev.no = n

(***************************************************************************)
(* "Recovery must not modify any valid record before the corrupt tail"     *)
(* (docs/ops/wal-snapshot-recovery.md), and neither may anything else      *)
(* short of a power loss: a record, once ended by its newline, stays       *)
(* readable at its place.                                                  *)
(***************************************************************************)
GoodRecordsStay ==
  [][losses' = losses =>
       \A n \in 1..GoodLines(file) :
         n <= GoodLines(file') /\ file'.lines[n] = file.lines[n]]_vars

\* What is written is told apart by identity alone.
Symmetry == Permutations(Write)
=============================================================================
