---------------------------- MODULE SegmentedWal ----------------------------
(***************************************************************************)
(* SegmentedWal of crates/rg-storage: the log cut into segment files, each *)
(* with a manifest republished by a rename after every append, compaction  *)
(* that archives the segments a snapshot covers, the recovery that moves a *)
(* segment whose manifest and records disagree into quarantine, and the    *)
(* restore from a snapshot and the tail of the log.                        *)
(*                                                                         *)
(* Abstractions.  Files and records are those of WalFile.tla.  A manifest  *)
(* is the sequence of records it was computed from: its first and last     *)
(* sequence number, count and checksum agree with a file exactly when the  *)
(* records do.  Its temporary file is never read and is left out.  Only    *)
(* the process crashes: what was written stays, so that fsync plays no     *)
(* part (FileWal.tla models it).  Archive and quarantine directories are   *)
(* configured.                                                             *)
(***************************************************************************)
EXTENDS WalFile, FiniteSets, TLC

CONSTANTS
  Write,          \* the events appended, each once
  MaxSegment,     \* max_segment_events
  KeepNewest,     \* does the operator never archive up to the last sequence
  MaxCrashes      \* bound on crashes

ASSUME SegmentAssumption ==
  /\ MaxSegment \in Nat \ {0} /\ MaxCrashes \in Nat /\ KeepNewest \in BOOLEAN
  /\ Torn \notin [seq : Nat, ev : Write]

VARIABLES
  live,      \* the log directory: segment files and manifests by segment id
  arch,      \* the archive directory
  quar,      \* the quarantine directory
  snapshot,  \* the events of the last published snapshot
  mem,       \* the events of the storage the log is written for
  pc,        \* where the process is in an append or an archive job
  current,   \* the record being appended
  target,    \* the segment id it goes to
  todo,      \* segment ids the archive job has left
  asked,     \* writes already asked for
  acked,     \* writes whose append returned Ok
  failed,    \* has an append returned Err after it began to write
  crashes,   \* crashes so far
  moved      \* segments quarantined so far

dirVars == <<live, arch, quar>>
jobVars == <<pc, current, target, todo>>
ghosts  == <<asked, acked, failed, crashes, moved>>
vars == <<dirVars, jobVars, snapshot, mem, ghosts>>

-----------------------------------------------------------------------------
(* Directories. *)

Put(f, k, v) == [x \in DOMAIN f \cup {k} |-> IF x = k THEN v ELSE f[x]]
Remove(f, K) == [x \in DOMAIN f \ K |-> f[x]]
Overlay(f, g) == [x \in DOMAIN f \cup DOMAIN g |-> IF x \in DOMAIN g THEN g[x] ELSE f[x]]
Only(f, K) == [x \in DOMAIN f \cap K |-> f[x]]

NoFiles == [x \in {} |-> x]
EmptyDir == [wal |-> NoFiles, man |-> NoFiles]

\* The segment files W and the manifests M taken out of a directory, and put
\* into another, where they replace files of the same name.
Without(d, W, M) == [wal |-> Remove(d.wal, W), man |-> Remove(d.man, M)]
MovedInto(d, from, W, M) ==
  [wal |-> Overlay(d.wal, Only(from.wal, W)), man |-> Overlay(d.man, Only(from.man, M))]

Segments(d) == DOMAIN d.wal

\* manifests(): fails when a segment file has no manifest.
AllManifested(d) == Segments(d) \subseteq DOMAIN d.man

MaxOf(S) == CHOOSE x \in S : \A y \in S : y <= x
MinOf(S) == CHOOSE x \in S : \A y \in S : x <= y

FirstSeq(m) == m[1].seq
LastSeq(m)  == m[Len(m)].seq

LastSequence(d) == IF Segments(d) = {} THEN 0 ELSE LastSeq(d.man[MaxOf(Segments(d))])

ActiveSegment(d) ==
  IF Segments(d) = {} THEN 1
  ELSE LET last == MaxOf(Segments(d)) IN
       IF Len(d.man[last]) >= MaxSegment THEN last + 1 ELSE last

\* read_segment_records_with_manifest
SegmentAgrees(d, id) ==
  /\ id \in DOMAIN d.man
  /\ Readable(d.wal[id], FirstSeq(d.man[id]))
  /\ RecordsRead(d.wal[id]) = d.man[id]

Before(d, id) == {k \in Segments(d) : k < id}

\* read_records(): every segment agrees with its manifest, and every segment
\* but the first starts where the one before it ends.
ReadOk(d) ==
  /\ \A id \in Segments(d) : SegmentAgrees(d, id)
  /\ \A id \in Segments(d) : Before(d, id) # {} =>
       FirstSeq(d.man[id]) = LastSeq(d.man[MaxOf(Before(d, id))]) + 1

RecordsOf(d) == UNION {{d.man[id][i] : i \in 1..Len(d.man[id])} : id \in Segments(d)}

\* read_tail_after(boundary), when read_records() succeeds: the sequence
\* numbers of the records are consecutive.

\* A slip the properties must notice: the record at the boundary is read again.
TailFrom(d, boundary) ==
  LET tail == {r \in RecordsOf(d) : r.seq >= boundary}
      start == IF tail = {} THEN 0 ELSE MinOf({r.seq : r \in tail})
  IN [i \in 1..Cardinality(tail) |->
        (CHOOSE r \in tail : r.seq = start + i - 1).ev]

TailAfter(d, boundary) ==
  LET tail == {r \in RecordsOf(d) : r.seq > boundary}
      start == IF tail = {} THEN 0 ELSE MinOf({r.seq : r \in tail})
  IN [i \in 1..Cardinality(tail) |->
        (CHOOSE r \in tail : r.seq = start + i - 1).ev]

\* restore_snapshot_and_tail: the boundary is the number of its events.
Restored == snapshot \o TailAfter(live, Len(snapshot))

-----------------------------------------------------------------------------
NoRecord == [seq |-> 0, ev |-> Torn]

Init ==
  /\ live = EmptyDir /\ arch = EmptyDir /\ quar = EmptyDir
  /\ snapshot = <<>> /\ mem = <<>>
  /\ pc = "idle" /\ current = NoRecord /\ target = 0 /\ todo = {}
  /\ asked = {} /\ acked = {} /\ failed = FALSE
  /\ crashes = 0 /\ moved = 0

(***************************************************************************)
(* append_with_metadata.                                                   *)
(***************************************************************************)
BeginAppend(w) ==
  /\ pc = "idle" /\ w \notin asked
  /\ AllManifested(live)
  /\ current' = [seq |-> LastSequence(live) + 1, ev |-> w]
  /\ target' = ActiveSegment(live)
  /\ asked' = asked \cup {w}
  /\ pc' = "record"
  /\ UNCHANGED <<dirVars, todo, snapshot, mem, acked, failed, crashes, moved>>

FileAt(id) == IF id \in Segments(live) THEN live.wal[id] ELSE EmptyFile

\* A slip the properties must notice: the manifest counts a record still in a buffer.
WriteRecordBuffered ==
  /\ pc = "record"
  /\ live' = [wal |-> Put(live.wal, target, FileAt(target)),
              man |-> Put(live.man, target,
                          Append(IF target \in DOMAIN live.man
                                 THEN live.man[target] ELSE <<>>, current))]
  /\ pc' = "done"
  /\ UNCHANGED <<arch, quar, current, target, todo, snapshot, mem, ghosts>>

WriteRecord ==
  /\ pc = "record"
  /\ live' = [live EXCEPT !.wal = Put(@, target, WriteToken(FileAt(target), current))]
  /\ pc' = "newline"
  /\ UNCHANGED <<arch, quar, current, target, todo, snapshot, mem, ghosts>>

WriteNewline ==
  /\ pc = "newline"
  /\ live' = [live EXCEPT !.wal = Put(@, target, EndLine(FileAt(target)))]
  /\ pc' = "manifest"
  /\ UNCHANGED <<arch, quar, current, target, todo, snapshot, mem, ghosts>>

(***************************************************************************)
(* rewrite_segment_manifest: the first sequence number comes from the old  *)
(* manifest, or else from the segment before it, or else is 1.  When the   *)
(* segment does not read from there the append returns Err.                *)
(***************************************************************************)
ManifestStart ==
  LET earlier == {k \in Before(live, target) : k \in DOMAIN live.man} IN
  IF target \in DOMAIN live.man THEN FirstSeq(live.man[target])
  ELSE IF earlier # {} THEN LastSeq(live.man[MaxOf(earlier)]) + 1
  ELSE 1

RewriteManifest ==
  /\ pc = "manifest"
  /\ IF Readable(FileAt(target), ManifestStart)
     THEN /\ live' = [live EXCEPT !.man =
                        Put(@, target, RecordsRead(FileAt(target)))]
          /\ pc' = "done"
          /\ UNCHANGED <<current, failed>>
     ELSE /\ pc' = "idle"
          /\ current' = NoRecord
          /\ failed' = TRUE
          /\ UNCHANGED live
  /\ UNCHANGED <<arch, quar, target, todo, snapshot, mem, asked, acked,
                 crashes, moved>>

Acknowledge ==
  /\ pc = "done"
  /\ mem' = Append(mem, current.ev)
  /\ acked' = acked \cup {current.ev}
  /\ current' = NoRecord
  /\ pc' = "idle"
  /\ UNCHANGED <<dirVars, target, todo, snapshot, asked, failed, crashes, moved>>

\* What an interrupted write of the record leaves: nothing, the file just
\* created, or a part of the record.
Interrupted ==
  IF pc # "record" THEN {live}
  ELSE {live} \cup
       {[live EXCEPT !.wal = Put(@, target, f)] :
          f \in {FileAt(target), WriteToken(FileAt(target), Torn)}}

AppendFails ==
  /\ pc \in {"record", "newline", "manifest"}
  /\ live' \in Interrupted
  /\ failed' = TRUE
  /\ current' = NoRecord
  /\ pc' = "idle"
  /\ UNCHANGED <<arch, quar, target, todo, snapshot, mem, asked, acked, crashes, moved>>

(***************************************************************************)
(* SnapshotWriter::write_atomic of the storage, between appends.           *)
(***************************************************************************)
TakeSnapshot ==
  /\ pc = "idle" /\ snapshot # mem
  /\ snapshot' = mem
  /\ UNCHANGED <<dirVars, jobVars, mem, ghosts>>

(***************************************************************************)
(* archive_compacted_segments(up_to): the manifests are read once, then    *)
(* each covered segment is moved by two renames.                           *)
(***************************************************************************)
\* A slip the properties must notice: the newest segment is archived as well.
BeginArchiveAll ==
  /\ pc = "idle"
  /\ AllManifested(live)
  /\ \E upTo \in 1..Len(snapshot) :
       todo' = {id \in Segments(live) : LastSeq(live.man[id]) <= upTo}
  /\ todo' # {}
  /\ pc' = "archive_wal"
  /\ UNCHANGED <<dirVars, current, target, snapshot, mem, ghosts>>

BeginArchive ==
  /\ pc = "idle"
  /\ AllManifested(live)
  /\ \E upTo \in 1..Len(snapshot) :
       /\ KeepNewest => upTo < LastSequence(live)
       /\ todo' = {id \in Segments(live) : LastSeq(live.man[id]) <= upTo}
  /\ todo' # {}
  /\ pc' = "archive_wal"
  /\ UNCHANGED <<dirVars, current, target, snapshot, mem, ghosts>>

\* A slip the properties must notice: the newest covered segment goes first.
ArchiveNewestWal ==
  /\ pc = "archive_wal"
  /\ LET id == MaxOf(todo) IN
     /\ arch' = [arch EXCEPT !.wal = Put(@, id, live.wal[id])]
     /\ live' = [live EXCEPT !.wal = Remove(@, {id})]
  /\ pc' = "archive_manifest"
  /\ UNCHANGED <<quar, current, target, todo, snapshot, mem, ghosts>>

ArchiveWal ==
  /\ pc = "archive_wal"
  /\ LET id == MinOf(todo) IN
     /\ arch' = [arch EXCEPT !.wal = Put(@, id, live.wal[id])]
     /\ live' = [live EXCEPT !.wal = Remove(@, {id})]
  /\ pc' = "archive_manifest"
  /\ UNCHANGED <<quar, current, target, todo, snapshot, mem, ghosts>>

ArchiveManifest ==
  /\ pc = "archive_manifest"
  /\ LET id == MinOf(todo) IN
     /\ arch' = [arch EXCEPT !.man = Put(@, id, live.man[id])]
     /\ live' = [live EXCEPT !.man = Remove(@, {id})]
     /\ todo' = todo \ {id}
  /\ pc' = IF todo' = {} THEN "idle" ELSE "archive_wal"
  /\ UNCHANGED <<quar, current, target, snapshot, mem, ghosts>>

(***************************************************************************)
(* A crash of the process, and what can follow it: a start that restores   *)
(* the storage, which fails on an unreadable log; or the recovery.         *)
(***************************************************************************)
Crash ==
  /\ crashes < MaxCrashes /\ pc # "down"
  /\ live' \in Interrupted
  /\ pc' = "down" /\ mem' = <<>> /\ current' = NoRecord /\ todo' = {}
  /\ crashes' = crashes + 1
  /\ UNCHANGED <<arch, quar, target, snapshot, asked, acked, failed, moved>>

Corrupt == {id \in Segments(live) : ~SegmentAgrees(live, id)}

\* A slip the properties must notice: corrupt segments are deleted.
QuarantineDeleting(W, M) ==
  /\ live' = Without(live, W, M)
  /\ moved' = moved + Cardinality(W)
  /\ UNCHANGED quar

Quarantine(W, M) ==
  /\ live' = Without(live, W, M)
  /\ quar' = MovedInto(quar, live, W, M)
  /\ moved' = moved + Cardinality(W)

(***************************************************************************)
(* recover_quarantine_corrupt_segments goes through the segments in order  *)
(* and moves the segment file and then the manifest of each corrupt one;   *)
(* it can itself be cut short between any two of these renames.            *)
(***************************************************************************)
Recover ==
  /\ pc = "down" /\ Corrupt # {}
  /\ Quarantine(Corrupt, Corrupt)
  /\ UNCHANGED <<arch, jobVars, snapshot, mem, asked, acked, failed, crashes>>

RecoveryCrashes ==
  /\ pc = "down" /\ crashes < MaxCrashes
  /\ \E last \in Corrupt :
       LET W == {id \in Corrupt : id <= last} IN
       \E M \in {W, W \ {last}} : Quarantine(W, M)
  /\ crashes' = crashes + 1
  /\ UNCHANGED <<arch, jobVars, snapshot, mem, asked, acked, failed>>

Open ==
  /\ pc = "down" /\ ReadOk(live)
  /\ mem' = Restored
  /\ pc' = "idle"
  /\ UNCHANGED <<dirVars, current, target, todo, snapshot, ghosts>>

Next ==
  \/ \E w \in Write : BeginAppend(w)
  \/ WriteRecord \/ WriteNewline \/ RewriteManifest \/ Acknowledge \/ AppendFails
  \/ TakeSnapshot \/ BeginArchive \/ ArchiveWal \/ ArchiveManifest
  \/ Crash \/ Recover \/ RecoveryCrashes \/ Open

Spec == Init /\ [][Next]_vars

-----------------------------------------------------------------------------
(***************************************************************************)
(* docs/ops/wal-snapshot-recovery.md, Restore Contract: "snapshot WAL LSN  *)
(* boundary plus segmented WAL tail reaches the same state as full         *)
(* replay".  Between two operations a restore would give back exactly the  *)
(* events of the storage, whatever was snapshotted and archived, as long   *)
(* as no append failed halfway and nothing had to be quarantined.          *)
(***************************************************************************)
RestoreIsExact ==
  pc \in {"idle", "archive_wal", "archive_manifest"} /\ ~failed /\ moved = 0
    => ReadOk(live) /\ Restored = mem

(***************************************************************************)
(* The numbers of the live log run on without a gap, and no two records    *)
(* share one, at any moment of an append, an archive job or a recovery,    *)
(* whatever crashes and failures came before, until a second segment is    *)
(* quarantined: the readers' check for gaps never refuses a log that this  *)
(* process itself wrote.  (The numbering restarts when no segment is left, *)
(* and manifests that archive jobs left behind then number new segments    *)
(* wrongly; a gap takes two quarantines.)                                  *)
(***************************************************************************)
ReadIsContiguous ==
  moved <= 1 /\ AllManifested(live) =>
    LET seqs == {r.seq : r \in RecordsOf(live)} IN
    /\ Cardinality(seqs) = Cardinality(RecordsOf(live))
    /\ seqs # {} => seqs = MinOf(seqs)..MaxOf(seqs)

(***************************************************************************)
(* The manifest never runs ahead of its segment: what it lists are the     *)
(* first records on file.  (A manifest that an interrupted archive job     *)
(* left behind can come to stand beside a new segment of the same id, once *)
(* all later segments were quarantined.)                                   *)
(***************************************************************************)
ManifestIsPrefix ==
  moved = 0 => \A id \in Segments(live) \cap DOMAIN live.man :
    /\ Len(live.man[id]) <= Len(LinesRead(live.wal[id]))
    /\ \A i \in 1..Len(live.man[id]) : live.man[id][i] = LinesRead(live.wal[id])[i][1]

(***************************************************************************)
(* No step loses an event: what the log, the archive or the quarantine     *)
(* holds stays in one of them, and an event acknowledged is among it.      *)
(* This holds up to and through the first recovery, and after that as long *)
(* as no live segment has the number of one archived or quarantined before *)
(* (numbering restarts once all segments are quarantined), which the       *)
(* renames would replace.                                                  *)
(***************************************************************************)
EventsIn(d) ==
  UNION {UNION {{d.wal[id].lines[n][i] : i \in 1..Len(d.wal[id].lines[n])} :
                   n \in 1..Len(d.wal[id].lines)} : id \in Segments(d)}

Kept == {t \in EventsIn(live) \cup EventsIn(arch) \cup EventsIn(quar) : t # Torn}

NumbersUnused == Segments(live) \cap (Segments(arch) \cup Segments(quar)) = {}

NothingDestroyed ==
  [][moved = 0 \/ NumbersUnused =>
       /\ Kept \subseteq Kept'
       /\ acked' \ acked \subseteq {t.ev : t \in Kept'}]_vars

(***************************************************************************)
(* docs/adr/0006-event-log-compaction.md: compaction is "additive, not     *)
(* destructive".  A segment once archived is never replaced.               *)
(***************************************************************************)
ArchiveIsFinal ==
  [][moved = 0 =>
      \A id \in Segments(arch) : id \in Segments(arch') /\ arch'.wal[id] = arch.wal[id]]_vars

\* What is written is told apart by identity alone.
Symmetry == Permutations(Write)
=============================================================================
