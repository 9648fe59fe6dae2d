--------------------------- MODULE SnapshotFiles ---------------------------
(***************************************************************************)
(* Snapshots and backups of the storage (rg-storage): one file each, a     *)
(* header, a manifest and the events, one line each.  The snapshot is      *)
(* written beside its place and renamed, the backup in place.  A file is   *)
(* the sequence of its lines; what a crash cut short is a line Torn, and a *)
(* manifest cut between two of its fields is one without the later ones.   *)
(***************************************************************************)
EXTENDS Naturals, Sequences, FiniteSets, SequencesExt

CONSTANTS
  Event,
  MaxEvents, MaxCrashes   \* bounds of the exploration

VARIABLES
  events,      \* of the storage, which are numbered from one
  files,       \* lines of each file there is: "snapshot", "tmp", "backup"
  job,         \* the lines still to write, and the file, or none
  published,   \* events of the storage at the last completed snapshot, or none
  backed_up,   \* events of each storage a backup was begun of
  crashes

snapshotVars == <<events, files, job, published, backed_up, crashes>>

File == {"snapshot", "tmp", "backup"}
NoJob == [to |-> "none", lines |-> <<>>, of |-> <<>>]

(***************************************************************************)
(* A manifest counts the events and sums them up; both sums, of the events *)
(* and of the state they replay to, are determined by the events.          *)
(***************************************************************************)
FromStorage(evs) ==
  [line |-> "manifest", count |-> Len(evs), last |-> {Last(evs) : i \in DOMAIN evs},
   event_checksum |-> {evs}, graph_state_hash |-> {evs}]

Header(version) == [line |-> "header", version |-> version]
Record(i, e) == [line |-> "record", sequence |-> i, event |-> e]
Torn == [line |-> "torn"]

Lines(version, evs) ==
  <<Header(version)>> \o (IF version = "SNAPSHOT-V1" THEN <<>> ELSE <<FromStorage(evs)>>)
    \o [i \in DOMAIN evs |-> Record(i, evs[i])]

\* What a crash can leave of the line that is being written.
Remains(line) ==
  {<<>>, <<Torn>>, <<line>>} \cup
    IF line.line # "manifest" THEN {}
    ELSE {<<[line EXCEPT !.graph_state_hash = {}]>>,
          <<[line EXCEPT !.graph_state_hash = {}, !.event_checksum = {}]>>}

\* A slip the properties must notice: the manifest is read and not compared.
MatchesAny(actual, expected) == actual.line = expected.line

Matches(actual, expected) ==
  /\ actual.count = expected.count /\ actual.last = expected.last
  /\ expected.event_checksum \in {{}, actual.event_checksum}
  /\ expected.graph_state_hash \in {{}, actual.graph_state_hash}

(***************************************************************************)
(* Reading: refused, the empty set, or the events that are restored.       *)
(***************************************************************************)
EventsIn(lines) ==
  IF \A i \in DOMAIN lines : lines[i].line = "record" /\ lines[i].sequence = i
  THEN {[i \in DOMAIN lines |-> lines[i].event]} ELSE {}

ReadCurrent(lines) ==
  IF Len(lines) < 2 \/ lines[2].line # "manifest" THEN {}
  ELSE {evs \in EventsIn(SubSeq(lines, 3, Len(lines))) : Matches(FromStorage(evs), lines[2])}

Restore(name) ==
  IF name \notin DOMAIN files THEN {}
  ELSE LET lines == files[name]
           header == {h.version : h \in {l \in ToSet(lines) : l.line = "header"}}
       IN  CASE name = "snapshot" /\ header = {"SNAPSHOT-V1"} -> EventsIn(Tail(lines))
             [] name = "snapshot" /\ header = {"SNAPSHOT-V2"} -> ReadCurrent(lines)
             [] name = "backup" /\ header = {"BACKUP-V1"} -> ReadCurrent(lines)
             [] OTHER -> {}

-----------------------------------------------------------------------------
AppendEvent(e) ==
  /\ Len(events) < MaxEvents
  /\ events' = Append(events, e)
  /\ UNCHANGED <<files, job, published, backed_up, crashes>>

Put(name, lines) == [n \in DOMAIN files \cup {name} |-> IF n = name THEN lines ELSE files[n]]

\* A slip the properties must notice: the snapshot is written in its place.
WriteInPlace ==
  /\ job = NoJob
  /\ files' = Put("snapshot", <<>>)
  /\ job' = [to |-> "snapshot", lines |-> Lines("SNAPSHOT-V2", events), of |-> events]
  /\ UNCHANGED <<events, published, backed_up, crashes>>

WriteAtomic ==
  /\ job = NoJob
  /\ files' = Put("tmp", <<>>)
  /\ job' = [to |-> "tmp", lines |-> Lines("SNAPSHOT-V2", events), of |-> events]
  /\ UNCHANGED <<events, published, backed_up, crashes>>

BackupWrite ==
  /\ job = NoJob
  /\ files' = Put("backup", <<>>)
  /\ job' = [to |-> "backup", lines |-> Lines("BACKUP-V1", events), of |-> events]
  /\ backed_up' = backed_up \cup {events}
  /\ UNCHANGED <<events, published, crashes>>

WriteLine ==
  /\ job.lines # <<>>
  /\ files' = Put(job.to, Append(files[job.to], Head(job.lines)))
  /\ job' = [job EXCEPT !.lines = Tail(@)]
  /\ UNCHANGED <<events, published, backed_up, crashes>>

Rename ==   \* after the file is synced
  /\ job.to = "tmp" /\ job.lines = <<>>
  /\ files' = [n \in (DOMAIN files \cup {"snapshot"}) \ {"tmp"} |->
                 IF n = "snapshot" THEN files["tmp"] ELSE files[n]]
  /\ published' = {job.of}
  /\ job' = NoJob
  /\ UNCHANGED <<events, backed_up, crashes>>

SyncBackup ==
  /\ job.to \in {"backup", "snapshot"} /\ job.lines = <<>>
  /\ job' = NoJob
  /\ UNCHANGED <<events, files, published, backed_up, crashes>>

\* What is not synced survives up to some point; the storage is rebuilt from its log.
Crash ==
  /\ crashes < MaxCrashes /\ job # NoJob
  /\ crashes' = crashes + 1
  /\ LET all == files[job.to] \o job.lines
     IN  \E n \in 0..Len(files[job.to]) :
           \E rest \in IF n < Len(all) THEN Remains(all[n + 1]) ELSE {<<>>} :
             files' = Put(job.to, SubSeq(all, 1, n) \o rest)
  /\ job' = NoJob
  /\ UNCHANGED <<events, published, backed_up>>

SnapshotInit ==
  /\ \/ events = <<>> /\ files = [n \in {} |-> <<>>] /\ published = {}
     \/ \E e \in Event :   \* a snapshot of an earlier version, without a manifest
          /\ events = <<e>> /\ published = {<<e>>}
          /\ files = [n \in {"snapshot"} |-> Lines("SNAPSHOT-V1", <<e>>)]
  /\ job = NoJob /\ backed_up = {} /\ crashes = 0

SnapshotNext ==
  \/ \E e \in Event : AppendEvent(e)
  \/ WriteAtomic \/ BackupWrite \/ WriteLine \/ Rename \/ SyncBackup \/ Crash

(***************************************************************************)
(* A snapshot, once published, is never lost, whatever crashes while a new *)
(* one is written: its place holds exactly the storage it was taken of.  A *)
(* backup that a crash cut short is refused, never restored in part        *)
(* (write_atomic, SnapshotReader::read, BackupWriter, BackupReader).       *)
(***************************************************************************)
SnapshotsRestoreWhole ==
  /\ Restore("snapshot") = published
  /\ Restore("backup") \subseteq backed_up
  /\ job = NoJob /\ crashes = 0 /\ "backup" \in DOMAIN files => Restore("backup") # {}
=============================================================================
