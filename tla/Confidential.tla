---------------------------- MODULE Confidential ----------------------------
(***************************************************************************)
(* The confidential stores: an event log, a source store and a snapshot,   *)
(* each a file of encrypted records, and the rotation of their keys.       *)
(*                                                                         *)
(* A key is an id and its material; a record decrypts when the ring has    *)
(* the material it was encrypted with under the id it names.  A line is    *)
(* the records written on it: the decoder takes the first one and ignores  *)
(* what follows.  What a text says is the number of the call that wrote it.*)
(***************************************************************************)
EXTENDS Naturals, Sequences, FiniteSets, SequencesExt, FiniteSetsExt

CONSTANTS
  Ring,        \* key rings of the callers: an active key id and the keys by id
  SourceId,
  MaxWrites    \* bound of the exploration: calls that write a new text

VARIABLES
  log,       \* header, lines, and how the last append ended
  key_ring,  \* of the open event log
  sources,   \* entries of the source store
  snapshot,  \* a record, or none
  acked,     \* appends that returned, each with whether it began a line
  writes

confidentialVars == <<log, key_ring, sources, snapshot, acked, writes>>

EncryptRecord(ring, sequence, text) ==
  [sequence |-> sequence, key_id |-> ring.active, material |-> ring.keys[ring.active], text |-> text]

CanDecrypt(ring, record) ==
  record.key_id \in DOMAIN ring.keys /\ ring.keys[record.key_id] = record.material

NextSequence(records) == 1 + Max({0} \cup {r.sequence : r \in records})

(***************************************************************************)
(* The event log.  An append writes the record, its newline and syncs; a   *)
(* crash leaves a part of the record, or all of it without the newline.    *)
(***************************************************************************)
Readable == log.header = "whole" /\ ~log.torn
Records == [i \in DOMAIN log.lines |-> Head(log.lines[i])]
DecryptsAll(ring, records) == \A record \in records : CanDecrypt(ring, record)

Open(ring) ==
  /\ log.header \in {"none", "whole"}
  /\ log' = [log EXCEPT !.header = "whole"]
  /\ key_ring' = ring
  /\ UNCHANGED <<sources, snapshot, acked, writes>>

CrashInOpen ==  \* an empty file is initialised again, a torn header is refused
  /\ log.header = "none"
  /\ log' = [log EXCEPT !.header = "torn"]
  /\ UNCHANGED <<key_ring, sources, snapshot, acked, writes>>

Written(record) ==
  IF log.open THEN [log.lines EXCEPT ![Len(log.lines)] = Append(@, record)]
  ELSE Append(log.lines, <<record>>)

Text == writes + 1
Appended == EncryptRecord(key_ring, NextSequence(ToSet(Records)), Text)

AppendRecord ==
  /\ Readable /\ writes < MaxWrites
  /\ log' = [log EXCEPT !.lines = Written(Appended), !.open = FALSE]
  /\ acked' = Append(acked, [text |-> Text, own_line |-> ~log.open])
  /\ writes' = Text
  /\ UNCHANGED <<key_ring, sources, snapshot>>

CrashInAppend ==
  /\ Readable /\ writes < MaxWrites
  /\ \/ log' = [log EXCEPT !.lines = Written(Appended), !.open = TRUE]
     \/ log' = [log EXCEPT !.torn = TRUE]
  /\ writes' = Text
  /\ UNCHANGED <<key_ring, sources, snapshot, acked>>

\* All records under the active key, numbered anew; renamed over the old file.
Reencrypted(ring, records) ==
  [i \in DOMAIN records |-> EncryptRecord(ring, i, records[i].text)]

\* A slip the properties must notice: the last record is left out.
ReencryptedButLast(ring, records) ==
  [i \in 1..(Len(records) - 1) |-> EncryptRecord(ring, i, records[i].text)]

RewriteWithActiveKey ==
  /\ Readable /\ DecryptsAll(key_ring, ToSet(Records))
  /\ log' = [log EXCEPT !.open = FALSE,
                        !.lines = LET new == Reencrypted(key_ring, Records)
                                  IN  [i \in DOMAIN new |-> <<new[i]>>]]
  /\ UNCHANGED <<key_ring, sources, snapshot, acked, writes>>

ReplaceKeyRing(ring) ==
  /\ log.header = "whole"
  /\ key_ring' = ring
  /\ UNCHANGED <<log, sources, snapshot, acked, writes>>

(***************************************************************************)
(* The source store and the snapshot: each call writes the whole file.     *)
(***************************************************************************)
PutSource(ring, id) ==
  /\ writes < MaxWrites
  /\ LET others == SelectSeq(sources, LAMBDA e : e.id # id)
         sequence == NextSequence({e.record : e \in ToSet(others)})
     IN  sources' = Append(others, [id |-> id, record |-> EncryptRecord(ring, sequence, Text)])
  /\ writes' = Text
  /\ UNCHANGED <<log, key_ring, snapshot, acked>>

RotateSources(ring) ==
  LET records == [i \in DOMAIN sources |-> sources[i].record]
      new == Reencrypted(ring, records)
  IN  /\ DecryptsAll(ring, ToSet(records))
      /\ sources' = [i \in DOMAIN new |-> [id |-> sources[i].id, record |-> new[i]]]
      /\ UNCHANGED <<log, key_ring, snapshot, acked, writes>>

WriteSnapshot(ring) ==
  /\ writes < MaxWrites
  /\ snapshot' = {EncryptRecord(ring, 1, Text)}
  /\ writes' = Text
  /\ UNCHANGED <<log, key_ring, sources, acked>>

RotateSnapshot(ring) ==
  /\ snapshot # {} /\ DecryptsAll(ring, snapshot)
  /\ snapshot' = {EncryptRecord(ring, 1, r.text) : r \in snapshot}
  /\ UNCHANGED <<log, key_ring, sources, acked, writes>>

ConfidentialInit ==
  /\ log = [header |-> "none", lines |-> <<>>, open |-> FALSE, torn |-> FALSE]
  /\ key_ring = CHOOSE r \in Ring : TRUE  \* until Open gives one
  /\ sources = <<>> /\ snapshot = {} /\ acked = <<>> /\ writes = 0

ConfidentialNext ==
  \/ CrashInOpen \/ AppendRecord \/ CrashInAppend \/ RewriteWithActiveKey
  \/ \E ring \in Ring :
       \/ Open(ring) \/ ReplaceKeyRing(ring) \/ RotateSources(ring)
       \/ WriteSnapshot(ring) \/ RotateSnapshot(ring)
       \/ \E id \in SourceId : PutSource(ring, id)

(***************************************************************************)
(* As long as the log can be read, every append that returned is read back *)
(* in its place, under numbers that grow, except one that a crash made     *)
(* share the line of another; besides there are only texts whose append    *)
(* was interrupted (append_record, read_all, next_sequence).               *)
(***************************************************************************)
AckedReadBack ==
  Readable =>
    LET texts == [i \in DOMAIN Records |-> Records[i].text]
        kept == SelectSeq(acked, LAMBDA a : a.own_line)
    IN  /\ SelectSeq(texts, LAMBDA t : \E a \in ToSet(acked) : a.text = t)
             = [i \in DOMAIN kept |-> kept[i].text]
        /\ \A i, j \in DOMAIN Records : i < j => /\ texts[i] < texts[j]
                                                 /\ Records[i].sequence < Records[j].sequence

(***************************************************************************)
(* Rotating keys loses nothing: a step that adds no text leaves each store *)
(* with the texts it had, also when other stores are still under the old   *)
(* key; what it encrypts again reads with the active key alone; and a      *)
(* source put again replaces that one source (rewrite_with_active_key,     *)
(* EncryptedSourceStore, EncryptedSnapshotStore).                          *)
(***************************************************************************)
RotationKeepsAll ==
  [][LET Texts(entries) == {<<e.id, e.record.text>> : e \in ToSet(entries)}
         Alone(ring) == [active |-> ring.active, keys |-> [k \in {ring.active} |-> ring.keys[k]]]
     IN  /\ writes' = writes =>
              /\ Texts(sources') = Texts(sources)
              /\ {r.text : r \in snapshot'} = {r.text : r \in snapshot}
              /\ [i \in DOMAIN Records' |-> Records'[i].text] = [i \in DOMAIN Records |-> Records[i].text]
         /\ writes' = writes /\ log'.lines # log.lines =>
              DecryptsAll(Alone(key_ring), ToSet(Records'))
         /\ sources' # sources /\ writes' = writes =>
              \E ring \in Ring : DecryptsAll(Alone(ring), {e.record : e \in ToSet(sources')})
         /\ writes' # writes =>
              \E id \in SourceId : {t \in Texts(sources') : t[1] # id} = {t \in Texts(sources) : t[1] # id}
    ]_confidentialVars
=============================================================================
