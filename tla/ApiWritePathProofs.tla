------------------------- MODULE ApiWritePathProofs -------------------------
(***************************************************************************)
(* What holds of the write path for any number of request threads, any     *)
(* requests and any number of crashes: the event log lock is held by one   *)
(* thread from the execution of a command to its publication, nothing is   *)
(* visible before it is durable, the copies of the log agree, a key that   *)
(* was answered is not executed again, what is on disk can be started      *)
(* from, every client is answered with its own event, and the durable log  *)
(* grows as one sequential EventLog does.                                  *)
(***************************************************************************)
EXTENDS ApiWritePath, GraphEventsProofs, SequenceTheorems, FiniteSetTheorems

Locking == {"durable", "storage", "publish"}
Written == {"storage", "publish", "key_record", "key_newline", "key_insert", "respond"}

-----------------------------------------------------------------------------
(***************************************************************************)
(* The inductive invariant, in parts.                                      *)
(***************************************************************************)

\* The files and logs are sequences; the threads are the clients.
Shape ==
  /\ \E S : wal \in Seq(S)
  /\ \E S, T : keyFile \in [lines : Seq(S), tail : T]
  /\ log.events \in Seq(Durable) /\ storage.events \in Seq(Durable)
  /\ DOMAIN pc = Client /\ DOMAIN req = Client /\ DOMAIN event = Client
  /\ up \in BOOLEAN

\* A thread is at a step that needs the lock exactly when it holds it.
LockHeld ==
  /\ holder \in Client \cup {Nobody}
  /\ \A p \in Client : pc[p] \in Locking <=> holder = p
  /\ ~up => holder = Nobody /\ \A p \in Client : pc[p] = "idle"

\* What is past the durable append is durable, in threads and in the table.
PastIsDurable ==
  /\ \A p \in Client : pc[p] \in Written => event[p] \in Durable
  /\ \A k \in DOMAIN idempotency : idempotency[k].ev \in Durable
  /\ \A a \in answered : a.ev \in Durable

\* The command that is carried applies to the log it was accepted by.
CarriedApplies ==
  \A p \in Client : pc[p] \in {"durable", "storage"} =>
    Applicable(log.graph, event[p].cmd)

\* The three copies differ by the one event that is carried.
Copies ==
  up => /\ IF holder # Nobody /\ pc[holder] = "publish"
           THEN storage = Applied(log, event[holder])
           ELSE storage = log
        /\ ~failed => WalEvents = IF holder # Nobody /\ pc[holder] = "storage"
                                  THEN Append(storage.events, event[holder])
                                  ELSE storage.events

WriteInv == Shape /\ LockHeld /\ PastIsDurable
CopyInv == CarriedApplies /\ Copies

-----------------------------------------------------------------------------
(***************************************************************************)
(* Sets of places and sequences.                                           *)
(***************************************************************************)

(* The greatest of some of the numbers from 1 to n is one of them.         *)
LEMMA MaxInside ==
  ASSUME NEW n \in Nat, NEW S \in SUBSET (1..n), S # {}
  PROVE  Max(S) \in S /\ \A y \in S : Max(S) >= y
<1> DEFINE Below == {p \in Nat \X Nat : p[1] < p[2]}
           Rest == {n - x : x \in S}
<1>1. IsWellFoundedOn(Below, Nat)
  BY NatLessThanWellFounded DEF OpToRel
<1>2. Rest \subseteq Nat /\ Rest # {}
  <2>1. \A x \in S : x \in 1..n
    BY Zenon
  <2>2. \A x \in S : n - x \in Nat
    BY <2>1
  <2> QED BY <2>2, Zenon
<1>3. PICK m \in Rest : \A y \in Rest : ~ (<<y, m>> \in Below)
  <2> HIDE DEF Rest, Below
  <2> QED BY <1>1, <1>2, WFMin, Zenon
<1>4. PICK x \in S : m = n - x
  BY DEF Rest
<1>5. \A y \in S : x >= y
  <2> SUFFICES ASSUME NEW y \in S, y > x PROVE FALSE
    OBVIOUS
  <2>1. n - y \in Rest /\ n - y \in Nat /\ m \in Nat /\ n - y < m
    BY <1>2, <1>3, <1>4
  <2> QED BY <2>1, <1>3
<1> QED BY <1>5 DEF Max

(* What Append does to a sequence, whatever is appended.                   *)
LEMMA AppendAny ==
  ASSUME NEW S, NEW s \in Seq(S), NEW e
  PROVE  /\ Append(s, e) \in Seq(S \cup {e})
         /\ Len(Append(s, e)) = Len(s) + 1
         /\ Len(s) \in Nat
         /\ \A i \in 1..Len(s) : Append(s, e)[i] = s[i]
         /\ Append(s, e)[Len(s) + 1] = e
         /\ DOMAIN Append(s, e) = 1..Len(s) + 1
<1> DEFINE T == S \cup {e}
<1>1. s \in Seq(T) /\ e \in T
  OBVIOUS
<1>2. /\ Append(s, e) \in Seq(T) /\ Len(Append(s, e)) = Len(s) + 1
      /\ \A i \in 1..Len(s) : Append(s, e)[i] = s[i]
      /\ Append(s, e)[Len(s) + 1] = e
  <2> HIDE DEF T
  <2> QED BY <1>1
<1>3. Len(s) \in Nat /\ DOMAIN Append(s, e) = 1..Len(Append(s, e))
  <2> HIDE DEF T
  <2> QED BY <1>1, <1>2
<1> QED BY <1>2, <1>3

(* The events of a durable log are a sequence of durable events.           *)
LEMMA WalEventsType ==
  ASSUME NEW S, wal \in Seq(S)
  PROVE  WalEvents \in Seq(Durable) /\ Len(WalEvents) = Len(wal)
  BY DEF WalEvents, Durable

(* A durable append adds its event to the events, at the end.              *)
LEMMA WalGrows ==
  ASSUME NEW S, wal \in Seq(S), NEW e, NEW k,
         wal' = Append(wal, [ev |-> e, key |-> k])
  PROVE  /\ \E T : wal' \in Seq(T)
         /\ Durable' = Durable \cup {e}
         /\ WalEvents' = Append(WalEvents, e)
<1> DEFINE r == [ev |-> e, key |-> k]
<1>1. wal' = Append(wal, r) /\ r.ev = e
  OBVIOUS
<1> HIDE DEF r
<1>2. /\ wal' \in Seq(S \cup {r}) /\ Len(wal') = Len(wal) + 1 /\ Len(wal) \in Nat
      /\ \A i \in 1..Len(wal) : wal'[i] = wal[i]
      /\ wal'[Len(wal) + 1] = r
  <2>1. /\ Append(wal, r) \in Seq(S \cup {r}) /\ Len(Append(wal, r)) = Len(wal) + 1
        /\ Len(wal) \in Nat
        /\ \A i \in 1..Len(wal) : Append(wal, r)[i] = wal[i]
        /\ Append(wal, r)[Len(wal) + 1] = r
    BY AppendAny
  <2> QED BY <1>1, <2>1
<1>3. Durable' = Durable \cup {e}
  <2>1. 1..Len(wal') = 1..Len(wal) \cup {Len(wal) + 1}
    BY <1>2
  <2> QED BY <1>1, <1>2, <2>1 DEF Durable
<1>4. WalEvents' = Append(WalEvents, e)
  <2>1. Len(WalEvents) = Len(wal) /\ WalEvents \in Seq(Durable)
    BY WalEventsType
  <2>2. /\ Append(WalEvents, e) \in Seq(Durable \cup {e})
        /\ DOMAIN Append(WalEvents, e) = 1..Len(wal) + 1
        /\ \A i \in 1..Len(wal) : Append(WalEvents, e)[i] = WalEvents[i]
        /\ Append(WalEvents, e)[Len(wal) + 1] = e
    BY <2>1, AppendAny
  <2>3. /\ WalEvents' \in Seq(Durable') /\ Len(WalEvents') = Len(wal')
    BY <1>2 DEF WalEvents, Durable
  <2>4. \A i \in 1..Len(wal) + 1 : WalEvents'[i] = Append(WalEvents, e)[i]
    BY <1>1, <1>2, <2>2 DEF WalEvents
  <2> QED BY <1>2, <2>2, <2>3, <2>4
<1> QED BY <1>2, <1>3, <1>4

(* What depends on the durable log only, stays with it.                    *)
LEMMA WalStays ==
  ASSUME wal' = wal
  PROVE  Durable' = Durable /\ WalEvents' = WalEvents
  BY DEF Durable, WalEvents

(* A durable append makes a log of durable events one of the new durable   *)
(* events.                                                                 *)
LEMMA StillDurable ==
  ASSUME NEW s \in Seq(Durable), Durable \subseteq Durable'
  PROVE  s \in Seq(Durable')
  OBVIOUS

(* Every key in the table that a start reads from the file leads to an     *)
(* event of the durable log: the last record of the key names one.         *)
LEMMA KeyTableDurable ==
  ASSUME Shape, KeysReadable
  PROVE  \A k \in DOMAIN KeyTable(WalEvents) : KeyTable(WalEvents)[k].ev \in Durable
<1> SUFFICES ASSUME NEW k \in DOMAIN KeyTable(WalEvents)
             PROVE  KeyTable(WalEvents)[k].ev \in Durable
  OBVIOUS
<1> DEFINE ns == {n \in KeyLines : KeyLine(n)[1].key = k}
           rec == KeyLine(Max(ns))[1]
           is == {i \in 1..Len(WalEvents) : WalEvents[i].seq = rec.id}
<1>1. Len(LinesRead(keyFile)) \in Nat
  <2>1. PICK S, T : keyFile \in [lines : Seq(S), tail : T]
    BY DEF Shape
  <2>2. keyFile.lines \in Seq(S)
    BY <2>1
  <2>3. Len(keyFile.lines) \in Nat /\ Len(Append(keyFile.lines, keyFile.tail)) \in Nat
    BY <2>2, AppendAny
  <2> QED BY <2>3 DEF LinesRead
<1>2. k \in {KeyLine(n)[1].key : n \in KeyLines}
  BY DEF KeyTable
<1>3. ns \in SUBSET (1..Len(LinesRead(keyFile))) /\ ns # {}
  BY <1>2 DEF KeyLines
<1>4. Max(ns) \in KeyLines
  <2> HIDE DEF ns
  <2>1. Max(ns) \in ns
    BY <1>1, <1>3, MaxInside
  <2> QED BY <2>1 DEF ns
<1>5. PICK i \in 1..Len(wal) : wal[i].ev.seq = rec.id
  BY <1>4 DEF KeysReadable
<1>6. WalEvents \in Seq(Durable) /\ Len(WalEvents) = Len(wal) /\ Len(wal) \in Nat
  BY WalEventsType DEF Shape
<1>7. i \in is
  BY <1>5, <1>6 DEF WalEvents
<1>8. Max(is) \in is
  <2>1. is \in SUBSET (1..Len(WalEvents)) /\ is # {}
    BY <1>7
  <2> HIDE DEF is
  <2> QED BY <1>6, <2>1, MaxInside
<1>9. EventById(WalEvents, rec.id) \in Durable
  <2>1. WalEvents[Max(is)] \in Durable
    BY <1>6, <1>8
  <2>2. EventById(WalEvents, rec.id) = WalEvents[Max(is)]
    BY DEF EventById
  <2> QED BY <2>1, <2>2
<1>10. KeyTable(WalEvents)[k].ev = EventById(WalEvents, rec.id)
  BY <1>2 DEF KeyTable
<1> QED BY <1>9, <1>10

-----------------------------------------------------------------------------
(***************************************************************************)
(* What is visible is durable.                                             *)
(***************************************************************************)

(* The invariant holds of a process that starts with empty files.          *)
LEMMA WriteInvInit == Init => WriteInv
<1> SUFFICES ASSUME Init PROVE WriteInv
  OBVIOUS
<1> USE DEF Init
<1>1. Shape
  <2>1. wal \in Seq({}) /\ keyFile \in [lines : Seq({}), tail : {<<>>}]
    BY DEF EmptyFile
  <2>2. log.events \in Seq(Durable) /\ storage.events \in Seq(Durable)
    BY DEF EmptyLog
  <2> QED BY <2>1, <2>2 DEF Shape
<1>2. LockHeld
  BY ApiAssumption DEF LockHeld, Locking, ApiAssumption
<1>3. PastIsDurable
  BY DEF PastIsDurable, Written, NoEntries
<1> QED BY <1>1, <1>2, <1>3 DEF WriteInv

(* A thread that holds no lock and comes to a step that needs none, with   *)
(* the files and logs as they are, keeps the invariant, as long as its     *)
(* event is durable when the step says so.                                 *)
LEMMA ThreadMoves ==
  ASSUME WriteInv, NEW p \in Client, NEW s, s \notin Locking, holder # p, pc[p] # "idle" \/ up,
         pc' = [pc EXCEPT ![p] = s],
         DOMAIN req' = Client, DOMAIN event' = Client,
         \A q \in Client \ {p} : event'[q] = event[q],
         s \in Written => event'[p] \in Durable,
         UNCHANGED <<wal, log, storage, up, holder>>,
         \E S, T : keyFile' \in [lines : Seq(S), tail : T],
         \A k \in DOMAIN idempotency' : idempotency'[k].ev \in Durable,
         \A a \in answered' : a.ev \in Durable
  PROVE  WriteInv'
<1>1. Durable' = Durable
  BY WalStays
<1>2. Shape'
  BY <1>1 DEF WriteInv, Shape
<1>3. LockHeld'
  BY DEF WriteInv, Shape, LockHeld
<1>4. PastIsDurable'
  <2>1. \A q \in Client : pc'[q] \in Written => event'[q] \in Durable
    BY DEF WriteInv, Shape, PastIsDurable
  <2> QED BY <1>1, <2>1 DEF PastIsDurable
<1> QED BY <1>2, <1>3, <1>4 DEF WriteInv

(* A file stays a file, whatever is written to its tail.                   *)
LEMMA FileWritten ==
  ASSUME Shape, NEW t
  PROVE  /\ \E S, T : keyFile \in [lines : Seq(S), tail : T]
         /\ \E S, T : WriteToken(keyFile, t) \in [lines : Seq(S), tail : T]
         /\ \E S, T : EndLine(keyFile) \in [lines : Seq(S), tail : T]
<1>1. PICK S, T : keyFile \in [lines : Seq(S), tail : T]
  BY DEF Shape
<1>2. WriteToken(keyFile, t) \in [lines : Seq(S), tail : {Append(keyFile.tail, t)}]
  BY <1>1 DEF WriteToken
<1>3. EndLine(keyFile) \in [lines : Seq(S \cup {keyFile.tail}), tail : {<<>>}]
  <2>1. keyFile.lines \in Seq(S)
    BY <1>1
  <2>2. Append(keyFile.lines, keyFile.tail) \in Seq(S \cup {keyFile.tail})
    BY <2>1, AppendAny
  <2> QED BY <2>2 DEF EndLine
<1> QED BY <1>1, <1>2, <1>3

(* Requests that find their key, or meet it with another command, or go on *)
(* to the lock.                                                            *)
LEMMA ReceiveStep ==
  ASSUME WriteInv, NEW p \in Client, Receive(p)
  PROVE  WriteInv'
<1> USE DEF Arrives, disk, memory
<1>1. PICK c \in Requests, k \in Key \cup {NoKey} :
        KeyHit(p, c, k) \/ KeyConflict(p, c, k) \/ KeyMiss(p, c, k)
  BY DEF Receive
<1>2. holder # p /\ pc[p] = "idle" /\ up
  BY <1>1 DEF WriteInv, LockHeld, Locking, KeyHit, KeyConflict, KeyMiss
<1>3. /\ UNCHANGED <<wal, log, storage, up, holder, idempotency, answered>>
      /\ \E S, T : keyFile' \in [lines : Seq(S), tail : T]
  BY <1>1 DEF WriteInv, Shape, KeyHit, KeyConflict, KeyMiss
<1>4. /\ \A j \in DOMAIN idempotency' : idempotency'[j].ev \in Durable
      /\ \A a \in answered' : a.ev \in Durable
  BY <1>3 DEF WriteInv, PastIsDurable
<1>5. CASE KeyHit(p, c, k)
  <2>1. /\ pc' = [pc EXCEPT ![p] = "respond"] /\ DOMAIN req' = Client /\ DOMAIN event' = Client
        /\ \A q \in Client \ {p} : event'[q] = event[q]
        /\ event'[p] = idempotency[k].ev
    BY <1>5 DEF KeyHit, Goto, WriteInv, Shape
  <2>2. event'[p] \in Durable
    BY <1>5, <2>1 DEF KeyHit, Known, WriteInv, PastIsDurable
  <2> QED BY <1>2, <1>3, <1>4, <2>1, <2>2, ThreadMoves DEF Locking
<1>6. CASE KeyConflict(p, c, k)
  <2>1. UNCHANGED <<wal, keyFile, up, log, storage, idempotency, holder, pc, req, event, answered>>
    BY <1>6 DEF KeyConflict
  <2>2. Durable' = Durable
    BY <2>1, WalStays
  <2> QED BY <2>1, <2>2 DEF WriteInv, Shape, LockHeld, PastIsDurable
<1>7. CASE KeyMiss(p, c, k)
  <2>1. /\ pc' = [pc EXCEPT ![p] = "lock"] /\ DOMAIN req' = Client /\ DOMAIN event' = Client
        /\ \A q \in Client \ {p} : event'[q] = event[q]
    BY <1>7 DEF KeyMiss, Goto, WriteInv, Shape
  <2> QED BY <1>2, <1>3, <1>4, <2>1, ThreadMoves DEF Locking, Written
<1> QED BY <1>1, <1>5, <1>6, <1>7

(* What a thread does without the lock.                                    *)
LEMMA FreeStep ==
  ASSUME WriteInv, NEW p \in Client,
         \/ Reject(p) \/ WriteKeyRecord(p) \/ WriteKeyNewline(p)
         \/ KeyWriteFails(p) \/ InsertKey(p) \/ Respond(p)
  PROVE  WriteInv'
<1> USE DEF disk, memory, ghosts, Goto, Finish
<1>1. /\ pc[p] \in {"lock", "key_record", "key_newline", "key_insert", "respond"}
      /\ pc[p] # "lock" => pc[p] \in Written /\ event[p] \in Durable
      /\ holder # p
  BY DEF WriteInv, LockHeld, PastIsDurable, Locking, Written,
         Reject, WriteKeyRecord, WriteKeyNewline, KeyWriteFails, InsertKey, Respond
<1>2. UNCHANGED <<wal, log, storage, up, holder>>
  BY DEF Reject, WriteKeyRecord, WriteKeyNewline, KeyWriteFails, InsertKey, Respond
<1>3. \E S, T : keyFile' \in [lines : Seq(S), tail : T]
  <2>1. Shape
    BY DEF WriteInv
  <2>2. \/ keyFile' = keyFile \/ keyFile' = WriteToken(keyFile, KeyRecord(p))
        \/ keyFile' = WriteToken(keyFile, Torn) \/ keyFile' = EndLine(keyFile)
    BY DEF Reject, WriteKeyRecord, WriteKeyNewline, KeyWriteFails, InsertKey, Respond
  <2> QED BY <2>1, <2>2, FileWritten
<1>4. \A k \in DOMAIN idempotency' : idempotency'[k].ev \in Durable
  <2>1. CASE InsertKey(p)
    <3> DEFINE r == [fingerprint |-> req[p].cmd, ev |-> event[p]]
    <3>1. idempotency' = Put(idempotency, req[p].key, r) /\ r.ev \in Durable
      BY <1>1, <2>1 DEF InsertKey
    <3> HIDE DEF r
    <3>2. /\ DOMAIN idempotency' = DOMAIN idempotency \cup {req[p].key} /\ idempotency'[req[p].key] = r
          /\ \A k \in DOMAIN idempotency : k # req[p].key => idempotency'[k] = idempotency[k]
      BY <3>1 DEF Put
    <3> QED BY <3>1, <3>2 DEF WriteInv, PastIsDurable
  <2>2. CASE ~InsertKey(p)
    <3>1. idempotency' = idempotency
      BY <2>2 DEF Reject, WriteKeyRecord, WriteKeyNewline, KeyWriteFails, Respond
    <3> QED BY <3>1 DEF WriteInv, PastIsDurable
  <2> QED BY <2>1, <2>2
<1>5. \A a \in answered' : a.ev \in Durable
  <2>1. CASE Respond(p)
    BY <1>1, <2>1 DEF Respond, WriteInv, PastIsDurable
  <2>2. CASE ~Respond(p)
    <3>1. answered' = answered
      BY <2>2 DEF Reject, WriteKeyRecord, WriteKeyNewline, KeyWriteFails, InsertKey
    <3> QED BY <3>1 DEF WriteInv, PastIsDurable
  <2> QED BY <2>1, <2>2
<1>6. PICK s \in {"idle", "key_newline", "key_insert", "respond"} :
        /\ pc' = [pc EXCEPT ![p] = s]
        /\ DOMAIN req' = Client /\ DOMAIN event' = Client
        /\ \A q \in Client \ {p} : event'[q] = event[q]
        /\ s # "idle" => event' = event /\ pc[p] # "lock"
  <2>1. DOMAIN req = Client /\ DOMAIN event = Client
    BY DEF WriteInv, Shape
  <2>2. CASE Reject(p) \/ KeyWriteFails(p) \/ Respond(p)
    BY <2>1, <2>2 DEF Reject, KeyWriteFails, Respond
  <2>3. CASE WriteKeyRecord(p) \/ WriteKeyNewline(p) \/ InsertKey(p)
    BY <2>1, <2>3 DEF WriteKeyRecord, WriteKeyNewline, InsertKey
  <2> QED BY <2>2, <2>3
<1>7. s \notin Locking /\ (s \in Written => event'[p] \in Durable)
  BY <1>1, <1>6 DEF Locking, Written
<1> QED BY <1>1, <1>2, <1>3, <1>4, <1>5, <1>6, <1>7, ThreadMoves, Zenon

(* What a thread does with the lock: it takes it free, and the event it    *)
(* carries is durable before it is visible.                                *)
LEMMA LockedStep ==
  ASSUME WriteInv, NEW p \in Client,
         \/ ExecuteCandidate(p) \/ AppendDurable(p) \/ DurableFails(p)
         \/ AppendStorage(p) \/ Publish(p)
  PROVE  WriteInv'
<1> USE DEF disk, memory, ghosts, Goto, Finish
<1>1. /\ DOMAIN pc = Client /\ DOMAIN req = Client /\ DOMAIN event = Client
      /\ up /\ up' = up /\ keyFile' = keyFile /\ idempotency' = idempotency /\ answered' = answered
      /\ \A q \in Client \ {p} : pc[q] \notin Locking
  <2>1. DOMAIN pc = Client /\ DOMAIN req = Client /\ DOMAIN event = Client
    BY DEF WriteInv, Shape
  <2>2. up' = up /\ keyFile' = keyFile /\ idempotency' = idempotency /\ answered' = answered
    BY DEF ExecuteCandidate, AppendDurable, DurableFails, AppendStorage, Publish
  <2>3. pc[p] # "idle" /\ (pc[p] \in Locking \/ holder = Nobody)
    BY DEF Locking, ExecuteCandidate, AppendDurable, DurableFails, AppendStorage, Publish
  <2>4. up
    BY <2>3 DEF WriteInv, Shape, LockHeld
  <2>5. \A q \in Client \ {p} : pc[q] \notin Locking
    BY <2>3, ApiAssumption DEF WriteInv, LockHeld, ApiAssumption
  <2> QED BY <2>1, <2>2, <2>4, <2>5
<1>2. /\ \E S : wal' \in Seq(S)
      /\ Durable' = Durable \/ Durable' = Durable \cup {event[p]}
      /\ AppendDurable(p) => event[p] \in Durable'
  <2>1. CASE wal' = wal
    <3>1. ~AppendDurable(p)
      <4> SUFFICES ASSUME AppendDurable(p) PROVE FALSE
        OBVIOUS
      <4>1. PICK S : wal \in Seq(S)
        BY DEF WriteInv, Shape
      <4> DEFINE r == [ev |-> event[p], key |-> req[p].key]
      <4>2. wal = Append(wal, r)
        BY <2>1 DEF AppendDurable
      <4> HIDE DEF r
      <4>3. Len(Append(wal, r)) = Len(wal) + 1 /\ Len(wal) \in Nat
        BY <4>1, AppendAny
      <4> QED BY <4>2, <4>3
    <3> QED BY <2>1, <3>1, WalStays DEF WriteInv, Shape
  <2>2. CASE wal' = Append(wal, [ev |-> event[p], key |-> req[p].key])
    <3>1. PICK S : wal \in Seq(S)
      BY DEF WriteInv, Shape
    <3> QED BY <2>2, <3>1, WalGrows
  <2>3. \/ wal' = wal \/ wal' = Append(wal, [ev |-> event[p], key |-> req[p].key])
    BY DEF ExecuteCandidate, AppendDurable, DurableFails, AppendStorage, Publish
  <2> QED BY <2>1, <2>2, <2>3
<1>3. \A x : x \in Durable => x \in Durable'
  BY <1>2
<1>4. /\ log'.events \in Seq(Durable') /\ storage'.events \in Seq(Durable')
  <2>1. log.events \in Seq(Durable') /\ storage.events \in Seq(Durable')
    BY <1>3, StillDurable DEF WriteInv, Shape
  <2>2. CASE AppendStorage(p) \/ Publish(p)
    <3>1. event[p] \in Durable'
      BY <1>3, <2>2 DEF AppendStorage, Publish, WriteInv, PastIsDurable, Written
    <3>2. /\ log' = log \/ log'.events = Append(log.events, event[p])
          /\ storage' = storage \/ storage'.events = Append(storage.events, event[p])
      BY <2>2 DEF AppendStorage, Publish, Applied
    <3>3. Append(log.events, event[p]) \in Seq(Durable') /\ Append(storage.events, event[p]) \in Seq(Durable')
      <4> DEFINE D == Durable'
      <4>1. log.events \in Seq(D) /\ storage.events \in Seq(D) /\ event[p] \in D
        BY <2>1, <3>1
      <4> HIDE DEF D
      <4>2. Append(log.events, event[p]) \in Seq(D) /\ Append(storage.events, event[p]) \in Seq(D)
        BY <4>1
      <4> QED BY <4>2 DEF D
    <3> QED BY <2>1, <3>2, <3>3
  <2>3. CASE ~(AppendStorage(p) \/ Publish(p))
    <3>1. log' = log /\ storage' = storage
      BY <2>3 DEF ExecuteCandidate, AppendDurable, DurableFails
    <3> QED BY <2>1, <3>1
  <2> QED BY <2>2, <2>3
<1>5. /\ DOMAIN pc' = Client /\ DOMAIN req' = Client /\ DOMAIN event' = Client
      /\ \A q \in Client \ {p} : pc'[q] = pc[q] /\ event'[q] = event[q]
  <2>1. /\ \E s : pc' = [pc EXCEPT ![p] = s]
        /\ req' = req \/ \E r : req' = [req EXCEPT ![p] = r]
        /\ event' = event \/ \E e : event' = [event EXCEPT ![p] = e]
    BY DEF ExecuteCandidate, AppendDurable, DurableFails, AppendStorage, Publish
  <2> QED BY <1>1, <2>1
<1>6. \/ holder' = p /\ pc'[p] \in Locking
      \/ holder' = Nobody /\ pc'[p] \notin Locking
  BY <1>1 DEF WriteInv, LockHeld, Locking, ExecuteCandidate, AppendDurable, DurableFails, AppendStorage, Publish
<1>7. pc'[p] \in Written => event'[p] \in Durable'
  <2>1. CASE AppendDurable(p)
    BY <1>2, <2>1 DEF AppendDurable
  <2>2. CASE ~AppendDurable(p)
    BY <1>1, <1>3, <2>2 DEF WriteInv, PastIsDurable, Written, ExecuteCandidate, DurableFails, AppendStorage, Publish
  <2> QED BY <2>1, <2>2
<1>8. Shape'
  BY <1>1, <1>2, <1>4, <1>5 DEF WriteInv, Shape
<1>9. LockHeld'
  BY <1>1, <1>5, <1>6, ApiAssumption DEF LockHeld, ApiAssumption
<1>10. PastIsDurable'
  BY <1>1, <1>3, <1>5, <1>7 DEF WriteInv, PastIsDurable
<1> QED BY <1>8, <1>9, <1>10 DEF WriteInv

(* A crash takes what is in memory; a start reads it from the files.       *)
LEMMA RestartStep ==
  ASSUME WriteInv, Crash \/ Start
  PROVE  WriteInv'
<1>1. Durable' = Durable /\ WalEvents' = WalEvents
  BY WalStays DEF Crash, Start, disk
<1>2. CASE Crash
  <2>1. \E S, T : keyFile' \in [lines : Seq(S), tail : T]
    <3>1. Shape
      BY DEF WriteInv
    <3>2. keyFile' = keyFile \/ keyFile' = WriteToken(keyFile, Torn)
      BY <1>2 DEF Crash
    <3> QED BY <3>1, <3>2, FileWritten
  <2>2. Shape'
    <3>1. log'.events \in Seq(Durable') /\ storage'.events \in Seq(Durable')
      BY <1>2 DEF Crash, EmptyLog
    <3>2. (\E S : wal' \in Seq(S)) /\ up' \in BOOLEAN
      BY <1>2 DEF Crash, WriteInv, Shape
    <3>3. DOMAIN pc' = Client /\ DOMAIN req' = Client /\ DOMAIN event' = Client
      BY <1>2 DEF Crash
    <3> QED BY <2>1, <3>1, <3>2, <3>3 DEF Shape
  <2>3. LockHeld'
    BY <1>2, ApiAssumption DEF Crash, LockHeld, Locking, ApiAssumption
  <2>4. PastIsDurable'
    BY <1>1, <1>2 DEF Crash, WriteInv, PastIsDurable, Written, NoEntries
  <2> QED BY <2>2, <2>3, <2>4 DEF WriteInv
<1>3. CASE Start
  <2> USE DEF disk, threads, ghosts
  <2>1. Loaded(WalEvents).events \in Seq(Durable)
    BY WalEventsType DEF WriteInv, Shape, Loaded
  <2>2. Shape'
    BY <1>1, <1>3, <2>1 DEF Start, WriteInv, Shape
  <2>3. LockHeld'
    BY <1>3 DEF Start, WriteInv, LockHeld
  <2>4. PastIsDurable'
    <3>1. \A k \in DOMAIN idempotency' : idempotency'[k].ev \in Durable
      BY <1>3, KeyTableDurable DEF Start, WriteInv
    <3> QED BY <1>1, <1>3, <3>1 DEF Start, WriteInv, PastIsDurable
  <2> QED BY <2>2, <2>3, <2>4 DEF WriteInv
<1> QED BY <1>2, <1>3

(* Every step keeps the invariant.                                         *)
LEMMA WriteInvStep == WriteInv /\ [Next]_vars => WriteInv'
<1> SUFFICES ASSUME WriteInv, [Next]_vars PROVE WriteInv'
  OBVIOUS
<1>1. CASE UNCHANGED vars
  <2>1. Durable' = Durable
    BY <1>1, WalStays DEF vars, disk
  <2> QED BY <1>1, <2>1 DEF vars, disk, memory, threads, ghosts, WriteInv, Shape, LockHeld, PastIsDurable
<1>2. ASSUME NEW p \in Client, Receive(p) PROVE WriteInv'
  BY <1>2, ReceiveStep
<1>3. ASSUME NEW p \in Client, Continue(p) PROVE WriteInv'
  BY <1>3, FreeStep, LockedStep DEF Continue
<1>4. CASE Crash \/ Start
  BY <1>4, RestartStep
<1> QED BY <1>1, <1>2, <1>3, <1>4 DEF Next

(***************************************************************************)
(* Nothing is shown or answered before it is durable (execute appends to   *)
(* the durable log first), for any number of threads, requests, failed     *)
(* writes and crashes.                                                     *)
(***************************************************************************)
THEOREM VisibleStaysDurable == Spec => []VisibleIsDurable
<1>1. WriteInv => VisibleIsDurable
  BY DEF WriteInv, Shape, PastIsDurable, VisibleIsDurable, EventsOf
<1> QED BY <1>1, WriteInvInit, WriteInvStep, PTL DEF Spec

-----------------------------------------------------------------------------
(***************************************************************************)
(* The copies of the log.                                                  *)
(***************************************************************************)

(* A step of a thread without the lock leaves the copies as they are, and  *)
(* the thread that carries an event too.                                   *)
LEMMA CopiesUntouched ==
  ASSUME WriteInv, WriteInv', CopyInv, NEW p \in Client, holder # p,
         \A q \in Client \ {p} : pc'[q] = pc[q] /\ event'[q] = event[q],
         UNCHANGED <<wal, log, storage, up, failed, holder>>
  PROVE  CopyInv'
<1>1. WalEvents' = WalEvents
  BY WalStays
<1>2. pc'[p] \notin Locking /\ holder' # p
  BY DEF WriteInv, LockHeld
<1>3. CarriedApplies'
  BY <1>2 DEF CopyInv, CarriedApplies, Locking
<1>4. holder # Nobody => pc'[holder] = pc[holder] /\ event'[holder] = event[holder]
  BY DEF WriteInv, LockHeld
<1>5. Copies'
  BY <1>1, <1>4 DEF CopyInv, Copies
<1> QED BY <1>3, <1>5 DEF CopyInv

(* The five steps under the lock carry one event from copy to copy.        *)
LEMMA CopiesCarried ==
  ASSUME WriteInv, WriteInv', CopyInv, NEW p \in Client,
         \/ ExecuteCandidate(p) \/ AppendDurable(p) \/ DurableFails(p)
         \/ AppendStorage(p) \/ Publish(p)
  PROVE  CopyInv'
<1> USE DEF disk, memory, ghosts, Goto, Finish
<1>1. DOMAIN pc = Client /\ DOMAIN event = Client /\ p # Nobody
  BY ApiAssumption DEF WriteInv, Shape, ApiAssumption
<1>2. \A q \in Client \ {p} : pc'[q] \notin {"durable", "storage"}
  <2>1. holder' \in {p, Nobody}
    BY DEF WriteInv, LockHeld, Locking, ExecuteCandidate, AppendDurable, DurableFails, AppendStorage, Publish
  <2> QED BY <2>1, ApiAssumption DEF WriteInv, LockHeld, Locking, ApiAssumption
<1>3. up
  <2>1. pc[p] # "idle"
    BY DEF ExecuteCandidate, AppendDurable, DurableFails, AppendStorage, Publish
  <2> QED BY <2>1 DEF WriteInv, Shape, LockHeld
<1>4. pc[p] \in Locking => holder = p
  BY DEF WriteInv, LockHeld
<1>5. CASE ExecuteCandidate(p)
  <2>1. /\ holder = Nobody /\ holder' = p /\ pc'[p] = "durable"
        /\ event'[p] = NextEvent(log, req[p].cmd)
        /\ UNCHANGED <<wal, log, storage, up, failed>>
    BY <1>1, <1>5 DEF ExecuteCandidate
  <2>2. Applicable(log.graph, event'[p].cmd)
    <3>1. event'[p].cmd = req[p].cmd
      BY <2>1 DEF NextEvent, EventOf
    <3> QED BY <1>5, <3>1 DEF ExecuteCandidate, Accepts
  <2>3. CarriedApplies'
    BY <1>2, <2>1, <2>2 DEF CarriedApplies
  <2>4. WalEvents' = WalEvents
    BY <2>1, WalStays
  <2>5. Copies'
    BY <2>1, <2>4 DEF CopyInv, Copies
  <2> QED BY <2>3, <2>5 DEF CopyInv
<1>6. CASE AppendDurable(p)
  <2>1. /\ pc[p] = "durable" /\ holder = p /\ holder' = p /\ pc'[p] = "storage"
        /\ UNCHANGED <<log, storage, up, failed, event>>
    BY <1>1, <1>4, <1>6 DEF AppendDurable, Locking
  <2>2. WalEvents' = Append(WalEvents, event[p])
    BY <1>6, WalGrows DEF AppendDurable, WriteInv, Shape
  <2>3. CarriedApplies'
    BY <1>2, <2>1 DEF CopyInv, CarriedApplies
  <2>4. Copies'
    BY <1>1, <1>3, <2>1, <2>2 DEF CopyInv, Copies
  <2> QED BY <2>3, <2>4 DEF CopyInv
<1>7. CASE DurableFails(p)
  <2>1. /\ pc[p] = "durable" /\ holder = p /\ holder' = Nobody /\ pc'[p] = "idle"
        /\ UNCHANGED <<log, storage, up>>
        /\ ~failed' => ~failed /\ wal' = wal
    BY <1>1, <1>4, <1>7 DEF DurableFails, Locking
  <2>2. ~failed' => WalEvents' = WalEvents
    BY <2>1, WalStays
  <2>3. CarriedApplies'
    BY <1>2, <2>1 DEF CarriedApplies
  <2>4. Copies'
    BY <1>1, <1>3, <2>1, <2>2 DEF CopyInv, Copies
  <2> QED BY <2>3, <2>4 DEF CopyInv
<1>8. CASE AppendStorage(p)
  <2>1. pc[p] = "storage" /\ holder = p
    BY <1>4, <1>8 DEF AppendStorage, Locking
  <2>2. storage = log /\ Applicable(storage.graph, event[p].cmd)
    BY <1>1, <1>3, <2>1 DEF CopyInv, Copies, CarriedApplies
  <2>3. /\ storage' = Applied(log, event[p]) /\ holder' = p /\ pc'[p] = "publish"
        /\ UNCHANGED <<wal, log, up, failed, event>>
    BY <1>1, <1>8, <2>1, <2>2 DEF AppendStorage
  <2>4. WalEvents' = WalEvents
    BY <2>3, WalStays
  <2>5. ~failed => WalEvents = Append(storage.events, event[p])
    BY <1>1, <1>3, <2>1 DEF CopyInv, Copies
  <2>6. storage'.events = Append(log.events, event[p])
    BY <2>3 DEF Applied
  <2>7. CarriedApplies'
    BY <1>2, <2>3 DEF CarriedApplies
  <2>8. Copies'
    BY <1>1, <1>3, <2>2, <2>3, <2>4, <2>5, <2>6 DEF Copies
  <2> QED BY <2>7, <2>8 DEF CopyInv
<1>9. CASE Publish(p)
  <2>1. /\ pc[p] = "publish" /\ holder = p /\ holder' = Nobody
        /\ log' = Applied(log, event[p])
        /\ pc'[p] \in {"respond", "key_record"}
        /\ UNCHANGED <<wal, storage, up, failed>>
    BY <1>1, <1>4, <1>9 DEF Publish, Locking
  <2>2. WalEvents' = WalEvents
    BY <2>1, WalStays
  <2>3. CarriedApplies'
    BY <1>2, <2>1 DEF CarriedApplies
  <2>4. Copies'
    BY <1>1, <1>3, <2>1, <2>2 DEF CopyInv, Copies
  <2> QED BY <2>3, <2>4 DEF CopyInv
<1> QED BY <1>5, <1>6, <1>7, <1>8, <1>9

(* Every step keeps the copies as they should be.                          *)
LEMMA CopyInvStep == WriteInv /\ WriteInv' /\ CopyInv /\ [Next]_vars => CopyInv'
<1> SUFFICES ASSUME WriteInv, WriteInv', CopyInv, [Next]_vars PROVE CopyInv'
  OBVIOUS
<1>1. CASE UNCHANGED vars
  <2>1. WalEvents' = WalEvents
    BY <1>1, WalStays DEF vars, disk
  <2> QED BY <1>1, <2>1 DEF vars, disk, memory, threads, ghosts, CopyInv, CarriedApplies, Copies
<1>2. ASSUME NEW p \in Client, Receive(p) PROVE CopyInv'
  <2>1. PICK c \in Requests, k \in Key \cup {NoKey} :
          KeyHit(p, c, k) \/ KeyConflict(p, c, k) \/ KeyMiss(p, c, k)
    BY <1>2 DEF Receive
  <2>2. pc[p] = "idle" /\ UNCHANGED <<wal, log, storage, up, failed, holder>>
    BY <2>1 DEF KeyHit, KeyConflict, KeyMiss, Arrives, disk, memory
  <2>3. \A q \in Client \ {p} : pc'[q] = pc[q] /\ event'[q] = event[q]
    BY <2>1 DEF KeyHit, KeyConflict, KeyMiss, Goto, WriteInv, Shape
  <2>4. holder # p
    BY <2>2 DEF WriteInv, LockHeld, Locking
  <2> QED BY <2>2, <2>3, <2>4, CopiesUntouched
<1>3. ASSUME NEW p \in Client,
             \/ Reject(p) \/ WriteKeyRecord(p) \/ WriteKeyNewline(p)
             \/ KeyWriteFails(p) \/ InsertKey(p) \/ Respond(p)
      PROVE  CopyInv'
  <2>1. /\ pc[p] \notin Locking
        /\ UNCHANGED <<wal, log, storage, up, failed, holder>>
    BY <1>3 DEF Locking, Reject, WriteKeyRecord, WriteKeyNewline, KeyWriteFails, InsertKey, Respond, disk, memory, ghosts
  <2>2. (\E s : pc' = [pc EXCEPT ![p] = s]) /\ (event' = event \/ \E e : event' = [event EXCEPT ![p] = e])
    BY <1>3 DEF Reject, WriteKeyRecord, WriteKeyNewline, KeyWriteFails, InsertKey, Respond, Goto, Finish
  <2>3. \A q \in Client \ {p} : pc'[q] = pc[q] /\ event'[q] = event[q]
    BY <2>2 DEF WriteInv, Shape
  <2>4. holder # p
    BY <2>1 DEF WriteInv, LockHeld
  <2> QED BY <2>1, <2>3, <2>4, CopiesUntouched
<1>4. ASSUME NEW p \in Client, Continue(p) PROVE CopyInv'
  BY <1>3, <1>4, CopiesCarried DEF Continue
<1>5. CASE Crash
  BY <1>5 DEF Crash, CopyInv, CarriedApplies, Copies
<1>6. CASE Start
  <2>1. /\ \A p \in Client : pc'[p] = "idle"
        /\ holder' = Nobody /\ log' = Loaded(WalEvents) /\ storage' = Loaded(WalEvents) /\ wal' = wal
    BY <1>6 DEF Start, disk, threads, WriteInv, LockHeld
  <2>2. WalEvents' = WalEvents /\ Loaded(WalEvents).events = WalEvents
    BY <2>1, WalStays DEF Loaded
  <2> QED BY <2>1, <2>2 DEF CopyInv, CarriedApplies, Copies
<1> QED BY <1>1, <1>2, <1>4, <1>5, <1>6 DEF Next

(***************************************************************************)
(* The log, the storage and the durable log agree but for the one event    *)
(* that the thread holding the lock is carrying (execute), for any number  *)
(* of threads, requests, failed writes and crashes.                        *)
(***************************************************************************)
THEOREM CopiesStayEqual == Spec => []CopiesAgree
<1>1. Init => CopyInv
  BY DEF Init, CopyInv, CarriedApplies, Copies, WalEvents, EmptyLog
<1>2. WriteInv /\ CopyInv => CopiesAgree
  <2> SUFFICES ASSUME WriteInv, CopyInv, up PROVE CopiesAgree
    BY DEF CopiesAgree
  <2>1. /\ log.events \in Seq(Durable) /\ storage.events \in Seq(Durable)
        /\ holder # Nobody /\ pc[holder] \in Written => event[holder] \in Durable
    BY DEF WriteInv, Shape, LockHeld, PastIsDurable
  <2>2. /\ log.events \o <<>> = log.events /\ storage.events \o <<>> = storage.events
        /\ \A e \in Durable : /\ Append(log.events, e) = log.events \o <<e>>
                              /\ Append(storage.events, e) = storage.events \o <<e>>
    <3> DEFINE D == Durable
    <3> HIDE DEF D
    <3>1. log.events \in Seq(D) /\ storage.events \in Seq(D)
      BY <2>1 DEF D
    <3>2. /\ log.events \o <<>> = log.events /\ storage.events \o <<>> = storage.events
          /\ \A e \in D : /\ Append(log.events, e) = log.events \o <<e>>
                          /\ Append(storage.events, e) = storage.events \o <<e>>
      BY <3>1, AppendIsConcat, ConcatEmptySeq
    <3> QED BY <3>2 DEF D
  <2>3. storage.events = log.events \o Carried({"publish"})
    <3>1. CASE holder # Nobody /\ pc[holder] = "publish"
      <4>1. storage.events = Append(log.events, event[holder]) /\ event[holder] \in Durable
        BY <2>1, <3>1 DEF CopyInv, Copies, Applied, Written
      <4> QED BY <2>2, <3>1, <4>1 DEF Carried
    <3>2. CASE ~(holder # Nobody /\ pc[holder] = "publish")
      BY <2>2, <3>2 DEF CopyInv, Copies, Carried
    <3> QED BY <3>1, <3>2
  <2>4. storage = log \/ pc[holder] = "publish"
    BY DEF CopyInv, Copies
  <2>5. ~failed => WalEvents = storage.events \o Carried({"storage"})
    <3> SUFFICES ASSUME ~failed PROVE WalEvents = storage.events \o Carried({"storage"})
      OBVIOUS
    <3>1. CASE holder # Nobody /\ pc[holder] = "storage"
      <4>1. WalEvents = Append(storage.events, event[holder]) /\ event[holder] \in Durable
        BY <2>1, <3>1 DEF CopyInv, Copies, Written
      <4> QED BY <2>2, <3>1, <4>1 DEF Carried
    <3>2. CASE ~(holder # Nobody /\ pc[holder] = "storage")
      BY <2>2, <3>2 DEF CopyInv, Copies, Carried
    <3> QED BY <3>1, <3>2
  <2> QED BY <2>3, <2>4, <2>5 DEF CopiesAgree
<1> QED BY <1>1, <1>2, WriteInvInit, WriteInvStep, CopyInvStep, PTL DEF Spec

-----------------------------------------------------------------------------
(***************************************************************************)
(* Answered keys.  The table is lost in a crash and the file is not: what  *)
(* was answered is in the table because it was on the file before.         *)
(***************************************************************************)
KeyFileShape(S) == keyFile \in [lines : Seq(Seq(S)), tail : Seq(S)]

HasKey(f, k) ==
  \/ \E n \in 1..Len(f.lines) : \E i \in 1..Len(f.lines[n]) : f.lines[n][i].key = k
  \/ \E i \in 1..Len(f.tail) : f.tail[i].key = k

KeysHeld ==
  /\ \A k \in DOMAIN idempotency : HasKey(keyFile, k)
  /\ \A a \in answered : a.key # NoKey => HasKey(keyFile, a.key)
  /\ up => \A a \in answered : a.key # NoKey => a.key \in DOMAIN idempotency
  /\ \A p \in Client :
       /\ pc[p] \in {"key_newline", "key_insert"} => HasKey(keyFile, req[p].key)
       /\ pc[p] = "respond" /\ req[p].key # NoKey => req[p].key \in DOMAIN idempotency

NeverLate == DOMAIN late = Client /\ \A p \in Client : late[p] = FALSE

KeyInv == (\E S : KeyFileShape(S)) /\ KeysHeld /\ NeverLate

(* Writing to the file loses no key and adds that of the record written.   *)
LEMMA FileGrows ==
  ASSUME NEW S, KeyFileShape(S), NEW t
  PROVE  /\ WriteToken(keyFile, t) \in [lines : Seq(Seq(S \cup {t})), tail : Seq(S \cup {t})]
         /\ EndLine(keyFile) \in [lines : Seq(Seq(S)), tail : Seq(S)]
         /\ HasKey(WriteToken(keyFile, t), t.key)
         /\ \A k : HasKey(keyFile, k) =>
                     HasKey(WriteToken(keyFile, t), k) /\ HasKey(EndLine(keyFile), k)
<1>1. keyFile.lines \in Seq(Seq(S)) /\ keyFile.tail \in Seq(S)
  BY DEF KeyFileShape
<1>2. /\ Append(keyFile.tail, t) \in Seq(S \cup {t})
      /\ Len(Append(keyFile.tail, t)) = Len(keyFile.tail) + 1
      /\ Len(keyFile.tail) \in Nat
      /\ \A i \in 1..Len(keyFile.tail) : Append(keyFile.tail, t)[i] = keyFile.tail[i]
      /\ Append(keyFile.tail, t)[Len(keyFile.tail) + 1] = t
  BY <1>1, AppendAny
<1>3. /\ WriteToken(keyFile, t).lines = keyFile.lines
      /\ WriteToken(keyFile, t).tail = Append(keyFile.tail, t)
      /\ DOMAIN WriteToken(keyFile, t) = {"lines", "tail"}
  BY DEF KeyFileShape, WriteToken
<1>4. WriteToken(keyFile, t) \in [lines : Seq(Seq(S \cup {t})), tail : Seq(S \cup {t})]
  <2>1. keyFile.lines \in Seq(Seq(S \cup {t}))
    <3>1. Seq(S) \subseteq Seq(S \cup {t})
      OBVIOUS
    <3> DEFINE A == Seq(S)
               B == Seq(S \cup {t})
    <3> HIDE DEF A, B
    <3>2. Seq(A) \subseteq Seq(B)
      BY <3>1 DEF A, B
    <3> QED BY <1>1, <3>2 DEF A, B
  <2>2. WriteToken(keyFile, t) = [lines |-> keyFile.lines, tail |-> Append(keyFile.tail, t)]
    <3> DEFINE A == Seq(Seq(S))
               B == Seq(S)
    <3>1. keyFile \in [lines : A, tail : B]
      BY DEF KeyFileShape
    <3> HIDE DEF A, B
    <3> QED BY <3>1 DEF WriteToken
  <2> QED BY <1>2, <2>1, <2>2
<1>5. /\ Append(keyFile.lines, keyFile.tail) \in Seq(Seq(S))
      /\ Len(Append(keyFile.lines, keyFile.tail)) = Len(keyFile.lines) + 1
      /\ Len(keyFile.lines) \in Nat
      /\ \A n \in 1..Len(keyFile.lines) : Append(keyFile.lines, keyFile.tail)[n] = keyFile.lines[n]
      /\ Append(keyFile.lines, keyFile.tail)[Len(keyFile.lines) + 1] = keyFile.tail
  <2> DEFINE A == Seq(S)
  <2>1. keyFile.lines \in Seq(A) /\ keyFile.tail \in A
    BY <1>1
  <2> HIDE DEF A
  <2>2. /\ Append(keyFile.lines, keyFile.tail) \in Seq(A)
        /\ Len(Append(keyFile.lines, keyFile.tail)) = Len(keyFile.lines) + 1
        /\ Len(keyFile.lines) \in Nat
        /\ \A n \in 1..Len(keyFile.lines) : Append(keyFile.lines, keyFile.tail)[n] = keyFile.lines[n]
        /\ Append(keyFile.lines, keyFile.tail)[Len(keyFile.lines) + 1] = keyFile.tail
    BY <2>1
  <2> QED BY <2>2 DEF A
<1>6. /\ EndLine(keyFile) \in [lines : Seq(Seq(S)), tail : Seq(S)]
      /\ EndLine(keyFile).lines = Append(keyFile.lines, keyFile.tail)
  BY <1>5 DEF EndLine
<1>7. HasKey(WriteToken(keyFile, t), t.key)
  BY <1>2, <1>3 DEF HasKey
<1>8. ASSUME NEW k, HasKey(keyFile, k)
      PROVE  HasKey(WriteToken(keyFile, t), k) /\ HasKey(EndLine(keyFile), k)
  <2>1. CASE \E n \in 1..Len(keyFile.lines) : \E i \in 1..Len(keyFile.lines[n]) : keyFile.lines[n][i].key = k
    <3>1. PICK n \in 1..Len(keyFile.lines) : \E i \in 1..Len(keyFile.lines[n]) : keyFile.lines[n][i].key = k
      BY <2>1
    <3>2. n \in 1..Len(EndLine(keyFile).lines) /\ EndLine(keyFile).lines[n] = keyFile.lines[n]
      BY <1>5, <1>6
    <3> QED BY <1>3, <3>1, <3>2 DEF HasKey
  <2>2. CASE \E i \in 1..Len(keyFile.tail) : keyFile.tail[i].key = k
    <3>1. PICK i \in 1..Len(keyFile.tail) : keyFile.tail[i].key = k
      BY <2>2
    <3>2. i \in 1..Len(WriteToken(keyFile, t).tail) /\ WriteToken(keyFile, t).tail[i].key = k
      BY <1>2, <1>3, <3>1
    <3>3. /\ Len(keyFile.lines) + 1 \in 1..Len(EndLine(keyFile).lines)
          /\ EndLine(keyFile).lines[Len(keyFile.lines) + 1] = keyFile.tail
      BY <1>5, <1>6
    <3> QED BY <3>1, <3>2, <3>3 DEF HasKey
  <2> QED BY <1>8, <2>1, <2>2 DEF HasKey
<1> QED BY <1>4, <1>6, <1>7, <1>8

(* A start that reads the file has every key on it in the table: a line    *)
(* that can be read is one record.                                         *)
LEMMA FileKeysLoaded ==
  ASSUME NEW S, KeyFileShape(S), KeysReadable, NEW k, HasKey(keyFile, k)
  PROVE  k \in DOMAIN KeyTable(WalEvents)
<1>1. keyFile.lines \in Seq(Seq(S)) /\ keyFile.tail \in Seq(S)
  BY DEF KeyFileShape
<1>2. \E n \in 1..Len(LinesRead(keyFile)) : \E i \in 1..Len(KeyLine(n)) :
        KeyLine(n) \in Seq(S) /\ KeyLine(n)[i].key = k
  <2> DEFINE A == Seq(S)
  <2>1. keyFile.lines \in Seq(A) /\ keyFile.tail \in A
    BY <1>1
  <2>2. /\ \A n \in 1..Len(keyFile.lines) :
             n \in 1..Len(LinesRead(keyFile)) /\ KeyLine(n) = keyFile.lines[n] /\ KeyLine(n) \in A
        /\ keyFile.tail # <<>> =>
             /\ Len(keyFile.lines) + 1 \in 1..Len(LinesRead(keyFile))
             /\ KeyLine(Len(keyFile.lines) + 1) = keyFile.tail
    <3> HIDE DEF A
    <3> QED BY <2>1 DEF LinesRead, KeyLine
  <2>3. CASE \E n \in 1..Len(keyFile.lines) : \E i \in 1..Len(keyFile.lines[n]) : keyFile.lines[n][i].key = k
    BY <2>2, <2>3
  <2>4. CASE \E i \in 1..Len(keyFile.tail) : keyFile.tail[i].key = k
    <3>1. keyFile.tail # <<>>
      BY <2>4
    <3> QED BY <2>1, <2>2, <2>4, <3>1
  <2> QED BY <2>3, <2>4 DEF HasKey
<1>3. PICK n \in 1..Len(LinesRead(keyFile)) : \E i \in 1..Len(KeyLine(n)) :
        KeyLine(n) \in Seq(S) /\ KeyLine(n)[i].key = k
  BY <1>2
<1>4. n \in KeyLines
  BY <1>3 DEF KeyLines
<1>5. KeyLine(n)[1].key = k
  BY <1>3, <1>4 DEF KeysReadable
<1> QED BY <1>4, <1>5 DEF KeyTable

(* And the table has no key that is not on the file.                       *)
LEMMA LoadedKeysOnFile ==
  ASSUME NEW S, KeyFileShape(S), KeysReadable, NEW k \in DOMAIN KeyTable(WalEvents)
  PROVE  HasKey(keyFile, k)
<1>1. PICK n \in KeyLines : KeyLine(n)[1].key = k
  BY DEF KeyTable
<1>2. n \in 1..Len(LinesRead(keyFile)) /\ 1 \in 1..Len(KeyLine(n))
  BY DEF KeyLines, KeysReadable
<1>3. \/ n \in 1..Len(keyFile.lines) /\ KeyLine(n) = keyFile.lines[n]
      \/ KeyLine(n) = keyFile.tail
  <2> DEFINE A == Seq(S)
  <2>1. keyFile.lines \in Seq(A) /\ keyFile.tail \in A
    BY DEF KeyFileShape
  <2> HIDE DEF A
  <2> QED BY <1>2, <2>1 DEF LinesRead, KeyLine
<1> QED BY <1>1, <1>2, <1>3 DEF HasKey

(* What a step may do to the file leaves it a file that has its keys.      *)
LEMMA FileKeepsKeys ==
  ASSUME \E S : KeyFileShape(S), NEW t,
         keyFile' \in {keyFile, WriteToken(keyFile, t), EndLine(keyFile)}
  PROVE  /\ \E S : KeyFileShape(S)'
         /\ \A k : HasKey(keyFile, k) => HasKey(keyFile', k)
<1>1. PICK S : KeyFileShape(S)
  OBVIOUS
<1>2. CASE keyFile' = keyFile
  BY <1>1, <1>2 DEF KeyFileShape
<1>3. CASE keyFile' = WriteToken(keyFile, t)
  <2>1. KeyFileShape(S \cup {t})'
    BY <1>1, <1>3, FileGrows DEF KeyFileShape
  <2> QED BY <1>1, <1>3, <2>1, FileGrows
<1>4. CASE keyFile' = EndLine(keyFile)
  <2>1. KeyFileShape(S)'
    BY <1>1, <1>4, FileGrows DEF KeyFileShape
  <2> QED BY <1>1, <1>4, <2>1, FileGrows
<1> QED BY <1>2, <1>3, <1>4

(* A request that arrives is late only if its key was answered and is not  *)
(* in the table, which does not happen.                                    *)
LEMMA KeysReceive ==
  ASSUME WriteInv, KeyInv, NEW p \in Client, Receive(p)
  PROVE  KeyInv'
<1>1. PICK c \in Requests, k \in Key \cup {NoKey} :
        KeyHit(p, c, k) \/ KeyConflict(p, c, k) \/ KeyMiss(p, c, k)
  BY DEF Receive
<1>2. up /\ UNCHANGED <<keyFile, up, idempotency, answered>>
  BY <1>1 DEF KeyHit, KeyConflict, KeyMiss, Arrives, disk, memory
<1>3. DOMAIN pc = Client /\ DOMAIN req = Client
  BY DEF WriteInv, Shape
<1>4. NeverLate'
  BY <1>1 DEF KeyHit, KeyConflict, KeyMiss, Arrives, KeyInv, NeverLate, KeysHeld
<1>5. \A q \in Client :
        \/ pc'[q] = pc[q] /\ req'[q] = req[q]
        \/ pc'[q] = "respond" /\ req'[q].key \in DOMAIN idempotency
        \/ pc'[q] = "lock"
  BY <1>1, <1>3 DEF KeyHit, KeyConflict, KeyMiss, Goto, Known
<1>6. KeysHeld'
  BY <1>2, <1>5 DEF KeyInv, KeysHeld
<1>7. \E S : KeyFileShape(S)'
  BY <1>2 DEF KeyInv, KeyFileShape
<1> QED BY <1>4, <1>6, <1>7 DEF KeyInv

(* A key is on the file before it is in the table, and in the table before *)
(* its request is answered.                                                *)
LEMMA KeysContinue ==
  ASSUME WriteInv, KeyInv, NEW p \in Client, Continue(p)
  PROVE  KeyInv'
<1> USE DEF disk, memory, ghosts, Goto, Finish
<1>1. DOMAIN pc = Client /\ DOMAIN req = Client
  BY DEF WriteInv, Shape
<1>2. NeverLate'
  BY DEF Continue, ExecuteCandidate, Reject, AppendDurable, DurableFails, AppendStorage, Publish, WriteKeyRecord, WriteKeyNewline, KeyWriteFails, InsertKey, Respond, KeyInv, NeverLate
<1>3. /\ \E S : KeyFileShape(S)'
      /\ \A k : HasKey(keyFile, k) => HasKey(keyFile', k)
  <2>1. \E t : keyFile' \in {keyFile, WriteToken(keyFile, t), EndLine(keyFile)}
    BY DEF Continue, ExecuteCandidate, Reject, AppendDurable, DurableFails, AppendStorage, Publish, WriteKeyRecord, WriteKeyNewline, KeyWriteFails, InsertKey, Respond
  <2> QED BY <2>1, FileKeepsKeys DEF KeyInv
<1>4. \A q \in Client \ {p} : pc'[q] = pc[q] /\ req'[q] = req[q]
  BY <1>1 DEF Continue, ExecuteCandidate, Reject, AppendDurable, DurableFails, AppendStorage, Publish, WriteKeyRecord, WriteKeyNewline, KeyWriteFails, InsertKey, Respond
<1>5. up' = up
  BY DEF Continue, ExecuteCandidate, Reject, AppendDurable, DurableFails, AppendStorage, Publish, WriteKeyRecord, WriteKeyNewline, KeyWriteFails, InsertKey, Respond
<1>6. CASE WriteKeyRecord(p)
  <2>1. PICK S : KeyFileShape(S)
    BY DEF KeyInv
  <2>2. HasKey(keyFile', req[p].key)
    BY <1>6, <2>1, FileGrows DEF WriteKeyRecord, KeyRecord
  <2>3. pc'[p] = "key_newline" /\ UNCHANGED <<req, idempotency, answered>>
    BY <1>1, <1>6 DEF WriteKeyRecord
  <2>4. KeysHeld'
    BY <1>3, <1>4, <1>5, <2>2, <2>3 DEF KeyInv, KeysHeld
  <2> QED BY <1>2, <1>3, <2>4 DEF KeyInv
<1>7. CASE InsertKey(p)
  <2>1. /\ pc[p] = "key_insert" /\ pc'[p] = "respond" /\ UNCHANGED <<req, answered>>
        /\ DOMAIN idempotency' = DOMAIN idempotency \cup {req[p].key}
    BY <1>1, <1>7 DEF InsertKey, Put
  <2>2. KeysHeld'
    BY <1>3, <1>4, <1>5, <2>1 DEF KeyInv, KeysHeld
  <2> QED BY <1>2, <1>3, <2>2 DEF KeyInv
<1>8. CASE Respond(p)
  <2>1. /\ pc[p] = "respond" /\ pc'[p] = "idle" /\ idempotency' = idempotency
        /\ \A a \in answered' : a \in answered \/ a.key = req[p].key
    BY <1>1, <1>8 DEF Respond
  <2>2. req[p].key # NoKey => req[p].key \in DOMAIN idempotency /\ HasKey(keyFile, req[p].key)
    BY <2>1 DEF KeyInv, KeysHeld
  <2>3. KeysHeld'
    BY <1>3, <1>4, <1>5, <2>1, <2>2 DEF KeyInv, KeysHeld
  <2> QED BY <1>2, <1>3, <2>3 DEF KeyInv
<1>9. CASE ~(WriteKeyRecord(p) \/ InsertKey(p) \/ Respond(p))
  <2>1. /\ UNCHANGED <<idempotency, answered>>
        /\ pc'[p] = "respond" => req'[p].key = NoKey
        /\ pc'[p] \in {"key_newline", "key_insert"} => pc[p] = "key_newline" /\ req'[p] = req[p]
    BY <1>1, <1>9 DEF Continue, ExecuteCandidate, Reject, AppendDurable, DurableFails, AppendStorage, Publish, WriteKeyNewline, KeyWriteFails
  <2>2. KeysHeld'
    BY <1>3, <1>4, <1>5, <2>1 DEF KeyInv, KeysHeld
  <2> QED BY <1>2, <1>3, <2>2 DEF KeyInv
<1> QED BY <1>6, <1>7, <1>8, <1>9

(* Every step keeps the keys: a crash loses the table, and a start gets it *)
(* back from the file.                                                     *)
LEMMA KeyInvStep == WriteInv /\ KeyInv /\ [Next]_vars => KeyInv'
<1> SUFFICES ASSUME WriteInv, KeyInv, [Next]_vars PROVE KeyInv'
  OBVIOUS
<1>1. CASE UNCHANGED vars
  BY <1>1 DEF vars, disk, memory, threads, ghosts, KeyInv, KeysHeld, NeverLate, KeyFileShape
<1>2. CASE \E p \in Client : Receive(p) \/ Continue(p)
  BY <1>2, KeysReceive, KeysContinue
<1>3. CASE Crash
  <2>1. \E t : keyFile' \in {keyFile, WriteToken(keyFile, t), EndLine(keyFile)}
    BY <1>3 DEF Crash
  <2>2. /\ \E S : KeyFileShape(S)'
        /\ \A k : HasKey(keyFile, k) => HasKey(keyFile', k)
    BY <2>1, FileKeepsKeys DEF KeyInv
  <2>3. /\ ~up' /\ answered' = answered /\ DOMAIN idempotency' = {}
        /\ \A p \in Client : pc'[p] = "idle"
    BY <1>3 DEF Crash, NoEntries
  <2>4. NeverLate'
    BY <1>3 DEF Crash, NeverLate
  <2>5. KeysHeld'
    BY <2>2, <2>3 DEF KeyInv, KeysHeld
  <2> QED BY <2>2, <2>4, <2>5 DEF KeyInv
<1>4. CASE Start
  <2>1. PICK S : KeyFileShape(S)
    BY DEF KeyInv
  <2>2. /\ UNCHANGED <<keyFile, answered, late, req>>
        /\ \A p \in Client : pc'[p] = "idle"
        /\ idempotency' = KeyTable(WalEvents)
    BY <1>4 DEF Start, disk, threads, ghosts, WriteInv, LockHeld
  <2>3. \A k : HasKey(keyFile, k) => k \in DOMAIN idempotency'
    BY <1>4, <2>1, <2>2, FileKeysLoaded DEF Start
  <2>4. \A k \in DOMAIN idempotency' : HasKey(keyFile, k)
    BY <1>4, <2>1, <2>2, LoadedKeysOnFile DEF Start
  <2>5. KeysHeld'
    BY <2>2, <2>3, <2>4 DEF KeyInv, KeysHeld
  <2>6. KeyFileShape(S)' /\ NeverLate'
    BY <2>1, <2>2 DEF KeyFileShape, KeyInv, NeverLate
  <2> QED BY <2>5, <2>6 DEF KeyInv
<1> QED BY <1>1, <1>2, <1>3, <1>4 DEF Next

(***************************************************************************)
(* A key that was once answered Ok is never executed again, for any number *)
(* of threads, requests, failed writes and crashes, and for any commands   *)
(* sent with it.                                                           *)
(***************************************************************************)
THEOREM AnsweredKeysStay == Spec => []AnsweredKeyNotRerun
<1>1. Init => KeyInv
  <2>1. ASSUME Init PROVE KeyFileShape({})
    BY <2>1 DEF Init, EmptyFile, KeyFileShape
  <2> QED BY <2>1 DEF Init, KeyInv, KeysHeld, NeverLate, NoEntries
<1>2. KeyInv => AnsweredKeyNotRerun
  BY DEF KeyInv, NeverLate, AnsweredKeyNotRerun
<1> QED BY <1>1, <1>2, WriteInvInit, WriteInvStep, KeyInvStep, PTL DEF Spec

-----------------------------------------------------------------------------
(***************************************************************************)
(* What the records on disk lead to.  A durable append that is reported as *)
(* failed after it wrote leaves an event the running process does not      *)
(* know: the process goes on with the same number, and the later of the    *)
(* two events is the one a reader finds under it.  Everything that is read *)
(* back rests on these facts: the state replayed from the file knows all   *)
(* that the state in memory knows, and the number of every record of the   *)
(* idempotency file leads to the event of the command that it is the       *)
(* fingerprint of.                                                         *)
(***************************************************************************)
Underway  == Locking \cup Written
Committed == {"key_record", "key_newline", "key_insert", "respond"}

Replayed == Replay(WalEvents).graph

\* The requests and events are what their types say.
EventsTyped ==
  /\ Durable \subseteq Event
  /\ \A p \in Client :
       /\ pc[p] # "idle" => req[p].cmd \in Command
       /\ pc[p] \in Underway => event[p] \in Event /\ event[p].cmd = req[p].cmd

\* The durable log replays, to no less than the process knows.
WalReplays ==
  /\ Replay(WalEvents).ok /\ IsGraphState(Replayed)
  /\ up => IsGraphState(log.graph) /\ Covers(Replayed, log.graph)
  /\ \A p \in Client : pc[p] \in {"storage", "publish"} =>
       /\ IsGraphState(ApplyEvent(log.graph, event[p]))
       /\ Covers(Replayed, ApplyEvent(log.graph, event[p]))

\* No event of the durable log has a number past its place.
Numbered ==
  /\ \A i \in 1..Len(wal) : wal[i].ev.seq <= i
  /\ up => Len(log.events) <= Len(wal)
  /\ \A p \in Client : pc[p] \in Locking => event[p].seq = Len(log.events) + 1
  /\ \A p \in Client : pc[p] \in {"storage", "publish"} => Len(log.events) + 1 <= Len(wal)

\* The number id leads to an event of the command c.
Leads(evs, id, c) ==
  /\ \E i \in 1..Len(evs) : evs[i].seq = id
  /\ EventById(evs, id).cmd = c

\* The numbers that are in use lead to the right events.
NumbersLead ==
  /\ \A t \in KeyTokens : Leads(WalEvents, t.id, t.fingerprint) /\ (up => t.id <= Len(log.events))
  /\ \A p \in Client :
       /\ pc[p] \in {"storage", "publish", "key_record"} => Leads(WalEvents, event[p].seq, req[p].cmd)
       /\ pc[p] = "key_record" => event[p].seq <= Len(log.events)

\* The table and the threads hold events of the log.
TableServed ==
  /\ \A k \in DOMAIN idempotency :
       /\ idempotency[k].ev \in EventsOf(log)
       /\ idempotency[k].ev.cmd = idempotency[k].fingerprint
  /\ \A p \in Client : pc[p] \in Committed => event[p] \in EventsOf(log)

DiskInv == EventsTyped /\ WalReplays /\ Numbered /\ NumbersLead /\ TableServed

\* As long as no append failed after writing, the durable log is the log.
Replays ==
  /\ up /\ ~failed => Replayed = IF holder # Nobody /\ pc[holder] \in {"storage", "publish"}
                                  THEN ApplyEvent(log.graph, event[holder]) ELSE log.graph
  /\ \A p \in Client : pc[p] = "durable" =>
       event[p] = NextEvent(log, req[p].cmd) /\ Validates(log.graph, req[p].cmd)

Pending == {p \in Client : pc[p] \in {"lock", "durable"}}

Counted ==
  /\ IsFiniteSet(Pending) /\ sent \in Nat /\ sent <= MaxRequests
  /\ Len(wal) + Cardinality(Pending) <= sent

-----------------------------------------------------------------------------
(***************************************************************************)
(* What a step leaves alone.                                               *)
(***************************************************************************)
Quiet(p) ==
  \/ Receive(p) \/ Reject(p) \/ WriteKeyRecord(p) \/ WriteKeyNewline(p)
  \/ KeyWriteFails(p) \/ InsertKey(p) \/ Respond(p)

Locked(p) ==
  \/ ExecuteCandidate(p) \/ AppendDurable(p) \/ DurableFails(p)
  \/ AppendStorage(p) \/ Publish(p)

OthersKept(p) ==
  \A q \in Client \ {p} : pc'[q] = pc[q] /\ req'[q] = req[q] /\ event'[q] = event[q]

\* The thread goes on with the event it has, asks for the lock with a new
\* command, or answers with an event of the table.
GoesOn(p) ==
  \/ pc'[p] = "idle"
  \/ /\ pc[p] \in Committed /\ pc'[p] \in Committed /\ pc'[p] # "key_record"
     /\ req'[p] = req[p] /\ event'[p] = event[p]
  \/ pc'[p] = "lock" /\ req'[p].cmd \in Requests
  \/ /\ pc'[p] = "respond"
     /\ \E k \in DOMAIN idempotency :
          event'[p] = idempotency[k].ev /\ req'[p].cmd = idempotency[k].fingerprint

(* A step without the lock touches neither the durable log nor the log.    *)
LEMMA QuietFrame ==
  ASSUME WriteInv, NEW p \in Client, Quiet(p)
  PROVE  /\ up /\ UNCHANGED <<wal, log, storage, up, failed, holder>>
         /\ pc[p] \notin Locking /\ OthersKept(p) /\ GoesOn(p)
<1> USE DEF disk, memory, ghosts, Goto, Finish
<1>1. DOMAIN pc = Client /\ DOMAIN req = Client /\ DOMAIN event = Client
  BY DEF WriteInv, Shape
<1>2. CASE Receive(p)
  <2>1. PICK c \in Requests, k \in Key \cup {NoKey} :
          KeyHit(p, c, k) \/ KeyConflict(p, c, k) \/ KeyMiss(p, c, k)
    BY <1>2 DEF Receive
  <2>2. /\ up /\ pc[p] = "idle" /\ UNCHANGED <<wal, log, storage, up, failed, holder>>
    BY <2>1 DEF KeyHit, KeyConflict, KeyMiss, Arrives
  <2>3. OthersKept(p)
    BY <1>1, <2>1 DEF KeyHit, KeyConflict, KeyMiss, OthersKept
  <2>4. GoesOn(p)
    <3>1. CASE KeyHit(p, c, k)
      <4>1. /\ pc'[p] = "respond" /\ event'[p] = idempotency[k].ev /\ req'[p].cmd = c
            /\ k \in DOMAIN idempotency /\ idempotency[k].fingerprint = c
        BY <1>1, <3>1 DEF KeyHit, Known
      <4> QED BY <4>1 DEF GoesOn
    <3>2. CASE KeyConflict(p, c, k)
      BY <2>2, <3>2 DEF KeyConflict, GoesOn
    <3>3. CASE KeyMiss(p, c, k)
      <4>1. pc'[p] = "lock" /\ req'[p].cmd = c
        BY <1>1, <3>3 DEF KeyMiss
      <4> QED BY <4>1 DEF GoesOn
    <3> QED BY <2>1, <3>1, <3>2, <3>3
  <2> QED BY <2>2, <2>3, <2>4 DEF Locking
<1>3. CASE ~Receive(p)
  <2>1. /\ pc[p] \in {"lock", "key_record", "key_newline", "key_insert", "respond"}
        /\ UNCHANGED <<wal, log, storage, up, failed, holder>>
    BY <1>3 DEF Quiet, Reject, WriteKeyRecord, WriteKeyNewline, KeyWriteFails, InsertKey, Respond
  <2>2. up
    BY <2>1 DEF WriteInv, Shape, LockHeld
  <2>3. OthersKept(p)
    BY <1>1, <1>3 DEF Quiet, Reject, WriteKeyRecord, WriteKeyNewline, KeyWriteFails, InsertKey, Respond, OthersKept
  <2>4. GoesOn(p)
    <3>1. CASE Reject(p) \/ KeyWriteFails(p) \/ Respond(p)
      BY <1>1, <3>1 DEF Reject, KeyWriteFails, Respond, GoesOn
    <3>2. CASE WriteKeyRecord(p) \/ WriteKeyNewline(p) \/ InsertKey(p)
      BY <1>1, <3>2 DEF WriteKeyRecord, WriteKeyNewline, InsertKey, GoesOn, Committed
    <3> QED BY <1>3, <3>1, <3>2 DEF Quiet
  <2> QED BY <2>1, <2>2, <2>3, <2>4 DEF Locking
<1> QED BY <1>2, <1>3

(* A step with the lock is taken by the only thread that has it.           *)
LEMMA LockedFrame ==
  ASSUME WriteInv, NEW p \in Client, Locked(p)
  PROVE  /\ up /\ UNCHANGED <<up, keyFile, idempotency, answered>>
         /\ OthersKept(p)
         /\ \A q \in Client \ {p} : pc[q] \notin Locking
         /\ p # Nobody
<1> USE DEF disk, memory, ghosts, Goto, Finish
<1>1. DOMAIN pc = Client /\ DOMAIN req = Client /\ DOMAIN event = Client
  BY DEF WriteInv, Shape
<1>2. UNCHANGED <<up, keyFile, idempotency, answered>>
  BY DEF Locked, ExecuteCandidate, AppendDurable, DurableFails, AppendStorage, Publish
<1>3. pc[p] # "idle" /\ (pc[p] \in Locking \/ holder = Nobody)
  BY DEF Locked, Locking, ExecuteCandidate, AppendDurable, DurableFails, AppendStorage, Publish
<1>4. up
  BY <1>3 DEF WriteInv, Shape, LockHeld
<1>5. (\A q \in Client \ {p} : pc[q] \notin Locking) /\ p # Nobody
  BY <1>3, ApiAssumption DEF WriteInv, LockHeld, ApiAssumption
<1>6. OthersKept(p)
  <2>1. /\ \E s : pc' = [pc EXCEPT ![p] = s]
        /\ req' = req \/ \E r : req' = [req EXCEPT ![p] = r]
        /\ event' = event \/ \E e : event' = [event EXCEPT ![p] = e]
    BY DEF Locked, ExecuteCandidate, AppendDurable, DurableFails, AppendStorage, Publish
  <2> QED BY <1>1, <2>1 DEF OthersKept
<1> QED BY <1>2, <1>4, <1>5, <1>6

(* Every step of a thread is the one or the other.                         *)
LEMMA StepKinds ==
  Next => Crash \/ Start \/ \E p \in Client : Quiet(p) \/ Locked(p)
  BY DEF Next, Continue, Quiet, Locked

-----------------------------------------------------------------------------
(***************************************************************************)
(* Requests and events.                                                    *)
(***************************************************************************)

(* The event of a command is an event.                                     *)
LEMMA MadeEventType ==
  ASSUME WriteInv, Durable \subseteq Event, NEW c \in Command
  PROVE  NextEvent(log, c) \in Event /\ NextEvent(log, c).cmd = c
<1>1. log.events \in Seq(Event)
  BY DEF WriteInv, Shape
<1>2. Len(log.events) + 1 \in Nat /\ Before(log.events) + 1 \in Int
  <2>1. log.events = <<>> \/ log.events[Len(log.events)] \in Event
    BY <1>1
  <2> QED BY <1>1, <2>1 DEF Before, Event
<1> QED BY <1>2 DEF NextEvent, EventOf, Event

(* What the durable log holds is what it held, and the event that a        *)
(* durable append carries.                                                 *)
LEMMA DurableAfter ==
  ASSUME WriteInv, NEW p \in Client, Locked(p)
  PROVE  /\ \/ wal' = wal /\ Durable' = Durable /\ WalEvents' = WalEvents
            \/ /\ pc[p] = "durable" /\ Durable' = Durable \cup {event[p]}
               /\ WalEvents' = Append(WalEvents, event[p])
               /\ wal' = Append(wal, [ev |-> event[p], key |-> req[p].key])
         /\ AppendDurable(p) => wal' = Append(wal, [ev |-> event[p], key |-> req[p].key])
         /\ Publish(p) \/ AppendStorage(p) \/ ExecuteCandidate(p) => wal' = wal
<1> USE DEF disk
<1>1. /\ wal' = wal \/ (pc[p] = "durable" /\ wal' = Append(wal, [ev |-> event[p], key |-> req[p].key]))
      /\ AppendDurable(p) => wal' = Append(wal, [ev |-> event[p], key |-> req[p].key])
      /\ Publish(p) \/ AppendStorage(p) \/ ExecuteCandidate(p) => wal' = wal
  BY DEF Locked, ExecuteCandidate, AppendDurable, DurableFails, AppendStorage, Publish
<1>2. wal' = wal => Durable' = Durable /\ WalEvents' = WalEvents
  BY WalStays
<1>3. wal' = Append(wal, [ev |-> event[p], key |-> req[p].key])
        => Durable' = Durable \cup {event[p]} /\ WalEvents' = Append(WalEvents, event[p])
  <2>1. PICK S : wal \in Seq(S)
    BY DEF WriteInv, Shape
  <2> QED BY <2>1, WalGrows
<1> QED BY <1>1, <1>2, <1>3

(* A thread carries the event of its request.                              *)
LEMMA TypedStep ==
  ASSUME WriteInv, EventsTyped, TableServed, NEW p \in Client, Quiet(p) \/ Locked(p)
  PROVE  EventsTyped'
<1>1. CASE Quiet(p)
  <2>1. OthersKept(p) /\ GoesOn(p) /\ wal' = wal
    BY <1>1, QuietFrame
  <2>2. Durable' = Durable
    BY <2>1, WalStays
  <2>3. \A k \in DOMAIN idempotency :
          idempotency[k].ev \in Event /\ idempotency[k].ev.cmd = idempotency[k].fingerprint
                                      /\ idempotency[k].ev.cmd \in Command
    <3>1. \A e \in Event : e.cmd \in Command
      BY DEF Event
    <3>2. \A k \in DOMAIN idempotency : idempotency[k].ev \in Event
      BY DEF WriteInv, PastIsDurable, EventsTyped
    <3> QED BY <3>1, <3>2 DEF TableServed
  <2>4. /\ pc'[p] # "idle" => req'[p].cmd \in Command
        /\ pc'[p] \in Underway => event'[p] \in Event /\ event'[p].cmd = req'[p].cmd
    <3>1. CASE pc'[p] = "idle"
      BY <3>1 DEF Underway, Locking, Written
    <3>2. CASE pc[p] \in Committed /\ req'[p] = req[p] /\ event'[p] = event[p]
      BY <3>2 DEF Committed, Underway, Written, EventsTyped
    <3>3. CASE pc'[p] = "lock" /\ req'[p].cmd \in Requests
      BY <3>3, ApiAssumption DEF ApiAssumption, Underway, Locking, Written
    <3>4. CASE \E k \in DOMAIN idempotency :
                 event'[p] = idempotency[k].ev /\ req'[p].cmd = idempotency[k].fingerprint
      BY <2>3, <3>4
    <3> QED BY <2>1, <3>1, <3>2, <3>3, <3>4 DEF GoesOn
  <2> QED BY <2>1, <2>2, <2>4 DEF EventsTyped, OthersKept
<1>2. CASE Locked(p)
  <2> USE DEF Goto, Finish
  <2>1. OthersKept(p) /\ DOMAIN pc = Client /\ DOMAIN event = Client
    BY <1>2, LockedFrame DEF WriteInv, Shape
  <2>2. Durable' \subseteq Durable \cup (IF pc[p] = "durable" THEN {event[p]} ELSE {})
    BY <1>2, DurableAfter
  <2>3. Durable' \subseteq Event
    BY <2>2 DEF EventsTyped, Underway, Locking
  <2>4. /\ pc'[p] # "idle" => req'[p].cmd \in Command
        /\ pc'[p] \in Underway => event'[p] \in Event /\ event'[p].cmd = req'[p].cmd
    <3>1. CASE ExecuteCandidate(p)
      <4>1. /\ req' = req /\ event'[p] = NextEvent(log, req[p].cmd) /\ req[p].cmd \in Command
        BY <2>1, <3>1 DEF ExecuteCandidate, EventsTyped
      <4> QED BY <4>1, MadeEventType DEF EventsTyped
    <3>2. CASE AppendDurable(p) \/ AppendStorage(p) \/ Publish(p)
      <4>1. pc[p] \in Underway /\ (pc'[p] = "idle" \/ (req' = req /\ event' = event))
        BY <2>1, <3>2 DEF AppendDurable, AppendStorage, Publish, Underway, Locking
      <4> QED BY <4>1 DEF EventsTyped, Underway, Locking, Written
    <3>3. CASE DurableFails(p)
      <4>1. pc'[p] = "idle"
        BY <2>1, <3>3 DEF DurableFails
      <4> QED BY <4>1 DEF Underway, Locking, Written
    <3> QED BY <1>2, <3>1, <3>2, <3>3 DEF Locked
  <2> QED BY <2>1, <2>3, <2>4 DEF EventsTyped, OthersKept
<1> QED BY <1>1, <1>2

-----------------------------------------------------------------------------
(***************************************************************************)
(* What replays.                                                           *)
(***************************************************************************)

(* A durable append of an event that applies to the log applies to the     *)
(* state replayed from the file, which goes on from it.                    *)
LEMMA AppendReplays ==
  ASSUME WriteInv, EventsTyped, WalReplays, CarriedApplies, NEW p \in Client, up,
         pc[p] = "durable", WalEvents' = Append(WalEvents, event[p])
  PROVE  /\ Replay(WalEvents)'.ok /\ IsGraphState(Replayed')
         /\ Replayed' = ApplyEvent(Replayed, event[p])
         /\ Covers(Replayed', log.graph)
         /\ Covers(Replayed', ApplyEvent(log.graph, event[p]))
         /\ IsGraphState(ApplyEvent(log.graph, event[p]))
<1>1. event[p] \in Event
  BY DEF EventsTyped, Underway, Locking
<1>2. Applicable(log.graph, event[p].cmd)
  BY DEF CarriedApplies
<1>3. /\ IsGraphState(log.graph) /\ IsGraphState(Replayed) /\ Covers(Replayed, log.graph)
      /\ Replay(WalEvents).ok
  BY DEF WalReplays
<1>4. Applicable(Replayed, event[p].cmd)
  BY <1>2, <1>3, ApplicableUpward
<1>5. WalEvents \in Seq(Durable)
  BY WalEventsType DEF WriteInv, Shape
<1>6. Replay(WalEvents)' = [ok |-> TRUE, graph |-> ApplyEvent(Replayed, event[p])]
  <2>1. Replay(Append(WalEvents, event[p])) =
          [ok |-> TRUE, graph |-> ApplyEvent(Replay(WalEvents).graph, event[p])]
    BY <1>3, <1>4, <1>5, ReplayUnfolds DEF Replayed
  <2> QED BY <2>1 DEF Replayed
<1>7. Replayed' = ApplyEvent(Replayed, event[p]) /\ Replay(WalEvents)'.ok
  BY <1>6 DEF Replayed
<1> QED BY <1>1, <1>2, <1>3, <1>4, <1>7, ApplyType, ApplyCovers

(* The state that the file replays to knows what the process knows.        *)
LEMMA ReplaysStep ==
  ASSUME WriteInv, WriteInv', EventsTyped, WalReplays, CopyInv,
         NEW p \in Client, Quiet(p) \/ Locked(p)
  PROVE  WalReplays'
<1> USE DEF disk, memory, ghosts, Goto, Finish
<1>0. DOMAIN pc = Client /\ DOMAIN event = Client
  BY DEF WriteInv, Shape
<1>1. CASE Quiet(p)
  <2>1. /\ OthersKept(p) /\ pc'[p] \notin {"storage", "publish"}
        /\ UNCHANGED <<wal, log, up>>
    BY <1>1, QuietFrame DEF GoesOn, Committed
  <2>2. WalEvents' = WalEvents
    BY <2>1, WalStays
  <2> QED BY <2>1, <2>2 DEF WalReplays, Replayed, OthersKept
<1>2. CASE Locked(p)
  <2>1. /\ OthersKept(p) /\ up /\ up' = up /\ \A q \in Client \ {p} : pc'[q] \notin Locking
    BY <1>2, LockedFrame DEF OthersKept
  <2>2. CASE ExecuteCandidate(p)
    <3>1. pc'[p] = "durable" /\ wal' = wal /\ log' = log
      BY <1>0, <2>2 DEF ExecuteCandidate
    <3>2. WalEvents' = WalEvents
      BY <3>1, WalStays
    <3> QED BY <2>1, <3>1, <3>2 DEF WalReplays, Replayed, Locking
  <2>3. CASE AppendDurable(p)
    <3>1. /\ pc[p] = "durable" /\ pc'[p] = "storage" /\ event' = event /\ log' = log
          /\ WalEvents' = Append(WalEvents, event[p])
      BY <1>0, <1>2, <2>3, DurableAfter, WalGrows DEF AppendDurable, WriteInv, Shape
    <3>2. /\ Replay(WalEvents)'.ok /\ IsGraphState(Replayed')
          /\ Covers(Replayed', log.graph)
          /\ Covers(Replayed', ApplyEvent(log.graph, event[p]))
          /\ IsGraphState(ApplyEvent(log.graph, event[p]))
      BY <2>1, <3>1, AppendReplays DEF CopyInv
    <3> QED BY <2>1, <3>1, <3>2 DEF WalReplays, Replayed, Locking
  <2>4. CASE DurableFails(p)
    <3>1. pc[p] = "durable" /\ pc'[p] = "idle" /\ log' = log
      BY <1>0, <2>4 DEF DurableFails
    <3>2. CASE WalEvents' = WalEvents
      BY <2>1, <3>1, <3>2 DEF WalReplays, Replayed, Locking
    <3>3. CASE WalEvents' = Append(WalEvents, event[p])
      <4>1. /\ Replay(WalEvents)'.ok /\ IsGraphState(Replayed') /\ Covers(Replayed', log.graph)
        BY <2>1, <3>1, <3>3, AppendReplays DEF CopyInv
      <4> QED BY <2>1, <3>1, <4>1 DEF WalReplays, Replayed, Locking
    <3> QED BY <1>2, <3>2, <3>3, DurableAfter
  <2>5. CASE AppendStorage(p)
    <3>1. /\ pc[p] = "storage" /\ pc'[p] \in {"publish", "idle"} /\ wal' = wal /\ log' = log
          /\ pc'[p] = "publish" => event'[p] = event[p]
      BY <1>0, <2>5 DEF AppendStorage
    <3>2. WalEvents' = WalEvents
      BY <3>1, WalStays
    <3> QED BY <2>1, <3>1, <3>2 DEF WalReplays, Replayed, Locking
  <2>6. CASE Publish(p)
    <3>1. /\ pc[p] = "publish" /\ pc'[p] \in {"respond", "key_record"} /\ wal' = wal
          /\ log' = Applied(log, event[p])
      BY <1>0, <2>6 DEF Publish
    <3>2. WalEvents' = WalEvents
      BY <3>1, WalStays
    <3>3. log'.graph = ApplyEvent(log.graph, event[p])
      BY <3>1 DEF Applied
    <3> QED BY <2>1, <3>1, <3>2, <3>3 DEF WalReplays, Replayed, Locking
  <2> QED BY <1>2, <2>2, <2>3, <2>4, <2>5, <2>6 DEF Locked
<1> QED BY <1>1, <1>2

-----------------------------------------------------------------------------
(***************************************************************************)
(* What is found in the files.                                             *)
(***************************************************************************)

(* The event found under a number is the last one that has it.             *)
LEMMA FoundLast ==
  ASSUME NEW T, NEW evs \in Seq(T), NEW e, NEW id
  PROVE  /\ e.seq = id => EventById(Append(evs, e), id) = e
         /\ e.seq # id /\ (\E i \in 1..Len(evs) : evs[i].seq = id)
              => EventById(Append(evs, e), id) = EventById(evs, id)
<1> DEFINE longer == Append(evs, e)
           is == {i \in 1..Len(evs) : evs[i].seq = id}
           js == {i \in 1..Len(longer) : longer[i].seq = id}
<1>1. /\ Len(evs) \in Nat /\ Len(longer) = Len(evs) + 1
      /\ \A i \in 1..Len(evs) : longer[i] = evs[i]
      /\ longer[Len(evs) + 1] = e
  BY AppendAny
<1>2. EventById(longer, id) = longer[Max(js)] /\ EventById(evs, id) = evs[Max(is)]
  BY DEF EventById
<1>3. PICK last \in Nat : last = Len(evs) + 1
  BY <1>1
<1>6. js \in SUBSET (1..last) /\ is \in SUBSET (1..Len(evs))
  BY <1>1, <1>3
<1>4. CASE e.seq = id
  <2>1. last \in js
    <3> HIDE DEF longer
    <3> QED BY <1>1, <1>3, <1>4
  <2> HIDE DEF js, is
  <2>2. Max(js) \in js /\ Max(js) >= last
    BY <1>6, <2>1, MaxInside
  <2>3. Max(js) \in 1..last
    BY <1>6, <2>2
  <2>4. Max(js) = Len(evs) + 1
    BY <1>3, <2>2, <2>3
  <2> QED BY <1>1, <1>2, <1>4, <2>4
<1>5. CASE e.seq # id /\ is # {}
  <2>1. js = is
    <3> HIDE DEF longer
    <3> QED BY <1>1, <1>5
  <2> HIDE DEF js, is
  <2>2. Max(is) \in is
    BY <1>1, <1>6, <1>5, MaxInside
  <2>3. longer[Max(is)] = evs[Max(is)]
    BY <1>1, <1>6, <2>2
  <2> QED BY <1>2, <1>5, <2>1, <2>3
<1> QED BY <1>2, <1>4, <1>5

(* One more event leads its number to itself, and changes what no other    *)
(* number leads to.                                                        *)
LEMMA LeadsOn ==
  ASSUME NEW T, NEW evs \in Seq(T), NEW e
  PROVE  /\ Leads(Append(evs, e), e.seq, e.cmd)
         /\ \A id, c : id # e.seq /\ Leads(evs, id, c) => Leads(Append(evs, e), id, c)
<1> DEFINE longer == Append(evs, e)
<1>1. /\ Len(evs) \in Nat /\ Len(longer) = Len(evs) + 1
      /\ \A i \in 1..Len(evs) : longer[i] = evs[i]
      /\ longer[Len(evs) + 1] = e
  BY AppendAny
<1>2. Leads(longer, e.seq, e.cmd)
  <2>1. EventById(longer, e.seq) = e
    BY FoundLast
  <2> HIDE DEF longer
  <2> QED BY <1>1, <2>1 DEF Leads
<1>3. ASSUME NEW id, NEW c, id # e.seq, Leads(evs, id, c)
      PROVE  Leads(longer, id, c)
  <2>1. PICK i \in 1..Len(evs) : evs[i].seq = id
    BY <1>3 DEF Leads
  <2>2. EventById(longer, id) = EventById(evs, id)
    BY <1>3, <2>1, FoundLast
  <2> HIDE DEF longer
  <2> QED BY <1>1, <1>3, <2>1, <2>2 DEF Leads
<1> QED BY <1>2, <1>3

\* The token t is somewhere in the file.
HasToken(f, t) ==
  \/ \E n \in 1..Len(f.lines) : \E i \in 1..Len(f.lines[n]) : f.lines[n][i] = t
  \/ \E i \in 1..Len(f.tail) : f.tail[i] = t

TokensOf(f) ==
  (UNION {{LinesRead(f)[n][i] : i \in 1..Len(LinesRead(f)[n])} :
            n \in 1..Len(LinesRead(f))}) \ {Torn}

(* The tokens that are read are those of the file but the torn ones.       *)
LEMMA TokensAre ==
  ASSUME NEW S, NEW f \in [lines : Seq(Seq(S)), tail : Seq(S)], NEW t
  PROVE  t \in TokensOf(f) <=> t # Torn /\ HasToken(f, t)
<1> DEFINE A == Seq(S)
<1>1. f.lines \in Seq(A) /\ f.tail \in A
  OBVIOUS
<1>2. t \in TokensOf(f) <=> t # Torn /\ \E n \in 1..Len(LinesRead(f)) :
                              \E i \in 1..Len(LinesRead(f)[n]) : LinesRead(f)[n][i] = t
  <2> DEFINE L == LinesRead(f)
             On(n) == {L[n][i] : i \in 1..Len(L[n])}
             all == UNION {On(n) : n \in 1..Len(L)}
  <2> HIDE DEF L
  <2>1. \A n : t \in On(n) <=> \E i \in 1..Len(L[n]) : L[n][i] = t
    OBVIOUS
  <2>2. t \in all <=> \E n \in 1..Len(L) : t \in On(n)
    <3> HIDE DEF On
    <3> QED OBVIOUS
  <2>3. TokensOf(f) = all \ {Torn}
    BY Zenon DEF TokensOf, L
  <2>4. t \in TokensOf(f) <=> t # Torn /\ \E n \in 1..Len(L) : \E i \in 1..Len(L[n]) : L[n][i] = t
    <3> HIDE DEF all, On
    <3>1. t \in TokensOf(f) <=> t # Torn /\ t \in all
      BY <2>3
    <3> QED BY <2>1, <2>2, <3>1
  <2> QED BY <2>4 DEF L
<1>3. CASE f.tail = <<>>
  <2>1. LinesRead(f) = f.lines /\ Len(f.tail) = 0
    BY <1>3 DEF LinesRead
  <2> QED BY <1>2, <2>1 DEF HasToken
<1>4. CASE f.tail # <<>>
  <2>1. /\ Len(f.lines) \in Nat /\ Len(LinesRead(f)) = Len(f.lines) + 1
        /\ \A n \in 1..Len(f.lines) : LinesRead(f)[n] = f.lines[n]
        /\ LinesRead(f)[Len(f.lines) + 1] = f.tail
    <3> HIDE DEF A
    <3> QED BY <1>1, <1>4, AppendAny DEF LinesRead
  <2>2. (\E n \in 1..Len(LinesRead(f)) : \E i \in 1..Len(LinesRead(f)[n]) : LinesRead(f)[n][i] = t)
          <=> HasToken(f, t)
    <3>1. 1..Len(LinesRead(f)) = 1..Len(f.lines) \cup {Len(f.lines) + 1}
      BY <2>1
    <3> QED BY <2>1, <3>1 DEF HasToken
  <2> QED BY <1>2, <2>2
<1> QED BY <1>3, <1>4

(* Writing a token adds that token and no other, and the end of a line     *)
(* adds none.                                                              *)
LEMMA TokensGrow ==
  ASSUME \E S : KeyFileShape(S), NEW t
  PROVE  /\ keyFile' = keyFile => KeyTokens' = KeyTokens
         /\ keyFile' = WriteToken(keyFile, t) => KeyTokens' \subseteq KeyTokens \cup {t}
         /\ keyFile' = WriteToken(keyFile, Torn) => KeyTokens' \subseteq KeyTokens
         /\ keyFile' = EndLine(keyFile) => KeyTokens' \subseteq KeyTokens
<1>1. PICK S : KeyFileShape(S)
  OBVIOUS
<1>2. KeyTokens = TokensOf(keyFile) /\ KeyTokens' = TokensOf(keyFile')
  BY DEF KeyTokens, TokensOf
<1>3. keyFile.lines \in Seq(Seq(S)) /\ keyFile.tail \in Seq(S)
  BY <1>1 DEF KeyFileShape
<1>4. ASSUME NEW s
      PROVE  TokensOf(WriteToken(keyFile, s)) \subseteq KeyTokens \cup ({s} \ {Torn})
  <2>1. WriteToken(keyFile, s) \in [lines : Seq(Seq(S \cup {s})), tail : Seq(S \cup {s})]
    BY <1>1, FileGrows
  <2>2. /\ WriteToken(keyFile, s).lines = keyFile.lines
        /\ WriteToken(keyFile, s).tail = Append(keyFile.tail, s)
    BY <1>1 DEF KeyFileShape, WriteToken
  <2>3. /\ Len(Append(keyFile.tail, s)) = Len(keyFile.tail) + 1
        /\ Len(keyFile.tail) \in Nat
        /\ \A i \in 1..Len(keyFile.tail) : Append(keyFile.tail, s)[i] = keyFile.tail[i]
        /\ Append(keyFile.tail, s)[Len(keyFile.tail) + 1] = s
    BY <1>3, AppendAny
  <2>4. ASSUME NEW u, HasToken(WriteToken(keyFile, s), u), u # s
        PROVE  HasToken(keyFile, u)
    <3>1. 1..Len(Append(keyFile.tail, s)) = 1..Len(keyFile.tail) \cup {Len(keyFile.tail) + 1}
      BY <2>3
    <3> QED BY <2>2, <2>3, <2>4, <3>1 DEF HasToken
  <2>5. \A u : u \in TokensOf(WriteToken(keyFile, s)) <=> u # Torn /\ HasToken(WriteToken(keyFile, s), u)
    BY <2>1, TokensAre
  <2>6. \A u : u \in TokensOf(keyFile) <=> u # Torn /\ HasToken(keyFile, u)
    BY <1>1, TokensAre DEF KeyFileShape
  <2> QED BY <1>2, <2>4, <2>5, <2>6
<1>5. TokensOf(EndLine(keyFile)) \subseteq KeyTokens
  <2>1. EndLine(keyFile) \in [lines : Seq(Seq(S)), tail : Seq(S)]
    BY <1>1, FileGrows
  <2>2. EndLine(keyFile).lines = Append(keyFile.lines, keyFile.tail) /\ EndLine(keyFile).tail = <<>>
    BY DEF EndLine
  <2>3. /\ Len(Append(keyFile.lines, keyFile.tail)) = Len(keyFile.lines) + 1
        /\ Len(keyFile.lines) \in Nat
        /\ \A n \in 1..Len(keyFile.lines) : Append(keyFile.lines, keyFile.tail)[n] = keyFile.lines[n]
        /\ Append(keyFile.lines, keyFile.tail)[Len(keyFile.lines) + 1] = keyFile.tail
    <3> DEFINE A == Seq(S)
    <3>1. keyFile.lines \in Seq(A)
      BY <1>3
    <3> HIDE DEF A
    <3> QED BY <3>1, AppendAny
  <2>4. ASSUME NEW u, HasToken(EndLine(keyFile), u)
        PROVE  HasToken(keyFile, u)
    <3>1. 1..Len(Append(keyFile.lines, keyFile.tail)) = 1..Len(keyFile.lines) \cup {Len(keyFile.lines) + 1}
      BY <2>3
    <3>2. Len(EndLine(keyFile).tail) = 0
      BY <2>2
    <3>3. PICK n \in 1..Len(EndLine(keyFile).lines) :
            \E i \in 1..Len(EndLine(keyFile).lines[n]) : EndLine(keyFile).lines[n][i] = u
      BY <2>4, <3>2 DEF HasToken
    <3> QED BY <2>2, <2>3, <3>1, <3>3 DEF HasToken
  <2>5. \A u : u \in TokensOf(EndLine(keyFile)) <=> u # Torn /\ HasToken(EndLine(keyFile), u)
    BY <2>1, TokensAre
  <2>6. \A u : u \in TokensOf(keyFile) <=> u # Torn /\ HasToken(keyFile, u)
    BY <1>1, TokensAre DEF KeyFileShape
  <2> QED BY <1>2, <2>4, <2>5, <2>6
<1>6. keyFile' = WriteToken(keyFile, Torn) => KeyTokens' \subseteq KeyTokens
  BY <1>2, <1>4
<1> QED BY <1>2, <1>4, <1>5, <1>6

-----------------------------------------------------------------------------
(***************************************************************************)
(* The numbers, and what they lead to.                                     *)
(***************************************************************************)

(* The sizes of the log and of the durable log are numbers, and durable    *)
(* events are numbered by numbers.                                         *)
LEMMA Sizes ==
  ASSUME WriteInv, EventsTyped
  PROVE  /\ Len(wal) \in Nat /\ Len(log.events) \in Nat
         /\ \A i \in 1..Len(wal) : wal[i].ev \in Durable /\ wal[i].ev.seq \in Nat
         /\ WalEvents \in Seq(Durable) /\ Len(WalEvents) = Len(wal)
         /\ \A id, c : Leads(WalEvents, id, c) => id \in Nat
<1>1. Len(wal) \in Nat /\ Len(log.events) \in Nat
  BY DEF WriteInv, Shape
<1>2. \A i \in 1..Len(wal) : wal[i].ev \in Durable
  BY DEF Durable
<1>3. \A i \in 1..Len(wal) : wal[i].ev.seq \in Nat
  BY <1>2 DEF EventsTyped, Event
<1>4. WalEvents \in Seq(Durable) /\ Len(WalEvents) = Len(wal)
  BY WalEventsType DEF WriteInv, Shape
<1>5. \A i \in 1..Len(WalEvents) : WalEvents[i].seq \in Nat
  BY <1>4 DEF EventsTyped, Event
<1> QED BY <1>1, <1>2, <1>3, <1>4, <1>5 DEF Leads

(* The steps of the thread with the lock, one by one.                      *)
LEMMA LockedCases ==
  ASSUME WriteInv, NEW p \in Client, Locked(p)
  PROVE  \/ /\ pc[p] = "lock" /\ pc'[p] = "durable" /\ wal' = wal /\ log' = log
            /\ event'[p] = NextEvent(log, req[p].cmd) /\ req' = req
         \/ /\ pc[p] = "durable" /\ pc'[p] \in {"storage", "idle"} /\ log' = log
            /\ wal' = Append(wal, [ev |-> event[p], key |-> req[p].key])
            /\ WalEvents' = Append(WalEvents, event[p])
            /\ pc'[p] = "storage" => event' = event /\ req' = req
         \/ /\ pc[p] = "durable" /\ pc'[p] = "idle" /\ wal' = wal /\ log' = log
         \/ /\ pc[p] = "storage" /\ pc'[p] \in {"publish", "idle"} /\ wal' = wal /\ log' = log
            /\ pc'[p] = "publish" => event' = event /\ req' = req
         \/ /\ pc[p] = "publish" /\ pc'[p] \in {"respond", "key_record"} /\ wal' = wal
            /\ log' = Applied(log, event[p]) /\ event' = event /\ req' = req
<1> USE DEF disk, memory, ghosts, Goto, Finish
<1>1. DOMAIN pc = Client /\ DOMAIN req = Client /\ DOMAIN event = Client
  BY DEF WriteInv, Shape
<1>2. wal' = Append(wal, [ev |-> event[p], key |-> req[p].key]) => WalEvents' = Append(WalEvents, event[p])
  <2>1. PICK S : wal \in Seq(S)
    BY DEF WriteInv, Shape
  <2> QED BY <2>1, WalGrows
<1>3. CASE ExecuteCandidate(p)
  BY <1>1, <1>3 DEF ExecuteCandidate
<1>4. CASE AppendDurable(p)
  BY <1>1, <1>2, <1>4 DEF AppendDurable
<1>5. CASE DurableFails(p)
  BY <1>1, <1>2, <1>5 DEF DurableFails
<1>6. CASE AppendStorage(p)
  BY <1>1, <1>6 DEF AppendStorage
<1>7. CASE Publish(p)
  BY <1>1, <1>7 DEF Publish
<1> QED BY <1>3, <1>4, <1>5, <1>6, <1>7 DEF Locked

(* Publishing an event makes the log one longer, and it is in it.          *)
LEMMA PublishedLog ==
  ASSUME WriteInv, NEW e, log' = Applied(log, e)
  PROVE  /\ Len(log'.events) = Len(log.events) + 1
         /\ EventsOf(log') = EventsOf(log) \cup {e}
<1>1. log.events \in Seq(Durable)
  BY DEF WriteInv, Shape
<1>2. log'.events = Append(log.events, e)
  BY DEF Applied
<1>3. /\ Len(log'.events) = Len(log.events) + 1 /\ Len(log.events) \in Nat
      /\ \A i \in 1..Len(log.events) : log'.events[i] = log.events[i]
      /\ log'.events[Len(log.events) + 1] = e
  BY <1>1, <1>2, AppendAny
<1>4. 1..Len(log'.events) = 1..Len(log.events) \cup {Len(log.events) + 1}
  BY <1>3
<1> QED BY <1>3, <1>4 DEF EventsOf

(* A durable event has a number that is not past its place: the log that   *)
(* numbers it is no longer than the durable log.                           *)
LEMMA NumberedStep ==
  ASSUME WriteInv, EventsTyped, Numbered, NEW p \in Client, Quiet(p) \/ Locked(p)
  PROVE  Numbered'
<1>1. CASE Quiet(p)
  <2>1. /\ up /\ UNCHANGED <<wal, log, up>> /\ OthersKept(p) /\ pc'[p] \notin Locking
    BY <1>1, QuietFrame DEF GoesOn, Committed, Locking
  <2> QED BY <2>1 DEF Numbered, OthersKept, Locking
<1>2. CASE Locked(p)
  <2>1. up /\ OthersKept(p) /\ \A q \in Client \ {p} : pc'[q] \notin Locking
    BY <1>2, LockedFrame DEF OthersKept
  <2>2. /\ Len(wal) \in Nat /\ Len(log.events) \in Nat /\ Len(log.events) <= Len(wal)
        /\ \A i \in 1..Len(wal) : wal[i].ev.seq \in Nat
    BY <2>1, Sizes DEF Numbered
  <2>3. CASE pc[p] = "lock"
    <3>1. /\ pc'[p] = "durable" /\ wal' = wal /\ log' = log
          /\ event'[p] = NextEvent(log, req[p].cmd)
      BY <1>2, <2>3, LockedCases
    <3>2. event'[p].seq = Len(log.events) + 1
      BY <3>1 DEF NextEvent, EventOf
    <3> QED BY <2>1, <3>1, <3>2 DEF Numbered, Locking
  <2>4. CASE pc[p] = "durable" /\ wal' = wal
    <3>1. pc'[p] = "idle" /\ log' = log
      <4>1. wal' # Append(wal, [ev |-> event[p], key |-> req[p].key])
        <5> DEFINE r == [ev |-> event[p], key |-> req[p].key]
        <5>1. PICK S : wal \in Seq(S)
          BY DEF WriteInv, Shape
        <5> HIDE DEF r
        <5>2. Len(Append(wal, r)) = Len(wal) + 1
          BY <5>1, AppendAny
        <5>3. wal # Append(wal, r)
          BY <2>2, <5>2
        <5> QED BY <2>4, <5>3 DEF r
      <4> QED BY <1>2, <2>4, <4>1, LockedCases
    <3> QED BY <2>1, <2>4, <3>1 DEF Numbered, Locking
  <2>5. CASE pc[p] = "durable" /\ wal' # wal
    <3>1. /\ pc'[p] \in {"storage", "idle"} /\ log' = log
          /\ wal' = Append(wal, [ev |-> event[p], key |-> req[p].key])
          /\ pc'[p] = "storage" => event' = event
      BY <1>2, <2>5, LockedCases
    <3> DEFINE r == [ev |-> event[p], key |-> req[p].key]
    <3>2. wal' = Append(wal, r) /\ r.ev = event[p]
      BY <3>1
    <3> HIDE DEF r
    <3>3. event[p].seq = Len(log.events) + 1
      BY <2>5 DEF Numbered, Locking
    <3>4. /\ Len(wal') = Len(wal) + 1
          /\ \A i \in 1..Len(wal) : wal'[i] = wal[i]
          /\ wal'[Len(wal) + 1] = r
      <4>1. PICK S : wal \in Seq(S)
        BY DEF WriteInv, Shape
      <4> QED BY <3>2, <4>1, AppendAny
    <3>5. \A i \in 1..Len(wal') : wal'[i].ev.seq <= i
      <4>1. \A i \in 1..Len(wal) : wal'[i].ev.seq <= i
        BY <3>4 DEF Numbered
      <4>2. wal'[Len(wal) + 1].ev.seq <= Len(wal) + 1
        BY <2>2, <3>2, <3>3, <3>4
      <4> QED BY <2>2, <3>4, <4>1, <4>2
    <3>6. Len(log.events) + 1 <= Len(wal')
      BY <2>2, <3>4
    <3>7. pc'[p] = "storage" => event'[p].seq = Len(log'.events) + 1 /\ Len(log'.events) + 1 <= Len(wal')
      BY <3>1, <3>3, <3>6
    <3> QED BY <2>1, <2>2, <3>1, <3>4, <3>5, <3>6, <3>7 DEF Numbered, Locking
  <2>6. CASE pc[p] = "storage"
    <3>1. /\ pc'[p] \in {"publish", "idle"} /\ wal' = wal /\ log' = log
          /\ pc'[p] = "publish" => event' = event
      BY <1>2, <2>6, LockedCases
    <3>2. pc'[p] = "publish" => event'[p].seq = Len(log'.events) + 1 /\ Len(log'.events) + 1 <= Len(wal')
      BY <2>6, <3>1 DEF Numbered, Locking
    <3> QED BY <2>1, <3>1, <3>2 DEF Numbered, Locking
  <2>7. CASE pc[p] = "publish"
    <3>1. pc'[p] \in {"respond", "key_record"} /\ wal' = wal /\ log' = Applied(log, event[p])
      BY <1>2, <2>7, LockedCases
    <3>2. Len(log'.events) <= Len(wal')
      BY <2>7, <3>1, PublishedLog DEF Numbered
    <3> QED BY <2>1, <3>1, <3>2 DEF Numbered, Locking
  <2> QED BY <1>2, <2>3, <2>4, <2>5, <2>6, <2>7, LockedCases
<1> QED BY <1>1, <1>2

(* The numbers in use lead to the right events: a new event takes a number *)
(* that none of them is.                                                   *)
LEMMA LeadStep ==
  ASSUME WriteInv, EventsTyped, Numbered, NumbersLead, \E S : KeyFileShape(S),
         NEW p \in Client, Quiet(p) \/ Locked(p)
  PROVE  NumbersLead'
<1>1. CASE Quiet(p)
  <2>1. /\ up /\ UNCHANGED <<wal, log, up>> /\ OthersKept(p)
        /\ pc'[p] \notin {"storage", "publish", "key_record"}
    BY <1>1, QuietFrame DEF GoesOn, Committed
  <2>2. WalEvents' = WalEvents
    BY <2>1, WalStays
  <2>3. \A t \in KeyTokens' : Leads(WalEvents, t.id, t.fingerprint) /\ t.id <= Len(log.events)
    <3>1. CASE WriteKeyRecord(p)
      <4> DEFINE t == KeyRecord(p)
      <4>1. /\ t.id = event[p].seq /\ t.fingerprint = req[p].cmd
            /\ pc[p] = "key_record" /\ keyFile' = WriteToken(keyFile, t)
        BY <3>1 DEF KeyRecord, WriteKeyRecord
      <4>2. Leads(WalEvents, t.id, t.fingerprint) /\ t.id <= Len(log.events)
        BY <4>1 DEF NumbersLead
      <4> HIDE DEF t
      <4>3. KeyTokens' \subseteq KeyTokens \cup {t}
        BY <4>1, TokensGrow
      <4> QED BY <2>1, <4>2, <4>3 DEF NumbersLead
    <3>2. CASE ~WriteKeyRecord(p)
      <4>1. keyFile' \in {keyFile, WriteToken(keyFile, Torn), EndLine(keyFile)}
        BY <1>1, <3>2 DEF Quiet, Receive, KeyHit, KeyConflict, KeyMiss, Arrives, Reject,
             WriteKeyNewline, KeyWriteFails, InsertKey, Respond, disk, memory, ghosts
      <4>2. KeyTokens' \subseteq KeyTokens
        BY <4>1, TokensGrow
      <4> QED BY <2>1, <4>2 DEF NumbersLead
    <3> QED BY <3>1, <3>2
  <2>4. \A q \in Client :
          /\ pc'[q] \in {"storage", "publish", "key_record"} => Leads(WalEvents, event'[q].seq, req'[q].cmd)
          /\ pc'[q] = "key_record" => event'[q].seq <= Len(log.events)
    BY <2>1 DEF NumbersLead, OthersKept
  <2> QED BY <2>1, <2>2, <2>3, <2>4 DEF NumbersLead
<1>2. CASE Locked(p)
  <2>1. /\ up /\ up' = up /\ keyFile' = keyFile /\ OthersKept(p)
        /\ \A q \in Client \ {p} : pc'[q] \notin Locking
    BY <1>2, LockedFrame DEF OthersKept
  <2>2. KeyTokens' = KeyTokens
    BY <2>1, TokensGrow
  <2>3. /\ Len(log.events) \in Nat /\ WalEvents \in Seq(Durable)
        /\ \A id, c : Leads(WalEvents, id, c) => id \in Nat
    BY Sizes
  <2>4. /\ \A t \in KeyTokens : Leads(WalEvents, t.id, t.fingerprint) /\ t.id <= Len(log.events)
        /\ \A q \in Client \ {p} : pc'[q] = "key_record" =>
             Leads(WalEvents, event'[q].seq, req'[q].cmd) /\ event'[q].seq <= Len(log.events)
    BY <2>1 DEF NumbersLead, OthersKept
  <2>5. ASSUME \A id, c : id <= Len(log.events) /\ Leads(WalEvents, id, c) => Leads(WalEvents', id, c),
               Len(log.events) <= Len(log'.events), Len(log'.events) \in Nat,
               pc'[p] \in {"storage", "publish", "key_record"} => Leads(WalEvents', event'[p].seq, req'[p].cmd),
               pc'[p] = "key_record" => event'[p].seq <= Len(log'.events)
        PROVE  NumbersLead'
    <3>1. \A t \in KeyTokens' : Leads(WalEvents', t.id, t.fingerprint) /\ t.id <= Len(log'.events)
      BY <2>2, <2>3, <2>4, <2>5
    <3>2. \A q \in Client \ {p} : pc'[q] = "key_record" =>
            Leads(WalEvents', event'[q].seq, req'[q].cmd) /\ event'[q].seq <= Len(log'.events)
      BY <2>3, <2>4, <2>5
    <3>3. \A q \in Client \ {p} : pc'[q] \notin {"storage", "publish"}
      BY <2>1 DEF Locking
    <3> QED BY <2>5, <3>1, <3>2, <3>3 DEF NumbersLead
  <2>6. wal' = wal => WalEvents' = WalEvents
    BY WalStays
  <2>7. CASE wal' # wal
    <3>1. /\ pc[p] = "durable" /\ pc'[p] \in {"storage", "idle"} /\ log' = log
          /\ wal' = Append(wal, [ev |-> event[p], key |-> req[p].key])
          /\ WalEvents' = Append(WalEvents, event[p])
          /\ pc'[p] = "storage" => event' = event /\ req' = req
      BY <1>2, <2>7, LockedCases
    <3>2. event[p].seq = Len(log.events) + 1 /\ event[p].cmd = req[p].cmd
      BY <3>1 DEF Numbered, EventsTyped, Underway, Locking
    <3>3. /\ Leads(WalEvents', event[p].seq, event[p].cmd)
          /\ \A id, c : id # event[p].seq /\ Leads(WalEvents, id, c) => Leads(WalEvents', id, c)
      BY <2>3, <3>1, LeadsOn
    <3>4. \A id, c : id <= Len(log.events) /\ Leads(WalEvents, id, c) => Leads(WalEvents', id, c)
      BY <2>3, <3>2, <3>3
    <3>5. pc'[p] = "storage" => Leads(WalEvents', event'[p].seq, req'[p].cmd)
      BY <3>1, <3>2, <3>3
    <3> QED BY <2>3, <2>5, <3>1, <3>4, <3>5
  <2>8. CASE wal' = wal /\ pc[p] # "publish"
    <3>1. /\ log' = log /\ pc'[p] # "key_record"
          /\ pc'[p] \in {"storage", "publish"} => pc[p] = "storage" /\ event' = event /\ req' = req
      <4>1. wal' # Append(wal, [ev |-> event[p], key |-> req[p].key])
        <5> DEFINE r == [ev |-> event[p], key |-> req[p].key]
        <5>1. PICK S : wal \in Seq(S)
          BY DEF WriteInv, Shape
        <5> HIDE DEF r
        <5>2. Len(Append(wal, r)) = Len(wal) + 1 /\ Len(wal) \in Nat
          BY <5>1, AppendAny
        <5>3. wal # Append(wal, r)
          BY <5>2
        <5> QED BY <2>8, <5>3 DEF r
      <4> QED BY <1>2, <2>8, <4>1, LockedCases
    <3>2. pc'[p] \in {"storage", "publish"} => Leads(WalEvents', event'[p].seq, req'[p].cmd)
      BY <2>6, <2>8, <3>1 DEF NumbersLead
    <3> QED BY <2>3, <2>5, <2>6, <2>8, <3>1, <3>2
  <2>9. CASE wal' = wal /\ pc[p] = "publish"
    <3>1. /\ pc'[p] \in {"respond", "key_record"} /\ log' = Applied(log, event[p])
          /\ event' = event /\ req' = req
      BY <1>2, <2>9, LockedCases
    <3>2. Len(log'.events) = Len(log.events) + 1
      BY <3>1, PublishedLog
    <3>3. event[p].seq = Len(log.events) + 1
      BY <2>9 DEF Numbered, Locking
    <3>4. Leads(WalEvents', event'[p].seq, req'[p].cmd)
      BY <2>6, <2>9, <3>1 DEF NumbersLead
    <3>5. Len(log'.events) \in Nat /\ Len(log.events) <= Len(log'.events) /\ event'[p].seq <= Len(log'.events)
      BY <2>3, <3>1, <3>2, <3>3
    <3> QED BY <2>5, <2>6, <2>9, <3>1, <3>4, <3>5
  <2> QED BY <2>7, <2>8, <2>9
<1> QED BY <1>1, <1>2

(* The table and the threads hold events of the log, each of the command   *)
(* it is kept for.                                                         *)
LEMMA ServedStep ==
  ASSUME WriteInv, EventsTyped, TableServed, NEW p \in Client, Quiet(p) \/ Locked(p)
  PROVE  TableServed'
<1> USE DEF disk, memory, ghosts, Goto
<1>1. CASE Quiet(p)
  <2>1. log' = log /\ OthersKept(p) /\ GoesOn(p) /\ pc[p] \notin Locking
    BY <1>1, QuietFrame
  <2>2. pc'[p] \in Committed => event'[p] \in EventsOf(log)
    BY <2>1 DEF GoesOn, TableServed, Committed
  <2>3. \A k \in DOMAIN idempotency' :
          /\ idempotency'[k].ev \in EventsOf(log)
          /\ idempotency'[k].ev.cmd = idempotency'[k].fingerprint
    <3>1. CASE InsertKey(p)
      <4> DEFINE r == [fingerprint |-> req[p].cmd, ev |-> event[p]]
      <4>1. /\ idempotency' = Put(idempotency, req[p].key, r)
            /\ r.ev = event[p] /\ r.fingerprint = req[p].cmd /\ pc[p] = "key_insert"
        BY <3>1 DEF InsertKey
      <4> HIDE DEF r
      <4>2. /\ DOMAIN idempotency' = DOMAIN idempotency \cup {req[p].key} /\ idempotency'[req[p].key] = r
            /\ \A k \in DOMAIN idempotency : k # req[p].key => idempotency'[k] = idempotency[k]
        BY <4>1 DEF Put
      <4>3. event[p] \in EventsOf(log) /\ event[p].cmd = req[p].cmd
        BY <4>1 DEF TableServed, EventsTyped, Committed, Underway, Written
      <4> QED BY <4>1, <4>2, <4>3 DEF TableServed
    <3>2. CASE ~InsertKey(p)
      <4>1. idempotency' = idempotency
        BY <1>1, <3>2 DEF Quiet, Receive, KeyHit, KeyConflict, KeyMiss, Arrives, Reject,
             WriteKeyRecord, WriteKeyNewline, KeyWriteFails, Respond
      <4> QED BY <4>1 DEF TableServed
    <3> QED BY <3>1, <3>2
  <2>4. EventsOf(log') = EventsOf(log)
    BY <2>1
  <2> QED BY <2>1, <2>2, <2>3, <2>4 DEF TableServed, OthersKept
<1>2. CASE Locked(p)
  <2>1. OthersKept(p) /\ idempotency' = idempotency
    BY <1>2, LockedFrame
  <2>2. CASE pc[p] = "publish"
    <3>1. EventsOf(log') = EventsOf(log) \cup {event[p]} /\ event' = event
      BY <1>2, <2>2, LockedCases, PublishedLog
    <3> QED BY <2>1, <3>1 DEF TableServed, OthersKept
  <2>3. CASE pc[p] # "publish"
    <3>1. log' = log /\ pc'[p] \notin Committed
      BY <1>2, <2>3, LockedCases DEF Committed
    <3>2. EventsOf(log') = EventsOf(log)
      BY <3>1
    <3> QED BY <2>1, <3>1, <3>2 DEF TableServed, OthersKept
  <2> QED BY <2>2, <2>3
<1> QED BY <1>1, <1>2

-----------------------------------------------------------------------------
(***************************************************************************)
(* Crashes and starts.                                                     *)
(***************************************************************************)

(* What a start puts in the table is an event of the log that it loads,    *)
(* of the command that the record of the key is the fingerprint of.        *)
LEMMA LoadedServed ==
  ASSUME WriteInv, NumbersLead, KeysReadable, NEW k \in DOMAIN KeyTable(WalEvents)
  PROVE  /\ KeyTable(WalEvents)[k].ev \in Durable
         /\ KeyTable(WalEvents)[k].ev.cmd = KeyTable(WalEvents)[k].fingerprint
<1> DEFINE ns == {n \in KeyLines : KeyLine(n)[1].key = k}
           rec == KeyLine(Max(ns))[1]
<1>1. Len(LinesRead(keyFile)) \in Nat
  <2>1. PICK S, T : keyFile \in [lines : Seq(S), tail : T]
    BY DEF WriteInv, Shape
  <2>2. keyFile.lines \in Seq(S)
    BY <2>1
  <2>3. Len(keyFile.lines) \in Nat /\ Len(Append(keyFile.lines, keyFile.tail)) \in Nat
    BY <2>2, AppendAny
  <2> QED BY <2>3 DEF LinesRead
<1>2. k \in {KeyLine(n)[1].key : n \in KeyLines}
  BY DEF KeyTable
<1>3. ns \in SUBSET (1..Len(LinesRead(keyFile))) /\ ns # {}
  BY <1>2 DEF KeyLines
<1>4. Max(ns) \in KeyLines
  <2> HIDE DEF ns
  <2>1. Max(ns) \in ns
    BY <1>1, <1>3, MaxInside
  <2> QED BY <2>1 DEF ns
<1>5. rec \in KeyTokens
  <2>1. /\ Max(ns) \in 1..Len(LinesRead(keyFile)) /\ Len(KeyLine(Max(ns))) = 1
        /\ rec # Torn
    BY <1>4 DEF KeyLines, KeysReadable
  <2>2. 1 \in 1..Len(KeyLine(Max(ns)))
    BY <2>1
  <2> HIDE DEF ns
  <2>3. \E n \in 1..Len(LinesRead(keyFile)) : \E i \in 1..Len(LinesRead(keyFile)[n]) :
          LinesRead(keyFile)[n][i] = rec
    BY <2>1, <2>2 DEF KeyLine
  <2> HIDE DEF rec
  <2> QED BY <2>1, <2>3 DEF KeyTokens
<1>6. /\ KeyTable(WalEvents)[k].ev = EventById(WalEvents, rec.id)
      /\ KeyTable(WalEvents)[k].fingerprint = rec.fingerprint
  <2>1. KeyTable(WalEvents)[k] = [fingerprint |-> rec.fingerprint, ev |-> EventById(WalEvents, rec.id)]
    BY <1>2 DEF KeyTable
  <2> HIDE DEF rec
  <2> QED BY <2>1
<1>7. EventById(WalEvents, rec.id).cmd = rec.fingerprint
  <2> HIDE DEF rec
  <2> QED BY <1>5 DEF NumbersLead, Leads
<1>8. KeyTable(WalEvents)[k].ev \in Durable
  BY KeyTableDurable DEF WriteInv
<1> QED BY <1>6, <1>7, <1>8

(* A crash takes what is in memory, and leaves the files but for a torn    *)
(* record.                                                                 *)
LEMMA DiskCrash ==
  ASSUME WriteInv, DiskInv, \E S : KeyFileShape(S), Crash
  PROVE  DiskInv'
<1>1. /\ wal' = wal /\ ~up' /\ log' = EmptyLog /\ DOMAIN idempotency' = {}
      /\ \A p \in Client : pc'[p] = "idle"
  BY DEF Crash, NoEntries
<1>2. Durable' = Durable /\ WalEvents' = WalEvents
  BY <1>1, WalStays
<1>3. KeyTokens' \subseteq KeyTokens
  <2>1. keyFile' \in {keyFile, WriteToken(keyFile, Torn)}
    BY DEF Crash
  <2> QED BY <2>1, TokensGrow
<1>4. EventsTyped' /\ WalReplays'
  BY <1>1, <1>2 DEF DiskInv, EventsTyped, WalReplays, Replayed, Underway, Locking, Written
<1>5. Numbered'
  BY <1>1 DEF DiskInv, Numbered, Locking
<1>6. NumbersLead'
  BY <1>1, <1>2, <1>3 DEF DiskInv, NumbersLead
<1>7. TableServed'
  BY <1>1 DEF TableServed, Committed
<1> QED BY <1>4, <1>5, <1>6, <1>7 DEF DiskInv

(* A start loads what the files lead to.                                   *)
LEMMA DiskStart ==
  ASSUME WriteInv, DiskInv, Start
  PROVE  DiskInv'
<1>1. /\ UNCHANGED <<wal, keyFile, pc, req, event>> /\ log' = Loaded(WalEvents)
      /\ idempotency' = KeyTable(WalEvents)
      /\ \A p \in Client : pc'[p] = "idle"
  BY DEF Start, disk, threads, WriteInv, LockHeld
<1>2. Durable' = Durable /\ WalEvents' = WalEvents /\ KeyTokens' = KeyTokens
  BY <1>1, WalStays DEF KeyTokens
<1>3. log'.events = WalEvents /\ log'.graph = Replayed
  BY <1>1 DEF Loaded, Replayed
<1>4. /\ Len(wal) \in Nat /\ Len(WalEvents) = Len(wal)
      /\ \A i \in 1..Len(wal) : wal[i].ev.seq \in Nat /\ WalEvents[i] = wal[i].ev
  BY Sizes DEF DiskInv, WalEvents
<1>5. EventsTyped'
  BY <1>1, <1>2 DEF DiskInv, EventsTyped, Underway, Locking, Written
<1>6. WalReplays'
  <2>1. Covers(Replayed, Replayed)
    BY DEF Covers
  <2>2. Replayed' = Replayed /\ Replay(WalEvents)' = Replay(WalEvents)
    BY <1>2 DEF Replayed
  <2> QED BY <1>1, <1>3, <2>1, <2>2 DEF DiskInv, WalReplays
<1>7. Numbered'
  BY <1>1, <1>3, <1>4 DEF DiskInv, Numbered, Locking
<1>8. NumbersLead'
  <2>1. ASSUME NEW t \in KeyTokens
        PROVE  Leads(WalEvents, t.id, t.fingerprint) /\ t.id <= Len(wal)
    <3>1. Leads(WalEvents, t.id, t.fingerprint)
      BY DEF DiskInv, NumbersLead
    <3>2. PICK i \in 1..Len(WalEvents) : WalEvents[i].seq = t.id
      BY <3>1 DEF Leads
    <3>3. wal[i].ev.seq = t.id /\ wal[i].ev.seq <= i /\ t.id \in Nat
      BY <1>4, <3>2 DEF DiskInv, Numbered
    <3> QED BY <1>4, <3>1, <3>2, <3>3
  <2> QED BY <1>1, <1>2, <1>3, <1>4, <2>1 DEF NumbersLead
<1>9. TableServed'
  <2>1. EventsOf(log') = Durable
    BY <1>3, <1>4 DEF EventsOf, Durable
  <2>2. \A k \in DOMAIN KeyTable(WalEvents) :
          /\ KeyTable(WalEvents)[k].ev \in Durable
          /\ KeyTable(WalEvents)[k].ev.cmd = KeyTable(WalEvents)[k].fingerprint
    BY LoadedServed DEF DiskInv, Start
  <2> QED BY <1>1, <2>1, <2>2 DEF TableServed, Committed
<1> QED BY <1>5, <1>6, <1>7, <1>8, <1>9 DEF DiskInv

(* The invariant holds of empty files.                                     *)
LEMMA DiskInit == Init => DiskInv
<1> SUFFICES ASSUME Init PROVE DiskInv
  OBVIOUS
<1> USE DEF Init
<1>1. Len(wal) = 0 /\ WalEvents = <<>> /\ Durable = {} /\ log.graph = EmptyGraph /\ log.events = <<>>
  BY DEF WalEvents, Durable, EmptyLog
<1>2. KeyTokens = {}
  <2>1. LinesRead(keyFile) = <<>>
    BY DEF EmptyFile, LinesRead
  <2> QED BY <2>1 DEF KeyTokens
<1>3. Replay(WalEvents) = [ok |-> TRUE, graph |-> EmptyGraph]
  BY <1>1, ReplayUnfolds
<1>4. EventsTyped /\ Numbered /\ NumbersLead /\ TableServed
  BY <1>1, <1>2 DEF EventsTyped, Numbered, NumbersLead, TableServed, Underway, Locking, Written,
       Committed, NoEntries
<1>5. WalReplays
  <2>1. Replay(WalEvents).ok /\ Replayed = EmptyGraph
    BY <1>3 DEF Replayed
  <2>2. Covers(EmptyGraph, EmptyGraph)
    BY DEF Covers
  <2> QED BY <1>1, <2>1, <2>2, EmptyGraphType DEF WalReplays
<1> QED BY <1>4, <1>5 DEF DiskInv

(* Every step keeps the invariant.                                         *)
LEMMA DiskStep ==
  WriteInv /\ WriteInv' /\ CopyInv /\ KeyInv /\ DiskInv /\ [Next]_vars => DiskInv'
<1> SUFFICES ASSUME WriteInv, WriteInv', CopyInv, KeyInv, DiskInv, [Next]_vars PROVE DiskInv'
  OBVIOUS
<1>1. CASE UNCHANGED vars
  <2>1. /\ UNCHANGED <<wal, keyFile, up, log, idempotency, pc, req, event>>
    BY <1>1 DEF vars, disk, memory, threads
  <2>2. Durable' = Durable /\ WalEvents' = WalEvents /\ KeyTokens' = KeyTokens /\ Replayed' = Replayed
    BY <2>1, WalStays DEF KeyTokens, Replayed
  <2>3. EventsTyped' /\ Numbered'
    BY <2>1, <2>2 DEF DiskInv, EventsTyped, Numbered
  <2>4. WalReplays'
    BY <2>1, <2>2 DEF DiskInv, WalReplays
  <2>5. NumbersLead' /\ TableServed'
    BY <2>1, <2>2 DEF DiskInv, NumbersLead, TableServed
  <2> QED BY <2>3, <2>4, <2>5 DEF DiskInv
<1>2. CASE Next
  <2>1. ASSUME NEW p \in Client, Quiet(p) \/ Locked(p) PROVE DiskInv'
    <3>1. EventsTyped' /\ WalReplays' /\ Numbered' /\ NumbersLead' /\ TableServed'
      BY <2>1, TypedStep, ReplaysStep, NumberedStep, LeadStep, ServedStep DEF DiskInv, KeyInv
    <3> QED BY <3>1 DEF DiskInv
  <2> QED BY <1>2, <2>1, StepKinds, DiskCrash, DiskStart DEF KeyInv
<1> QED BY <1>1, <1>2

(* All the invariants together hold in every behaviour.                    *)
LEMMA AllInv == Spec => [](WriteInv /\ CopyInv /\ KeyInv /\ DiskInv)
<1>1. Init => KeyInv
  <2>1. ASSUME Init PROVE KeyFileShape({})
    BY <2>1 DEF Init, EmptyFile, KeyFileShape
  <2> QED BY <2>1 DEF Init, KeyInv, KeysHeld, NeverLate, NoEntries
<1>2. Init => CopyInv
  BY DEF Init, CopyInv, CarriedApplies, Copies, WalEvents, EmptyLog
<1> QED BY <1>1, <1>2, WriteInvInit, WriteInvStep, CopyInvStep, KeyInvStep, DiskInit, DiskStep, PTL DEF Spec

(***************************************************************************)
(* What is on disk at any moment is fit to start from, for any number of   *)
(* threads, requests, failed appends and crashes: the durable log replays, *)
(* though an append that failed after writing put an event into it that    *)
(* the running process does not know; and every whole record of the        *)
(* idempotency file leads to an event of the command that it is the        *)
(* fingerprint of, though the numbers of such events are given twice.      *)
(***************************************************************************)
THEOREM DiskAlwaysResolves == Spec => []DiskResolves
<1>1. WriteInv /\ DiskInv => DiskResolves
  <2> SUFFICES ASSUME WriteInv, DiskInv PROVE DiskResolves
    OBVIOUS
  <2>1. Len(WalEvents) = Len(wal) /\ \A i \in 1..Len(wal) : WalEvents[i] = wal[i].ev
    BY Sizes DEF DiskInv, WalEvents
  <2> QED BY <2>1 DEF DiskInv, WalReplays, NumbersLead, Leads, DiskResolves
<1> QED BY <1>1, AllInv, PTL

(***************************************************************************)
(* A client is answered with an event of the very command it sent, which   *)
(* the storage holds, for any number of threads and crashes, whether the   *)
(* request ran or its key was found.                                       *)
(***************************************************************************)
THEOREM AnswersAreServed == Spec => []AnswerIsServed
<1>1. WriteInv /\ CopyInv /\ DiskInv => AnswerIsServed
  <2> SUFFICES ASSUME WriteInv, CopyInv, DiskInv, NEW p \in Client, pc[p] = "respond"
               PROVE  event[p].cmd = req[p].cmd /\ event[p] \in EventsOf(storage)
    BY DEF AnswerIsServed
  <2>1. event[p] \in EventsOf(log) /\ event[p].cmd = req[p].cmd
    BY DEF DiskInv, TableServed, EventsTyped, Committed, Underway, Written
  <2>2. up
    BY DEF WriteInv, Shape, LockHeld
  <2>3. EventsOf(log) \subseteq EventsOf(storage)
    <3>1. CASE storage = log
      BY <3>1
    <3>2. CASE storage = Applied(log, event[holder])
      <4>1. log.events \in Seq(Durable)
        BY DEF WriteInv, Shape
      <4>2. storage.events = Append(log.events, event[holder])
        BY <3>2 DEF Applied
      <4>3. /\ Len(storage.events) = Len(log.events) + 1 /\ Len(log.events) \in Nat
            /\ \A i \in 1..Len(log.events) : storage.events[i] = log.events[i]
        BY <4>1, <4>2, AppendAny
      <4> QED BY <4>3 DEF EventsOf
    <3> QED BY <2>2, <3>1, <3>2 DEF CopyInv, Copies
  <2> QED BY <2>1, <2>3
<1> QED BY <1>1, AllInv, PTL

-----------------------------------------------------------------------------
(***************************************************************************)
(* The durable log as one sequential EventLog.                             *)
(***************************************************************************)

(* The operators of the instance are those of this module.                 *)
LEMMA SequentialIs ==
  /\ Sequential!EmptyGraph = EmptyGraph
  /\ Command = Sequential!Command
  /\ \A g, c : Sequential!Validates(g, c) <=> Validates(g, c)
  /\ \A g, c : Sequential!Applicable(g, c) <=> Applicable(g, c)
  /\ \A c, n, tx : Sequential!EventOf(c, n, tx) = EventOf(c, n, tx)
  /\ \A g, e : Sequential!ApplyEvent(g, e) = ApplyEvent(g, e)
<1>1. Sequential!EmptyGraph = EmptyGraph
  BY DEF Sequential!EmptyGraph, EmptyGraph, Sequential!NoEntries, NoEntries
<1>2. Command = Sequential!Command
  BY Zenon DEF Command, Sequential!Command, Object, Sequential!Object, MemoryStatus, Sequential!MemoryStatus
<1>3. \A g, c : Sequential!Validates(g, c) <=> Validates(g, c)
  BY Zenon DEF Sequential!Validates, Validates, Sequential!RefsKnown, RefsKnown
<1>4. \A g, c : Sequential!Applicable(g, c) <=> Applicable(g, c)
  BY Zenon DEF Sequential!Applicable, Applicable, Sequential!RefsKnown, RefsKnown
<1>5. \A c, n, tx : Sequential!EventOf(c, n, tx) = EventOf(c, n, tx)
  BY DEF Sequential!EventOf, EventOf
<1>6. ASSUME NEW g, NEW e
      PROVE  Sequential!ApplyEvent(g, e) = ApplyEvent(g, e)
  BY Zenon DEF Sequential!ApplyEvent, ApplyEvent,
     Sequential!Put, Put, Sequential!AsSet, AsSet, Sequential!EntityCreated, EntityCreated,
     Sequential!SourceAdded, SourceAdded, Sequential!AssertionAdded, AssertionAdded,
     Sequential!RetractedAt, RetractedAt, Sequential!AssertionRetracted, AssertionRetracted,
     Sequential!EvidenceLinked, EvidenceLinked, Sequential!EntityMerged, EntityMerged,
     Sequential!Reassessed, Reassessed, Sequential!ConfidenceUpdated, ConfidenceUpdated,
     Sequential!CausalLinkAdded, CausalLinkAdded, Sequential!MarkSuperseded, MarkSuperseded,
     Sequential!AgentMemoryRecorded, AgentMemoryRecorded
<1> QED BY <1>1, <1>2, <1>3, <1>4, <1>5, <1>6

(* The step of a durable append does in the durable log what an execution  *)
(* does in an EventLog.                                                    *)
LEMMA AppendExecutes ==
  ASSUME WriteInv, CopyInv, DiskInv, Replays, Counted, NEW p \in Client, AppendDurable(p), ~failed
  PROVE  Sequential!LogNext
<1> DEFINE c == req[p].cmd
           e == event[p]
<1>1. /\ pc[p] = "durable" /\ holder = p /\ up /\ p # Nobody
      /\ WalEvents \in Seq(Durable) /\ Len(WalEvents) = Len(wal) /\ Len(wal) \in Nat
      /\ c \in Command
  <2>1. pc[p] = "durable" /\ holder = p /\ up /\ p # Nobody
    BY ApiAssumption DEF AppendDurable, WriteInv, LockHeld, Locking, Shape, ApiAssumption
  <2> QED BY <2>1, Sizes DEF DiskInv, EventsTyped
<1>2. WalEvents = log.events /\ Replayed = log.graph
  BY <1>1 DEF CopyInv, Copies, Replays
<1>3. e = EventOf(c, Len(wal) + 1, Before(WalEvents) + 1) /\ Validates(Replayed, c)
  BY <1>1, <1>2 DEF Replays, NextEvent
<1>4. e.cmd = c /\ e.tx = Before(WalEvents) + 1
  BY <1>3 DEF EventOf
<1>5. Applicable(Replayed, c)
  BY <1>1, <1>2, <1>4 DEF CopyInv, CarriedApplies
<1>6. WalEvents' = Append(WalEvents, e) /\ Len(wal') = Len(wal) + 1
  <2>1. PICK S : wal \in Seq(S)
    BY DEF WriteInv, Shape
  <2> DEFINE r == [ev |-> event[p], key |-> req[p].key]
  <2>2. wal' = Append(wal, r)
    BY DEF AppendDurable
  <2>3. WalEvents' = Append(WalEvents, e)
    BY <2>1, <2>2, WalGrows
  <2> HIDE DEF r
  <2> QED BY <2>1, <2>2, <2>3, AppendAny
<1>7. Replayed' = ApplyEvent(Replayed, e)
  BY <1>1, <1>6, AppendReplays DEF CopyInv, DiskInv
<1>8. Before(WalEvents)' = Before(WalEvents) + 1
  <2>1. Len(Append(WalEvents, e)) = Len(WalEvents) + 1 /\ Append(WalEvents, e)[Len(WalEvents) + 1] = e
    BY <1>1, AppendAny
  <2>2. Append(WalEvents, e) # <<>>
    BY <1>1, <2>1
  <2>3. Before(Append(WalEvents, e)) = e.tx
    BY <2>1, <2>2 DEF Before
  <2> QED BY <1>4, <1>6, <2>3
<1>9. Len(WalEvents) < MaxRequests
  <2>1. p \in Pending
    BY <1>1 DEF Pending
  <2>2. Cardinality(Pending) \in Nat /\ Cardinality(Pending) # 0
    BY <2>1, FS_EmptySet, FS_CardinalityType DEF Counted
  <2> QED BY <1>1, <2>2, ApiAssumption DEF Counted, ApiAssumption
<1>10. Sequential!Execute(c)
  <2>1. Sequential!NextEvent(c) = e
    BY <1>3, SequentialIs DEF Sequential!NextEvent
  <2> HIDE DEF c, e
  <2>2. Sequential!Validates(Replayed, c) /\ Sequential!Applicable(Replayed, c)
    BY <1>3, <1>5, SequentialIs
  <2>3. Sequential!ApplyEvent(Replayed, e) = Replayed'
    BY <1>7, SequentialIs
  <2> QED BY <1>1, <1>6, <1>8, <1>9, <2>1, <2>2, <2>3 DEF Sequential!Execute, Replayed
<1> HIDE DEF c
<1>11. c \in Sequential!Command
  BY <1>1, SequentialIs, Zenon
<1> QED BY <1>10, <1>11 DEF Sequential!LogNext

(* Among the threads that may still append, a step changes at most its own. *)
LEMMA PendingAfter ==
  ASSUME NEW p \in Client, OthersKept(p), IsFiniteSet(Pending)
  PROVE  /\ IsFiniteSet(Pending')
         /\ Cardinality(Pending) \in Nat /\ Cardinality(Pending') \in Nat
         /\ pc'[p] \notin {"lock", "durable"} /\ pc[p] \in {"lock", "durable"} =>
              Cardinality(Pending') = Cardinality(Pending) - 1
         /\ pc'[p] \in {"lock", "durable"} /\ pc[p] \notin {"lock", "durable"} =>
              Cardinality(Pending') = Cardinality(Pending) + 1
         /\ (pc'[p] \in {"lock", "durable"} <=> pc[p] \in {"lock", "durable"}) =>
              Cardinality(Pending') = Cardinality(Pending)
<1>1. CASE pc'[p] \notin {"lock", "durable"} /\ pc[p] \in {"lock", "durable"}
  <2>1. Pending' = Pending \ {p} /\ p \in Pending
    BY <1>1 DEF Pending, OthersKept
  <2> QED BY <1>1, <2>1, FS_RemoveElement, FS_CardinalityType
<1>2. CASE pc'[p] \in {"lock", "durable"} /\ pc[p] \notin {"lock", "durable"}
  <2>1. Pending' = Pending \cup {p} /\ p \notin Pending
    BY <1>2 DEF Pending, OthersKept
  <2> QED BY <1>2, <2>1, FS_AddElement, FS_CardinalityType
<1>3. CASE pc'[p] \in {"lock", "durable"} <=> pc[p] \in {"lock", "durable"}
  <2>1. Pending' = Pending
    BY <1>3 DEF Pending, OthersKept
  <2> QED BY <1>3, <2>1, FS_CardinalityType
<1> QED BY <1>1, <1>2, <1>3

(* No more events become durable than requests are sent.                   *)
LEMMA CountedStep ==
  ASSUME WriteInv, Counted, NEW p \in Client, Quiet(p) \/ Locked(p)
  PROVE  Counted'
<1> USE DEF disk, memory, ghosts, Goto, Finish
<1>1. Len(wal) \in Nat /\ sent \in Nat /\ MaxRequests \in Nat /\ DOMAIN pc = Client
  BY ApiAssumption DEF WriteInv, Shape, Counted, ApiAssumption
<1>2. CASE Quiet(p)
  <2>1. wal' = wal /\ OthersKept(p) /\ GoesOn(p) /\ pc[p] \notin Locking
    BY <1>2, QuietFrame
  <2>2. \/ sent' = sent + 1 /\ sent < MaxRequests
        \/ sent' = sent /\ pc'[p] \notin {"lock", "durable"}
    <3>1. CASE Receive(p)
      BY <3>1 DEF Receive, KeyHit, KeyConflict, KeyMiss, Arrives
    <3>2. CASE ~Receive(p)
      BY <1>1, <1>2, <3>2 DEF Quiet, Reject, WriteKeyRecord, WriteKeyNewline, KeyWriteFails, InsertKey, Respond
    <3> QED BY <3>1, <3>2
  <2> QED BY <1>1, <2>1, <2>2, PendingAfter DEF Counted
<1>3. CASE Locked(p)
  <2>1. OthersKept(p) /\ sent' = sent
    BY <1>3, LockedFrame DEF Locked, ExecuteCandidate, AppendDurable, DurableFails, AppendStorage, Publish
  <2>2. CASE wal' = Append(wal, [ev |-> event[p], key |-> req[p].key])
    <3> DEFINE r == [ev |-> event[p], key |-> req[p].key]
    <3>1. wal' = Append(wal, r)
      BY <2>2
    <3> HIDE DEF r
    <3>2. Len(wal') = Len(wal) + 1
      BY <3>1, AppendAny DEF WriteInv, Shape
    <3>3. wal' # wal
      BY <1>1, <3>2
    <3>4. pc[p] = "durable" /\ pc'[p] \in {"storage", "idle"}
      BY <1>3, <3>3, LockedCases
    <3> QED BY <1>1, <2>1, <3>2, <3>4, PendingAfter DEF Counted
  <2>3. CASE wal' # Append(wal, [ev |-> event[p], key |-> req[p].key])
    <3>1. wal' = wal /\ (pc'[p] \in {"lock", "durable"} => pc[p] \in {"lock", "durable"})
      BY <1>3, <2>3, LockedCases
    <3> QED BY <1>1, <2>1, <3>1, PendingAfter DEF Counted
  <2> QED BY <2>2, <2>3
<1> QED BY <1>2, <1>3

(* The state replayed from the file is the state in memory, or one event   *)
(* ahead of it.                                                            *)
LEMMA ReplaysOn ==
  ASSUME WriteInv, WriteInv', CopyInv, DiskInv, Replays, NEW p \in Client, Quiet(p) \/ Locked(p)
  PROVE  Replays'
<1> USE DEF disk, memory, ghosts, Goto, Finish
<1>1. DOMAIN pc = Client /\ DOMAIN event = Client /\ DOMAIN req = Client /\ p # Nobody
  BY ApiAssumption DEF WriteInv, Shape, ApiAssumption
<1>2. wal' = wal => Replayed' = Replayed
  BY WalStays DEF Replayed
<1>3. CASE Quiet(p)
  <2>1. /\ OthersKept(p) /\ pc'[p] \notin Locking /\ holder # p
        /\ UNCHANGED <<wal, log, up, failed, holder>>
    BY <1>3, QuietFrame DEF GoesOn, Committed, Locking, WriteInv, LockHeld
  <2>2. holder # Nobody => pc'[holder] = pc[holder] /\ event'[holder] = event[holder]
    BY <2>1 DEF WriteInv, LockHeld, OthersKept
  <2>3. \A q \in Client : pc'[q] = "durable" => pc[q] = "durable" /\ event'[q] = event[q] /\ req'[q] = req[q]
    BY <2>1 DEF OthersKept, Locking
  <2>4. up' /\ ~failed' => Replayed' = IF holder' # Nobody /\ pc'[holder'] \in {"storage", "publish"}
                                       THEN ApplyEvent(log'.graph, event'[holder']) ELSE log'.graph
    BY <1>2, <2>1, <2>2 DEF Replays
  <2>5. \A q \in Client : pc'[q] = "durable" =>
          event'[q] = NextEvent(log', req'[q].cmd) /\ Validates(log'.graph, req'[q].cmd)
    BY <2>1, <2>3 DEF Replays
  <2> QED BY <2>4, <2>5 DEF Replays
<1>4. CASE Locked(p)
  <2>1. /\ OthersKept(p) /\ up /\ up' = up /\ \A q \in Client \ {p} : pc'[q] \notin Locking
    BY <1>4, LockedFrame DEF OthersKept
  <2>2. pc[p] \in Locking => holder = p
    BY DEF WriteInv, LockHeld
  <2>3. CASE ExecuteCandidate(p)
    <3>1. /\ pc'[p] = "durable" /\ holder = Nobody /\ holder' = p /\ log' = log /\ wal' = wal
          /\ failed' = failed /\ req' = req
          /\ event'[p] = NextEvent(log, req[p].cmd) /\ Validates(log.graph, req[p].cmd)
      BY <1>1, <2>3 DEF ExecuteCandidate, Accepts
    <3> QED BY <1>1, <1>2, <2>1, <3>1 DEF Replays, Locking
  <2>4. CASE AppendDurable(p)
    <3>1. /\ pc[p] = "durable" /\ pc'[p] = "storage" /\ holder = p /\ holder' = p /\ log' = log
          /\ event' = event /\ failed' = failed
      BY <1>1, <2>2, <2>4 DEF AppendDurable, Locking
    <3>2. WalEvents' = Append(WalEvents, event[p])
      <4>1. PICK S : wal \in Seq(S)
        BY DEF WriteInv, Shape
      <4> QED BY <2>4, <4>1, WalGrows DEF AppendDurable
    <3>3. Replayed' = ApplyEvent(Replayed, event[p])
      BY <2>1, <3>1, <3>2, AppendReplays DEF CopyInv, DiskInv
    <3> QED BY <1>1, <2>1, <3>1, <3>3 DEF Replays, Locking
  <2>5. CASE DurableFails(p)
    <3>1. /\ pc[p] = "durable" /\ pc'[p] = "idle" /\ holder = p /\ holder' = Nobody /\ log' = log
          /\ ~failed' => ~failed /\ wal' = wal
      BY <1>1, <2>2, <2>5 DEF DurableFails, Locking
    <3> QED BY <1>1, <1>2, <2>1, <3>1 DEF Replays, Locking
  <2>6. CASE AppendStorage(p)
    <3>1. pc[p] = "storage" /\ holder = p
      BY <2>2, <2>6 DEF AppendStorage, Locking
    <3>2. storage = log /\ Applicable(storage.graph, event[p].cmd)
      BY <1>1, <2>1, <3>1 DEF CopyInv, Copies, CarriedApplies
    <3>3. /\ pc'[p] = "publish" /\ holder' = p /\ log' = log /\ wal' = wal
          /\ event' = event /\ failed' = failed
      BY <1>1, <2>6, <3>1, <3>2 DEF AppendStorage
    <3> QED BY <1>1, <1>2, <2>1, <3>1, <3>3 DEF Replays, Locking
  <2>7. CASE Publish(p)
    <3>1. /\ pc[p] = "publish" /\ pc'[p] \in {"respond", "key_record"} /\ holder = p /\ holder' = Nobody
          /\ wal' = wal /\ failed' = failed /\ log' = Applied(log, event[p])
      BY <1>1, <2>2, <2>7 DEF Publish, Locking
    <3>2. log'.graph = ApplyEvent(log.graph, event[p])
      BY <3>1 DEF Applied
    <3> QED BY <1>1, <1>2, <2>1, <3>1, <3>2 DEF Replays, Locking
  <2> QED BY <1>4, <2>3, <2>4, <2>5, <2>6, <2>7 DEF Locked
<1> QED BY <1>3, <1>4

(* Every step keeps both.                                                  *)
LEMMA SequentialStep ==
  WriteInv /\ WriteInv' /\ CopyInv /\ DiskInv /\ Replays /\ Counted /\ [Next]_vars
    => Replays' /\ Counted'
<1> SUFFICES ASSUME WriteInv, WriteInv', CopyInv, DiskInv, Replays, Counted, [Next]_vars
             PROVE  Replays' /\ Counted'
  OBVIOUS
<1> USE DEF disk, memory, threads, ghosts
<1>1. CASE UNCHANGED vars
  <2>1. UNCHANGED <<wal, up, failed, holder, pc, event, req, log, sent>>
    BY <1>1 DEF vars
  <2>2. Replayed' = Replayed /\ Pending' = Pending
    BY <2>1, WalStays DEF Replayed, Pending
  <2> QED BY <2>1, <2>2 DEF Replays, Counted
<1>2. CASE Crash
  <2>1. ~up' /\ wal' = wal /\ sent' = sent /\ \A p \in Client : pc'[p] = "idle"
    BY <1>2 DEF Crash
  <2>2. Replays'
    BY <2>1 DEF Replays
  <2>3. Pending' = {}
    BY <2>1 DEF Pending
  <2>4. Len(wal) \in Nat /\ Cardinality(Pending) \in Nat
    BY FS_CardinalityType DEF WriteInv, Shape, Counted
  <2> QED BY <2>1, <2>2, <2>3, <2>4, FS_EmptySet DEF Counted
<1>3. CASE Start
  <2>1. /\ UNCHANGED <<wal, pc, sent, failed, holder>> /\ log' = Loaded(WalEvents)
        /\ holder = Nobody /\ \A p \in Client : pc'[p] = "idle"
    BY <1>3 DEF Start, WriteInv, LockHeld
  <2>2. Replayed' = Replayed /\ Pending' = Pending /\ log'.graph = Replayed
    BY <2>1, WalStays DEF Replayed, Pending, Loaded
  <2> QED BY <2>1, <2>2 DEF Replays, Counted
<1>4. ASSUME NEW p \in Client, Quiet(p) \/ Locked(p) PROVE Replays' /\ Counted'
  BY <1>4, ReplaysOn, CountedStep
<1> QED BY <1>1, <1>2, <1>3, <1>4, StepKinds

(***************************************************************************)
(* The durable log grows as one sequential EventLog does that executes one *)
(* valid command after the other, whatever the threads, the locks and the  *)
(* crashes do, as long as no append failed after writing: the refinement   *)
(* of EventLog.tla, step by step.                                          *)
(***************************************************************************)
THEOREM WritesAreSequential == Spec => ImplementsEventLog
<1>1. Init => Sequential!LogInit
  <2> SUFFICES ASSUME Init PROVE Sequential!LogInit
    OBVIOUS
  <2>1. WalEvents = <<>> /\ Len(wal) = 0
    BY DEF Init, WalEvents
  <2>2. Replay(WalEvents).graph = EmptyGraph /\ Before(WalEvents) = 0
    BY <2>1, ReplayUnfolds DEF Before
  <2> QED BY <2>1, <2>2, SequentialIs DEF Sequential!LogInit
<1>2. Init => Replays /\ Counted
  <2> SUFFICES ASSUME Init PROVE Replays /\ Counted
    OBVIOUS
  <2>1. WalEvents = <<>> /\ Len(wal) = 0 /\ log.graph = EmptyGraph /\ Pending = {}
    BY DEF Init, WalEvents, EmptyLog, Pending
  <2>2. Replayed = EmptyGraph
    BY <2>1, ReplayUnfolds DEF Replayed
  <2>3. Counted
    BY <2>1, FS_EmptySet, ApiAssumption DEF Init, Counted, ApiAssumption
  <2> QED BY <2>1, <2>2, <2>3 DEF Init, Replays
<1>3. /\ WriteInv /\ CopyInv /\ DiskInv /\ Replays /\ Counted /\ [Next]_vars
      => [~failed' => Sequential!LogNext]_wal
  <2> SUFFICES ASSUME WriteInv, CopyInv, DiskInv, Replays, Counted, [Next]_vars, wal' # wal, ~failed'
               PROVE  Sequential!LogNext
    OBVIOUS
  <2> USE DEF disk, memory, threads, ghosts
  <2>1. ~Crash /\ ~Start /\ ~UNCHANGED vars
    BY DEF Crash, Start, vars
  <2>2. PICK p \in Client : Quiet(p) \/ Locked(p)
    BY <2>1, StepKinds
  <2>3. Locked(p)
    BY <2>2, QuietFrame
  <2>4. ~DurableFails(p)
    BY Zenon DEF DurableFails
  <2>5. AppendDurable(p) /\ failed' = failed
    BY <2>3, <2>4 DEF Locked, ExecuteCandidate, AppendDurable, AppendStorage, Publish
  <2> QED BY <2>5, AppendExecutes
<1>4. Spec => [](Replays /\ Counted)
  BY <1>2, AllInv, SequentialStep, PTL DEF Spec
<1>5. Spec => [][~failed' => Sequential!LogNext]_wal
  BY <1>3, <1>4, AllInv, PTL DEF Spec
<1>6. Spec => Sequential!LogInit
  BY <1>1, PTL DEF Spec
<1> QED BY <1>5, <1>6 DEF ImplementsEventLog
=============================================================================
