---------------------------- MODULE FileWalProofs ----------------------------
(***************************************************************************)
(* What holds of the single-file log for any writes, any policy and any    *)
(* number of crashes: only a power loss takes a whole record away, and the *)
(* bytes of what was acknowledged stay on file as far as the policy        *)
(* promises.  When the recovery runs before each opening and no append     *)
(* fails, what was acknowledged is read again, the memory is the log on    *)
(* file, and a group commit puts a bounded number of events at risk.       *)
(***************************************************************************)
EXTENDS FileWal, FiniteSetTheorems, WellFoundedInduction, TLAPS

Record == [seq : Nat, ev : [write : Write, no : Nat]]

-----------------------------------------------------------------------------
(***************************************************************************)
(* The inductive invariant, in parts.                                      *)
(***************************************************************************)

\* A file is a sequence of lines and a tail; some of its lines are synced.
Shape ==
  /\ \E S, T : file \in [lines : Seq(S), tail : T]
  /\ synced.lines \in 0..Len(file.lines)
  /\ losses \in Nat

\* Until an append fails, every line on file is the one record of its place.
LinesWhole ==
  \A n \in 1..Len(file.lines) :
    \E r \in Record : file.lines[n] = <<r>> /\ r.seq = n /\ r.ev.no = n

\* What the append in progress has written.
InProgress ==
  /\ pc \in {"idle", "record", "sync", "done"} => file.tail = <<>>
  /\ pc \in {"record", "newline"} =>
       current \in Record /\ current.seq = Len(file.lines) + 1 /\ current.ev.no = Len(file.lines) + 1
  /\ pc = "newline" => file.tail = <<current>>
  /\ pc \in {"sync", "done"} =>
       Len(file.lines) > 0 /\ file.lines[Len(file.lines)] = <<current>>

Published == IF pc \in {"sync", "done"} THEN Len(file.lines) - 1 ELSE Len(file.lines)

MemoryRead ==
  pc # "down" => mem = [n \in 1..Published |-> file.lines[n][1].ev]

\* What was acknowledged is on file, and synced when each write is.
AckedOn(k) == \A e \in acked : \E n \in 1..k : file.lines[n][1].ev = e

AckedKept ==
  /\ losses = 0 => AckedOn(Len(file.lines))
  /\ policy = 1 => /\ AckedOn(synced.lines)
                   /\ pc = "done" => synced.lines = Len(file.lines)

Whole == ~failed => LinesWhole /\ InProgress /\ MemoryRead /\ AckedKept

WalInv == Shape /\ Whole

-----------------------------------------------------------------------------
(***************************************************************************)
(* The recovery: how many lines are good.                                  *)
(***************************************************************************)

(* There is a number of good lines before the first bad one.               *)
LEMMA GoodLinesExist ==
  ASSUME NEW S, NEW T, NEW f \in [lines : Seq(S), tail : T]
  PROVE  /\ GoodLines(f) \in 0..Len(f.lines)
         /\ \A n \in 1..GoodLines(f) : Decodes(f.lines[n], n)
         /\ GoodLines(f) < Len(f.lines) => ~Decodes(f.lines[GoodLines(f) + 1], GoodLines(f) + 1)
<1> DEFINE Below == {p \in Nat \X Nat : p[1] < p[2]}
           Bad == {k \in 0..Len(f.lines) :
                     k = Len(f.lines) \/ ~Decodes(f.lines[k + 1], k + 1)}
           Good(k) == /\ \A n \in 1..k : Decodes(f.lines[n], n)
                      /\ k < Len(f.lines) => ~Decodes(f.lines[k + 1], k + 1)
<1>1. Len(f.lines) \in Nat
  OBVIOUS
<1>2. IsWellFoundedOn(Below, Nat)
  BY NatLessThanWellFounded DEF OpToRel
<1>3. Bad \subseteq Nat /\ Len(f.lines) \in Bad
  BY <1>1
<1>4. PICK k \in Bad : \A j \in Bad : ~ (<<j, k>> \in Below)
  <2> HIDE DEF Bad, Below
  <2> QED BY <1>2, <1>3, WFMin, Zenon
<1>5. \A j \in Bad : k <= j
  <2> SUFFICES ASSUME NEW j \in Bad, j < k PROVE FALSE
    BY <1>3, <1>4
  <2>1. <<j, k>> \in Below
    BY <1>3, <1>4
  <2> QED BY <1>4, <2>1
<1>6. Good(k)
  <2>1. ASSUME NEW n \in 1..k PROVE Decodes(f.lines[n], n)
    <3>1. k \in 0..Len(f.lines) /\ n - 1 \in 0..Len(f.lines) /\ n - 1 < k /\ (n - 1) + 1 = n
      BY <1>1, <1>4
    <3>2. n - 1 \notin Bad
      <4> HIDE DEF Bad
      <4> QED BY <1>5, <3>1
    <3> QED BY <1>1, <3>1, <3>2
  <2> QED BY <1>4, <2>1
<1>7. GoodLines(f) = CHOOSE j \in 0..Len(f.lines) : Good(j)
  BY DEF GoodLines
<1>8. k \in 0..Len(f.lines)
  BY <1>4
<1> HIDE DEF Good
<1>9. GoodLines(f) \in 0..Len(f.lines) /\ Good(GoodLines(f))
  BY <1>6, <1>7, <1>8
<1> QED BY <1>9 DEF Good

(* When all lines are good, all of them are read.                          *)
LEMMA AllGood ==
  ASSUME Shape, LinesWhole
  PROVE  /\ GoodLines(file) = Len(file.lines)
         /\ \A n \in 1..Len(file.lines) : Decodes(file.lines[n], n)
         /\ SubSeq(file.lines, 1, Len(file.lines)) = file.lines
<1>1. PICK S, T : file \in [lines : Seq(S), tail : T]
  BY DEF Shape
<1>2. Len(file.lines) \in Nat /\ SubSeq(file.lines, 1, Len(file.lines)) = file.lines
  BY <1>1
<1>3. ASSUME NEW n \in 1..Len(file.lines) PROVE Decodes(file.lines[n], n)
  <2>1. PICK r \in Record : file.lines[n] = <<r>> /\ r.seq = n
    BY DEF LinesWhole
  <2>2. r # Torn
    BY WalAssumption DEF WalAssumption, Record
  <2> QED BY <2>1, <2>2 DEF Decodes
<1> QED BY <1>1, <1>2, <1>3, GoodLinesExist

-----------------------------------------------------------------------------
(***************************************************************************)
(* What the writes do to the file.                                         *)
(***************************************************************************)

(* A token or a newline leaves the lines that are there.                   *)
LEMMA FileWritten ==
  ASSUME NEW t, \E S, T : file \in [lines : Seq(S), tail : T],
         file' \in {file, WriteToken(file, t), EndLine(file)}
  PROVE  /\ \E S, T : file' \in [lines : Seq(S), tail : T]
         /\ Len(file.lines) \in Nat /\ Len(file'.lines) \in Nat
         /\ Len(file'.lines) >= Len(file.lines)
         /\ \A n \in 1..Len(file.lines) : file'.lines[n] = file.lines[n]
<1>1. PICK S, T : file \in [lines : Seq(S), tail : T]
  OBVIOUS
<1>2. CASE file' = file
  BY <1>1, <1>2
<1>3. CASE file' = WriteToken(file, t)
  <2> DEFINE U == {Append(file.tail, t)}
             A == Seq(S)
  <2>1. file \in [lines : A, tail : T]
    BY <1>1
  <2>2. file' \in [lines : A, tail : U] /\ file'.lines = file.lines
    <3> HIDE DEF A
    <3> QED BY <1>3, <2>1 DEF WriteToken
  <2>3. \E X, Y : file' \in [lines : Seq(X), tail : Y]
    BY <2>2
  <2> QED BY <1>1, <2>2, <2>3
<1>4. CASE file' = EndLine(file)
  <2> DEFINE A == S \cup {file.tail}
             U == {<<>>}
  <2>1. file.lines \in Seq(A) /\ file.tail \in A
    BY <1>1
  <2> HIDE DEF A
  <2>2. /\ Append(file.lines, file.tail) \in Seq(A)
        /\ Len(file.lines) \in Nat
        /\ Len(Append(file.lines, file.tail)) = Len(file.lines) + 1
        /\ \A n \in 1..Len(file.lines) : Append(file.lines, file.tail)[n] = file.lines[n]
    BY <2>1
  <2>3. file'.lines = Append(file.lines, file.tail) /\ file' \in [lines : Seq(A), tail : U]
    BY <1>4, <2>2 DEF EndLine
  <2>4. \E X, Y : file' \in [lines : Seq(X), tail : Y]
    BY <2>3
  <2> QED BY <2>2, <2>3, <2>4
<1> QED BY <1>2, <1>3, <1>4

(* A newline ends the line of what was written since the last one.         *)
LEMMA LineEnded ==
  ASSUME \E S, T : file \in [lines : Seq(S), tail : T], file' = EndLine(file)
  PROVE  /\ Len(file'.lines) = Len(file.lines) + 1
         /\ file'.lines[Len(file.lines) + 1] = file.tail
         /\ file'.tail = <<>>
<1>1. PICK S, T : file \in [lines : Seq(S), tail : T]
  OBVIOUS
<1> DEFINE A == S \cup {file.tail}
<1>2. file.lines \in Seq(A) /\ file.tail \in A
  BY <1>1
<1> HIDE DEF A
<1>3. /\ Len(Append(file.lines, file.tail)) = Len(file.lines) + 1
      /\ Append(file.lines, file.tail)[Len(file.lines) + 1] = file.tail
  BY <1>2
<1> QED BY <1>3 DEF EndLine

(* A cut leaves a beginning of the lines.                                  *)
LEMMA FileCut ==
  ASSUME \E S, T : file \in [lines : Seq(S), tail : T], NEW k \in 0..Len(file.lines), NEW tail,
         NEW t, \/ file' = [lines |-> SubSeq(file.lines, 1, k), tail |-> tail]
                \/ file' = WriteToken([lines |-> SubSeq(file.lines, 1, k), tail |-> tail], t)
  PROVE  /\ \E S, T : file' \in [lines : Seq(S), tail : T]
         /\ Len(file'.lines) = k
         /\ \A n \in 1..k : file'.lines[n] = file.lines[n]
<1>1. PICK S, T : file \in [lines : Seq(S), tail : T]
  OBVIOUS
<1>2. /\ SubSeq(file.lines, 1, k) \in Seq(S) /\ Len(SubSeq(file.lines, 1, k)) = k
      /\ \A n \in 1..k : SubSeq(file.lines, 1, k)[n] = file.lines[n]
  BY <1>1
<1> DEFINE U == {tail, Append(tail, t)}
           A == Seq(S)
<1>3. file'.lines = SubSeq(file.lines, 1, k) /\ file' \in [lines : A, tail : U]
  <2>1. SubSeq(file.lines, 1, k) \in A
    BY <1>2
  <2>2. tail \in U /\ Append(tail, t) \in U
    OBVIOUS
  <2> DEFINE cut == [lines |-> SubSeq(file.lines, 1, k), tail |-> tail]
  <2>3. cut \in [lines : A, tail : U] /\ cut.lines = SubSeq(file.lines, 1, k) /\ cut.tail = tail
    BY <2>1, <2>2
  <2> HIDE DEF A, U, cut
  <2>4. CASE file' = cut
    BY <2>3, <2>4
  <2>5. CASE file' = WriteToken(cut, t)
    BY <2>2, <2>3, <2>5 DEF WriteToken
  <2> QED BY <2>4, <2>5 DEF cut
<1>4. \E X, Y : file' \in [lines : Seq(X), tail : Y]
  BY <1>3
<1> QED BY <1>2, <1>3, <1>4

-----------------------------------------------------------------------------
(***************************************************************************)
(* The shape of the file, and the records that stay.                       *)
(***************************************************************************)
(* All steps but an opening and a power loss write at most once.           *)
LEMMA StepWrites ==
  ASSUME Shape, [Next]_vars, ~PowerLoss, ~Open
  PROVE  /\ \E t : file' \in {file, WriteToken(file, t), EndLine(file)}
         /\ UNCHANGED losses
         /\ synced' = synced \/ (file' = file /\ synced'.lines = Len(file.lines))
<1>1. CASE UNCHANGED vars
  BY <1>1 DEF vars
<1>2. CASE \E w \in Write : BeginAppend(w)
  BY <1>2 DEF BeginAppend
<1>3. CASE WriteRecord \/ WriteNewline \/ AppendFails \/ ProcessCrash
  BY <1>3 DEF WriteRecord, WriteNewline, AppendFails, ProcessCrash
<1>4. CASE Sync \/ Acknowledge
  BY <1>4 DEF Sync, Acknowledge, AllOf
<1> QED BY <1>1, <1>2, <1>3, <1>4 DEF Next

(* A power loss keeps what was synced, and a beginning of the rest.        *)
LEMMA PowerLossCuts ==
  ASSUME Shape, PowerLoss
  PROVE  /\ \E S, T : file' \in [lines : Seq(S), tail : T]
         /\ synced.lines <= Len(file'.lines) /\ Len(file'.lines) <= Len(file.lines)
         /\ \A n \in 1..Len(file'.lines) : file'.lines[n] = file.lines[n]
         /\ synced'.lines = Len(file'.lines) /\ losses' = losses + 1
<1>1. PICK k \in synced.lines..Len(file.lines) : \E tail :
        \/ file' = [lines |-> SubSeq(file.lines, 1, k), tail |-> tail]
        \/ file' = WriteToken([lines |-> SubSeq(file.lines, 1, k), tail |-> tail], Torn)
  BY DEF PowerLoss, Survivors
<1>2. k \in 0..Len(file.lines) /\ synced.lines <= k /\ Len(file.lines) \in Nat
  BY <1>1 DEF Shape
<1>3. /\ \E S, T : file' \in [lines : Seq(S), tail : T]
      /\ Len(file'.lines) = k
      /\ \A n \in 1..k : file'.lines[n] = file.lines[n]
  BY <1>1, <1>2, FileCut DEF Shape
<1> QED BY <1>2, <1>3 DEF PowerLoss, AllOf

(* An opening keeps what is good, or everything.                           *)
LEMMA OpenCuts ==
  ASSUME Shape, Open
  PROVE  /\ \E S, T : file' \in [lines : Seq(S), tail : T]
         /\ Len(file'.lines) \in {Len(file.lines), GoodLines(file)}
         /\ \A n \in 1..Len(file'.lines) : file'.lines[n] = file.lines[n]
         /\ file' # file => synced'.lines = Len(file'.lines)
         /\ file' = file => synced' = synced
<1>1. PICK S, T : file \in [lines : Seq(S), tail : T]
  BY DEF Shape
<1>2. CASE RecoverOnOpen
  <2>1. file' = [lines |-> SubSeq(file.lines, 1, GoodLines(file)), tail |-> <<>>]
    BY <1>2 DEF Open, Truncated
  <2>2. GoodLines(file) \in 0..Len(file.lines)
    BY <1>1, GoodLinesExist
  <2>3. /\ \E X, Y : file' \in [lines : Seq(X), tail : Y]
        /\ Len(file'.lines) = GoodLines(file)
        /\ \A n \in 1..GoodLines(file) : file'.lines[n] = file.lines[n]
    BY <2>1, <2>2, FileCut DEF Shape
  <2> QED BY <2>3 DEF Open, AllOf
<1>3. CASE ~RecoverOnOpen
  BY <1>1, <1>3 DEF Open, AllOf
<1> QED BY <1>2, <1>3

LEMMA ShapeStep == Shape /\ [Next]_vars => Shape'
<1> SUFFICES ASSUME Shape, [Next]_vars PROVE Shape'
  OBVIOUS
<1>1. synced.lines \in 0..Len(file.lines) /\ Len(file.lines) \in Nat
  BY DEF Shape
<1>2. CASE ~PowerLoss /\ ~Open
  <2>1. PICK t : file' \in {file, WriteToken(file, t), EndLine(file)}
    BY <1>2, StepWrites
  <2>2. /\ \E S, T : file' \in [lines : Seq(S), tail : T]
        /\ Len(file'.lines) \in Nat /\ Len(file'.lines) >= Len(file.lines)
    BY <2>1, FileWritten DEF Shape
  <2>3. losses' = losses /\ (synced' = synced \/ (file' = file /\ synced'.lines = Len(file.lines)))
    BY <1>2, StepWrites
  <2> QED BY <1>1, <2>2, <2>3 DEF Shape
<1>3. CASE PowerLoss
  BY <1>1, <1>3, PowerLossCuts DEF Shape
<1>4. CASE Open
  <2>1. losses' = losses
    BY <1>4 DEF Open
  <2> QED BY <1>1, <1>4, <2>1, OpenCuts DEF Shape
<1> QED BY <1>2, <1>3, <1>4

LEMMA ShapeInit == Init => Shape
<1> SUFFICES ASSUME Init PROVE Shape
  OBVIOUS
<1>1. file \in [lines : Seq({}), tail : {<<>>}] /\ Len(file.lines) = 0
  BY DEF Init, EmptyFile
<1>2. \E S, T : file \in [lines : Seq(S), tail : T]
  BY <1>1
<1>3. synced.lines = 0 /\ losses = 0
  BY DEF Init, AllOf, EmptyFile
<1> QED BY <1>1, <1>2, <1>3 DEF Shape

(***************************************************************************)
(* A record, once ended by its newline, stays readable at its place until  *)
(* a power loss: appends, failed ones, crashes, recoveries and openings    *)
(* never take a good line away (append_with_metadata,                      *)
(* recover_wal_path_truncate_to_last_good), whatever the policy is and     *)
(* with or without the recovery.                                           *)
(***************************************************************************)
THEOREM RecordsStay == Spec => GoodRecordsStay
<1> DEFINE Stays == losses' = losses =>
             \A n \in 1..GoodLines(file) :
               n <= GoodLines(file') /\ file'.lines[n] = file.lines[n]
<1>1. ASSUME Shape, Shape', [Next]_vars PROVE Stays
  <2>1. /\ GoodLines(file) \in 0..Len(file.lines) /\ Len(file.lines) \in Nat
        /\ \A n \in 1..GoodLines(file) : Decodes(file.lines[n], n)
    <3>1. PICK S, T : file \in [lines : Seq(S), tail : T]
      BY <1>1 DEF Shape
    <3> QED BY <3>1, GoodLinesExist
  <2>2. /\ GoodLines(file') \in 0..Len(file'.lines) /\ Len(file'.lines) \in Nat
        /\ GoodLines(file') < Len(file'.lines) =>
             ~Decodes(file'.lines[GoodLines(file') + 1], GoodLines(file') + 1)
    <3>1. PICK S, T : file' \in [lines : Seq(S), tail : T]
      BY <1>1 DEF Shape
    <3> QED BY <3>1, GoodLinesExist
  <2>3. ASSUME losses' = losses
        PROVE  /\ GoodLines(file) <= Len(file'.lines)
               /\ \A n \in 1..GoodLines(file) : file'.lines[n] = file.lines[n]
    <3>1. ~PowerLoss
      BY <1>1, <2>3, PowerLossCuts DEF Shape
    <3>2. CASE Open
      BY <1>1, <2>1, <3>2, OpenCuts
    <3>3. CASE ~Open
      <4>1. PICK t : file' \in {file, WriteToken(file, t), EndLine(file)}
        BY <1>1, <3>1, <3>3, StepWrites
      <4>2. \E S, T : file \in [lines : Seq(S), tail : T]
        BY <1>1 DEF Shape
      <4>3. /\ Len(file'.lines) >= Len(file.lines)
            /\ \A n \in 1..Len(file.lines) : file'.lines[n] = file.lines[n]
        BY <4>1, <4>2, FileWritten
      <4> QED BY <2>1, <2>2, <4>3
    <3> QED BY <3>2, <3>3
  <2>4. ASSUME losses' = losses PROVE GoodLines(file) <= GoodLines(file')
    <3> SUFFICES ASSUME GoodLines(file') < GoodLines(file) PROVE FALSE
      BY <2>1, <2>2
    <3>1. GoodLines(file') + 1 \in 1..GoodLines(file) /\ GoodLines(file') < Len(file'.lines)
      BY <2>1, <2>2, <2>3, <2>4
    <3> QED BY <2>1, <2>2, <2>3, <2>4, <3>1
  <2> QED BY <2>1, <2>2, <2>3, <2>4
<1> QED BY <1>1, ShapeInit, ShapeStep, PTL DEF Spec, GoodRecordsStay

-----------------------------------------------------------------------------
(***************************************************************************)
(* What was acknowledged, as long as no append failed.                     *)
(***************************************************************************)

(* The lines that stay keep what is said of them.                          *)
LEMMA LinesStay ==
  ASSUME LinesWhole, Len(file.lines) \in Nat, Len(file'.lines) \in Nat,
         Len(file'.lines) <= Len(file.lines),
         \A n \in 1..Len(file'.lines) : file'.lines[n] = file.lines[n]
  PROVE  LinesWhole'
BY DEF LinesWhole

LEMMA WholeInit == Init => Whole
<1> SUFFICES ASSUME Init PROVE Whole
  OBVIOUS
<1>1. file.tail = <<>> /\ file.lines = <<>> /\ Len(file.lines) = 0
  BY DEF Init, EmptyFile
<1>2. synced.lines = 0
  BY DEF Init, AllOf, EmptyFile
<1>3. LinesWhole /\ InProgress /\ AckedKept
  BY <1>1, <1>2 DEF Init, LinesWhole, InProgress, AckedKept, AckedOn
<1>4. MemoryRead
  BY <1>1 DEF Init, MemoryRead, Published
<1> QED BY <1>3, <1>4 DEF Whole

LEMMA BeginWhole ==
  ASSUME WalInv, ~failed, NEW w \in Write, BeginAppend(w)
  PROVE  Whole'
<1>1. pc = "idle" /\ pc' = "record" /\ current' = NextRecord(w)
      /\ UNCHANGED <<file, synced, policy, mem, acked, failed, losses>>
  BY DEF BeginAppend
<1>2. PICK S, T : file \in [lines : Seq(S), tail : T]
  BY DEF WalInv, Shape
<1>3. Len(file.lines) \in Nat /\ LinesRead(file) = file.lines
  BY <1>1, <1>2 DEF WalInv, Whole, InProgress, LinesRead
<1>4. Len(RecordsRead(file)) = Len(file.lines)
  BY <1>3 DEF RecordsRead
<1>5. Len(mem) = Len(file.lines)
  BY <1>1, <1>3 DEF WalInv, Whole, MemoryRead, Published
<1>6. current' \in Record /\ current'.seq = Len(file.lines) + 1 /\ current'.ev.no = Len(file.lines) + 1
  BY <1>1, <1>3, <1>4, <1>5 DEF NextRecord, Record
<1>7. InProgress'
  BY <1>1, <1>6 DEF InProgress, WalInv, Whole
<1>8. LinesWhole' /\ MemoryRead' /\ AckedKept'
  BY <1>1 DEF WalInv, Whole, LinesWhole, MemoryRead, Published, AckedKept, AckedOn
<1> QED BY <1>7, <1>8 DEF Whole

LEMMA RecordWhole ==
  ASSUME WalInv, ~failed, WriteRecord
  PROVE  Whole'
<1>1. pc = "record" /\ pc' = "newline" /\ file' = WriteToken(file, current)
      /\ UNCHANGED <<synced, policy, mem, current, acked, failed, losses>>
  BY DEF WriteRecord
<1>2. PICK S, T : file \in [lines : Seq(S), tail : T]
  BY DEF WalInv, Shape
<1>3. file'.lines = file.lines /\ file'.tail = Append(file.tail, current)
  <2> DEFINE A == Seq(S)
  <2>1. file \in [lines : A, tail : T]
    BY <1>2
  <2> HIDE DEF A
  <2> QED BY <1>1, <2>1 DEF WriteToken
<1>4. file'.tail = <<current>>
  <2>1. file.tail = <<>>
    BY <1>1 DEF WalInv, Whole, InProgress
  <2>2. Append(<<>>, current) = <<current>>
    OBVIOUS
  <2> QED BY <1>3, <2>1, <2>2
<1>5. InProgress'
  BY <1>1, <1>3, <1>4 DEF InProgress, WalInv, Whole
<1>6. LinesWhole' /\ MemoryRead' /\ AckedKept'
  BY <1>1, <1>3 DEF WalInv, Whole, LinesWhole, MemoryRead, Published, AckedKept, AckedOn
<1> QED BY <1>5, <1>6 DEF Whole

LEMMA NewlineWhole ==
  ASSUME WalInv, ~failed, WriteNewline
  PROVE  Whole'
<1>1. pc = "newline" /\ pc' \in {"sync", "done"} /\ file' = EndLine(file)
      /\ UNCHANGED <<synced, policy, mem, current, acked, failed, losses>>
  BY DEF WriteNewline
<1>2. Len(file.lines) \in Nat /\ synced.lines \in 0..Len(file.lines)
  <2>1. PICK S, T : file \in [lines : Seq(S), tail : T]
    BY DEF WalInv, Shape
  <2> QED BY <2>1 DEF WalInv, Shape
<1>3. /\ Len(file'.lines) = Len(file.lines) + 1 /\ file'.tail = <<>>
      /\ file'.lines[Len(file.lines) + 1] = <<current>>
      /\ \A n \in 1..Len(file.lines) : file'.lines[n] = file.lines[n]
  <2>1. \E S, T : file \in [lines : Seq(S), tail : T]
    BY DEF WalInv, Shape
  <2>2. \A n \in 1..Len(file.lines) : file'.lines[n] = file.lines[n]
    BY <1>1, <2>1, FileWritten
  <2>3. file.tail = <<current>>
    BY <1>1 DEF WalInv, Whole, InProgress
  <2> QED BY <1>1, <2>1, <2>2, <2>3, LineEnded
<1>4. current \in Record /\ current.seq = Len(file.lines) + 1 /\ current.ev.no = Len(file.lines) + 1
  BY <1>1 DEF WalInv, Whole, InProgress
<1>5. LinesWhole'
  BY <1>2, <1>3, <1>4 DEF WalInv, Whole, LinesWhole
<1>6. InProgress'
  BY <1>1, <1>2, <1>3 DEF InProgress
<1>7. MemoryRead'
  <2>1. mem = [n \in 1..Len(file.lines) |-> file.lines[n][1].ev]
    BY <1>1 DEF WalInv, Whole, MemoryRead, Published
  <2>2. Published' = Len(file.lines)
    BY <1>1, <1>2, <1>3 DEF Published
  <2> QED BY <1>1, <1>3, <2>1, <2>2 DEF MemoryRead
<1>8. AckedKept'
  <2>1. policy = 1 => pc' = "sync"
    <3>1. current.seq \in Nat
      BY <1>4 DEF Record
    <3> QED BY <3>1 DEF WriteNewline
  <2>2. losses = 0 => AckedOn(Len(file.lines))'
    BY <1>1, <1>3 DEF WalInv, Whole, AckedKept, AckedOn
  <2>3. losses' = 0 => AckedOn(Len(file.lines))'
    BY <1>1, <2>2
  <2>4. policy = 1 => AckedOn(synced.lines)'
    BY <1>1, <1>2, <1>3 DEF WalInv, Whole, AckedKept, AckedOn
  <2> QED BY <1>1, <2>1, <2>3, <2>4 DEF AckedKept
<1> QED BY <1>5, <1>6, <1>7, <1>8 DEF Whole

LEMMA SyncWhole ==
  ASSUME WalInv, ~failed, Sync
  PROVE  Whole'
<1>1. /\ pc = "sync" /\ pc' = "done" /\ synced'.lines = Len(file.lines)
      /\ UNCHANGED <<file, policy, mem, current, acked, failed, losses>>
  BY DEF Sync, AllOf
<1>2. Len(file.lines) \in Nat /\ synced.lines \in 0..Len(file.lines)
  <2>1. PICK S, T : file \in [lines : Seq(S), tail : T]
    BY DEF WalInv, Shape
  <2> QED BY <2>1 DEF WalInv, Shape
<1>3. LinesWhole' /\ InProgress' /\ MemoryRead'
  BY <1>1 DEF WalInv, Whole, LinesWhole, InProgress, MemoryRead, Published
<1>4. AckedKept'
  BY <1>1, <1>2 DEF WalInv, Whole, AckedKept, AckedOn
<1> QED BY <1>3, <1>4 DEF Whole

LEMMA AcknowledgeWhole ==
  ASSUME WalInv, ~failed, Acknowledge
  PROVE  Whole'
<1>1. /\ pc = "done" /\ pc' = "idle" /\ mem' = Append(mem, current.ev)
      /\ acked' = acked \cup {current.ev}
      /\ UNCHANGED <<file, synced, policy, failed, losses>>
  BY DEF Acknowledge
<1>2. Len(file.lines) \in Nat /\ synced.lines \in 0..Len(file.lines)
  <2>1. PICK S, T : file \in [lines : Seq(S), tail : T]
    BY DEF WalInv, Shape
  <2> QED BY <2>1 DEF WalInv, Shape
<1>3. Len(file.lines) > 0 /\ file.lines[Len(file.lines)][1].ev = current.ev
  BY <1>1 DEF WalInv, Whole, InProgress
<1>4. LinesWhole' /\ InProgress'
  BY <1>1 DEF WalInv, Whole, LinesWhole, InProgress
<1>5. MemoryRead'
  <2> DEFINE k == Len(file.lines) - 1
             Ev(n) == file.lines[n][1].ev
  <2>1. k \in Nat /\ mem = [n \in 1..k |-> Ev(n)] /\ Ev(k + 1) = current.ev
    BY <1>1, <1>2, <1>3 DEF WalInv, Whole, MemoryRead, Published
  <2>2. Append(mem, current.ev) = [n \in 1..k + 1 |-> Ev(n)]
    <3> HIDE DEF k, Ev
    <3> QED BY <2>1
  <2>3. Published' = k + 1
    BY <1>1, <1>2 DEF Published
  <2> QED BY <1>1, <2>2, <2>3 DEF MemoryRead
<1>6. AckedKept'
  BY <1>1, <1>2, <1>3 DEF WalInv, Whole, AckedKept, AckedOn
<1> QED BY <1>4, <1>5, <1>6 DEF Whole

LEMMA CrashWhole ==
  ASSUME WalInv, ~failed, ProcessCrash
  PROVE  Whole'
<1>1. /\ pc' = "down" /\ UNCHANGED <<synced, policy, acked, failed, losses>>
      /\ \E t : file' \in {file, WriteToken(file, t)}
  BY DEF ProcessCrash, Down
<1>2. file'.lines = file.lines
  <2>1. PICK S, T : file \in [lines : Seq(S), tail : T]
    BY DEF WalInv, Shape
  <2> DEFINE A == Seq(S)
  <2>2. file \in [lines : A, tail : T]
    BY <2>1
  <2> HIDE DEF A
  <2> QED BY <1>1, <2>2 DEF WriteToken
<1> QED BY <1>1, <1>2 DEF WalInv, Whole, LinesWhole, InProgress, MemoryRead, AckedKept, AckedOn

LEMMA PowerLossWhole ==
  ASSUME WalInv, ~failed, PowerLoss
  PROVE  Whole'
<1>1. /\ pc' = "down" /\ UNCHANGED <<policy, acked, failed>>
      /\ losses' # 0
  BY PowerLossCuts DEF PowerLoss, Down, WalInv, Shape
<1>2. /\ Len(file.lines) \in Nat /\ Len(file'.lines) \in Nat /\ synced.lines \in Nat
      /\ synced.lines <= Len(file'.lines) /\ Len(file'.lines) <= Len(file.lines)
      /\ \A n \in 1..Len(file'.lines) : file'.lines[n] = file.lines[n]
      /\ synced'.lines = Len(file'.lines)
  <2>1. /\ \E S, T : file' \in [lines : Seq(S), tail : T]
        /\ synced.lines <= Len(file'.lines) /\ Len(file'.lines) <= Len(file.lines)
        /\ \A n \in 1..Len(file'.lines) : file'.lines[n] = file.lines[n]
        /\ synced'.lines = Len(file'.lines)
    BY PowerLossCuts DEF WalInv
  <2> QED BY <2>1 DEF WalInv, Shape
<1>3. LinesWhole'
  BY <1>2, LinesStay DEF WalInv, Whole
<1>4. AckedKept'
  BY <1>1, <1>2 DEF WalInv, Whole, AckedKept, AckedOn
<1> QED BY <1>1, <1>3, <1>4 DEF Whole, InProgress, MemoryRead

LEMMA OpenWhole ==
  ASSUME RecoverOnOpen, WalInv, ~failed, Open
  PROVE  Whole'
<1>1. /\ pc = "down" /\ pc' = "idle" /\ file' = Truncated(file) /\ mem' = EventsRead(file')
      /\ UNCHANGED <<policy, acked, failed, losses>>
  BY DEF Open
<1>2. GoodLines(file) = Len(file.lines) /\ SubSeq(file.lines, 1, Len(file.lines)) = file.lines
  BY AllGood DEF WalInv, Whole
<1>3. file'.lines = file.lines /\ file'.tail = <<>>
  BY <1>1, <1>2 DEF Truncated
<1>4. LinesRead(file') = file.lines
  BY <1>3 DEF LinesRead
<1>5. LinesWhole' /\ InProgress'
  BY <1>1, <1>3 DEF WalInv, Whole, LinesWhole, InProgress
<1>6. MemoryRead'
  BY <1>1, <1>3, <1>4 DEF MemoryRead, Published, EventsRead
<1>7. synced'.lines \in {synced.lines, Len(file.lines)} /\ synced.lines \in 0..Len(file.lines)
  BY <1>3, OpenCuts DEF WalInv, Shape
<1>8. AckedKept'
  <2>1. Len(file.lines) \in Nat
    <3>1. PICK S, T : file \in [lines : Seq(S), tail : T]
      BY DEF WalInv, Shape
    <3> QED BY <3>1
  <2> QED BY <1>1, <1>3, <1>7, <2>1 DEF WalInv, Whole, AckedKept, AckedOn
<1> QED BY <1>5, <1>6, <1>8 DEF Whole

LEMMA WalInvStep == ASSUME RecoverOnOpen PROVE WalInv /\ [Next]_vars => WalInv'
<1> SUFFICES ASSUME WalInv, [Next]_vars PROVE Whole'
  BY ShapeStep DEF WalInv
<1>1. failed => failed'
  BY DEF Next, vars, BeginAppend, WriteRecord, WriteNewline, Sync, Acknowledge, AppendFails, ProcessCrash, PowerLoss, Down, Open
<1>2. CASE failed'
  BY <1>2 DEF Whole
<1>3. CASE ~failed' /\ UNCHANGED vars
  BY <1>3 DEF vars, WalInv, Whole, LinesWhole, InProgress, MemoryRead, Published, AckedKept, AckedOn
<1>4. CASE ~failed' /\ Next
  <2>1. ~failed
    BY <1>1, <1>4
  <2>2. ~AppendFails
    BY <1>4 DEF AppendFails
  <2> QED BY <1>4, <2>1, <2>2, BeginWhole, RecordWhole, NewlineWhole, SyncWhole, AcknowledgeWhole,
             CrashWhole, PowerLossWhole, OpenWhole DEF Next
<1> QED BY <1>2, <1>3, <1>4

(***************************************************************************)
(* No acknowledged write is lost by any number of crashes of the process,  *)
(* nor, when every write is synced, by any number of power losses, as long *)
(* as no append failed halfway and the recovery runs before each opening   *)
(* (append_with_metadata, recover_wal_path_truncate_to_last_good).         *)
(***************************************************************************)
THEOREM AckedWritesSurvive == ASSUME RecoverOnOpen PROVE Spec => []AckedSurvive
<1>1. WalInv => AckedSurvive
  <2> SUFFICES ASSUME WalInv, ~failed, policy = 1 \/ losses = 0, NEW e \in acked
               PROVE  e \in GoodEvents(file)
    BY DEF AckedSurvive, Durable
  <2>1. GoodLines(file) = Len(file.lines)
    BY AllGood DEF WalInv, Whole
  <2>2. \E n \in 1..Len(file.lines) : file.lines[n][1].ev = e
    <3>1. Len(file.lines) \in Nat /\ synced.lines \in 0..Len(file.lines)
      <4>1. PICK S, T : file \in [lines : Seq(S), tail : T]
        BY DEF WalInv, Shape
      <4> QED BY <4>1 DEF WalInv, Shape
    <3> QED BY <3>1 DEF WalInv, Whole, AckedKept, AckedOn
  <2> QED BY <2>1, <2>2 DEF GoodEvents
<1>2. Init => WalInv
  BY ShapeInit, WholeInit DEF WalInv
<1> QED BY <1>1, <1>2, WalInvStep, PTL DEF Spec

(***************************************************************************)
(* Between two appends the in-memory log is the log on file, and each      *)
(* event on file has the number of its place, in whatever life of the      *)
(* process, under every policy, as long as no append failed halfway and    *)
(* the recovery runs before each opening (FileEventLog::open, from_events).*)
(***************************************************************************)
THEOREM MemoryStaysFile == ASSUME RecoverOnOpen PROVE Spec => []MemoryIsFile
<1>1. WalInv => MemoryIsFile
  <2> SUFFICES ASSUME WalInv, ~failed
               PROVE  /\ pc = "idle" => Readable(file, 1) /\ mem = EventsRead(file)
                      /\ \A n \in 1..GoodLines(file) : file.lines[n][1].ev.no = n
    BY DEF MemoryIsFile
  <2>1. /\ GoodLines(file) = Len(file.lines) /\ Len(file.lines) \in Nat
        /\ \A n \in 1..Len(file.lines) : Decodes(file.lines[n], n)
    <3>1. PICK S, T : file \in [lines : Seq(S), tail : T]
      BY DEF WalInv, Shape
    <3> QED BY <3>1, AllGood DEF WalInv, Whole
  <2>2. ASSUME pc = "idle" PROVE Readable(file, 1) /\ mem = EventsRead(file)
    <3>1. LinesRead(file) = file.lines
      BY <2>2 DEF WalInv, Whole, InProgress, LinesRead
    <3>2. Readable(file, 1)
      BY <2>1, <3>1 DEF Readable
    <3>3. mem = EventsRead(file)
      BY <2>2, <3>1 DEF WalInv, Whole, MemoryRead, Published, EventsRead
    <3> QED BY <3>2, <3>3
  <2>3. \A n \in 1..GoodLines(file) : file.lines[n][1].ev.no = n
    BY <2>1 DEF WalInv, Whole, LinesWhole
  <2> QED BY <2>2, <2>3
<1>2. Init => WalInv
  BY ShapeInit, WholeInit DEF WalInv
<1> QED BY <1>1, <1>2, WalInvStep, PTL DEF Spec

-----------------------------------------------------------------------------
(***************************************************************************)
(* What is on file even when appends fail: the inductive invariant.        *)
(***************************************************************************)
FileOf(X) == [lines : Seq(Seq(X)), tail : Seq(X)]

\* Lines are ended only when they can be read.
LinesDecode == \A n \in 1..Len(file.lines) : Decodes(file.lines[n], n)

TailDecodes ==
  /\ \A i \in 1..Len(file.tail) : file.tail[i] # Torn
  /\ file.tail # <<>> => file.tail[1].seq = Len(file.lines) + 1

OnLine(line, e) == \E i \in 1..Len(line) : line[i].ev = e

\* Where the record of the append in progress is.
CurrentPlaced ==
  /\ pc \in {"record", "newline"} => TailDecodes /\ current \in Record
  /\ pc = "record" /\ file.tail = <<>> => current.seq = Len(file.lines) + 1
  /\ pc = "newline" => file.tail # <<>> /\ OnLine(file.tail, current.ev)
  /\ pc \in {"sync", "done"} =>
       Len(file.lines) > 0 /\ OnLine(file.lines[Len(file.lines)], current.ev)

OnFile(k) == \A e \in acked : \E n \in 1..k : OnLine(file.lines[n], e)

AckedPlaced ==
  /\ losses = 0 => OnFile(Len(file.lines))
  /\ policy = 1 => /\ OnFile(synced.lines)
                   /\ pc = "done" => synced.lines = Len(file.lines)

LineInv ==
  /\ \E X : file \in FileOf(X)
  /\ \E S : mem \in Seq(S)
  /\ LinesDecode /\ CurrentPlaced /\ AckedPlaced

(* Writing a token, ending a line and cutting a file make files of tokens. *)
LEMMA TokenWritten ==
  ASSUME NEW X, NEW f \in FileOf(X), NEW t
  PROVE  /\ WriteToken(f, t) \in FileOf(X \cup {t})
         /\ WriteToken(f, t).lines = f.lines
         /\ WriteToken(f, t).tail = Append(f.tail, t)
         /\ Len(f.tail) \in Nat /\ Len(Append(f.tail, t)) = Len(f.tail) + 1
         /\ \A i \in 1..Len(f.tail) : Append(f.tail, t)[i] = f.tail[i]
         /\ Append(f.tail, t)[Len(f.tail) + 1] = t
<1> DEFINE Y == X \cup {t}
<1>1. f.lines \in Seq(Seq(X)) /\ f.tail \in Seq(X)
  BY DEF FileOf
<1>2. f.tail \in Seq(Y) /\ t \in Y
  BY <1>1
<1>3. f.lines \in Seq(Seq(Y))
  <2>1. Seq(X) \subseteq Seq(Y)
    OBVIOUS
  <2> DEFINE A == Seq(X)
             B == Seq(Y)
  <2> HIDE DEF Y
  <2>2. A \subseteq B /\ f.lines \in Seq(A)
    BY <1>1, <2>1
  <2> HIDE DEF A, B
  <2>3. f.lines \in Seq(B)
    BY <2>2
  <2> QED BY <2>3 DEF B
<1>4. /\ Append(f.tail, t) \in Seq(Y)
      /\ Len(f.tail) \in Nat /\ Len(Append(f.tail, t)) = Len(f.tail) + 1
      /\ \A i \in 1..Len(f.tail) : Append(f.tail, t)[i] = f.tail[i]
      /\ Append(f.tail, t)[Len(f.tail) + 1] = t
  <2> HIDE DEF Y
  <2> QED BY <1>2
<1>5. /\ WriteToken(f, t) = [lines |-> f.lines, tail |-> Append(f.tail, t)]
  <2> DEFINE A == Seq(Seq(X))
             B == Seq(X)
  <2>1. f \in [lines : A, tail : B]
    BY DEF FileOf
  <2> HIDE DEF A, B
  <2> QED BY <2>1 DEF WriteToken
<1>6. WriteToken(f, t) \in FileOf(Y)
  <2> DEFINE A == Seq(Seq(Y))
             B == Seq(Y)
  <2>1. f.lines \in A /\ Append(f.tail, t) \in B
    BY <1>3, <1>4
  <2> HIDE DEF A, B, Y
  <2>2. WriteToken(f, t) \in [lines : A, tail : B]
    BY <1>5, <2>1
  <2> QED BY <2>2 DEF FileOf, A, B
<1> QED BY <1>4, <1>5, <1>6

LEMMA LineWritten ==
  ASSUME NEW X, NEW f \in FileOf(X)
  PROVE  /\ EndLine(f) \in FileOf(X)
         /\ EndLine(f).tail = <<>>
         /\ Len(f.lines) \in Nat /\ Len(EndLine(f).lines) = Len(f.lines) + 1
         /\ \A n \in 1..Len(f.lines) : EndLine(f).lines[n] = f.lines[n]
         /\ EndLine(f).lines[Len(f.lines) + 1] = f.tail
<1> DEFINE A == Seq(X)
<1>1. f.lines \in Seq(A) /\ f.tail \in A /\ <<>> \in A
  BY DEF FileOf
<1>2. /\ Append(f.lines, f.tail) \in Seq(A)
      /\ Len(f.lines) \in Nat /\ Len(Append(f.lines, f.tail)) = Len(f.lines) + 1
      /\ \A n \in 1..Len(f.lines) : Append(f.lines, f.tail)[n] = f.lines[n]
      /\ Append(f.lines, f.tail)[Len(f.lines) + 1] = f.tail
  <2> HIDE DEF A
  <2> QED BY <1>1
<1>3. EndLine(f) \in FileOf(X)
  <2> HIDE DEF A
  <2>1. EndLine(f) \in [lines : Seq(A), tail : A]
    BY <1>1, <1>2 DEF EndLine
  <2> QED BY <2>1 DEF FileOf, A
<1> QED BY <1>2, <1>3 DEF EndLine

LEMMA LinesCut ==
  ASSUME NEW X, NEW f \in FileOf(X), NEW k \in 0..Len(f.lines), NEW tail \in Seq(X)
  PROVE  /\ [lines |-> SubSeq(f.lines, 1, k), tail |-> tail] \in FileOf(X)
         /\ Len(SubSeq(f.lines, 1, k)) = k
         /\ \A n \in 1..k : SubSeq(f.lines, 1, k)[n] = f.lines[n]
<1> DEFINE A == Seq(X)
<1>1. f.lines \in Seq(A) /\ tail \in A
  BY DEF FileOf
<1> HIDE DEF A
<1>2. /\ SubSeq(f.lines, 1, k) \in Seq(A) /\ Len(SubSeq(f.lines, 1, k)) = k
      /\ \A n \in 1..k : SubSeq(f.lines, 1, k)[n] = f.lines[n]
  BY <1>1
<1>3. [lines |-> SubSeq(f.lines, 1, k), tail |-> tail] \in [lines : Seq(A), tail : A]
  BY <1>1, <1>2
<1> QED BY <1>2, <1>3 DEF FileOf, A

(* What a power loss leaves is a file of tokens.                           *)
LEMMA SurvivorsAreFiles ==
  ASSUME Shape, NEW X, file \in FileOf(X), PowerLoss
  PROVE  \E Y : file' \in FileOf(Y)
<1> DEFINE Cut(k) == IF k = Len(file.lines) THEN file.tail ELSE file.lines[k + 1]
<1>1. PICK k \in synced.lines..Len(file.lines), t \in 0..Cardinality(Write) :
        /\ t <= Len(Cut(k))
        /\ LET kept == [lines |-> SubSeq(file.lines, 1, k), tail |-> SubSeq(Cut(k), 1, t)]
           IN  file' \in {kept, WriteToken(kept, Torn)}
  BY DEF PowerLoss, Survivors
<1>2. k \in 0..Len(file.lines) /\ Len(file.lines) \in Nat
  BY <1>1 DEF Shape
<1>3. Cut(k) \in Seq(X)
  <2> DEFINE A == Seq(X)
  <2>1. file.lines \in Seq(A) /\ file.tail \in A
    BY DEF FileOf
  <2> HIDE DEF A
  <2>2. Cut(k) \in A
    BY <1>2, <2>1
  <2> QED BY <2>2 DEF A
<1> DEFINE cut == Cut(k)
           kept == [lines |-> SubSeq(file.lines, 1, k), tail |-> SubSeq(cut, 1, t)]
<1>4. cut \in Seq(X) /\ t \in Nat /\ t <= Len(cut) /\ file' \in {kept, WriteToken(kept, Torn)}
  BY <1>1, <1>3
<1> HIDE DEF Cut, cut
<1>5. SubSeq(cut, 1, t) \in Seq(X)
  BY <1>4
<1>6. kept \in FileOf(X)
  BY <1>2, <1>5, LinesCut
<1> HIDE DEF kept
<1>7. CASE file' = kept
  BY <1>6, <1>7
<1>8. CASE file' = WriteToken(kept, Torn)
  <2>1. file' \in FileOf(X \cup {Torn})
    BY <1>6, <1>8, TokenWritten
  <2> QED BY <2>1
<1> QED BY <1>4, <1>7, <1>8

(* What an append, a crash and a recovery leave of a file, and how long    *)
(* its lines are.                                                          *)
LEMMA LinesCounted ==
  ASSUME NEW X, NEW f \in FileOf(X)
  PROVE  /\ Len(f.lines) \in Nat /\ Len(LinesRead(f)) \in Nat
         /\ f.tail = <<>> => LinesRead(f) = f.lines
         /\ f.tail # <<>> => /\ Len(LinesRead(f)) = Len(f.lines) + 1
                             /\ LinesRead(f)[Len(f.lines) + 1] = f.tail
         /\ SubSeq(f.lines, 1, Len(f.lines)) = f.lines
         /\ f \in [lines : Seq(Seq(X)), tail : Seq(X)]
<1> DEFINE A == Seq(X)
<1>1. f \in [lines : Seq(A), tail : A]
  BY DEF FileOf
<1> HIDE DEF A
<1>2. /\ Len(f.lines) \in Nat /\ SubSeq(f.lines, 1, Len(f.lines)) = f.lines
      /\ Len(Append(f.lines, f.tail)) = Len(f.lines) + 1
      /\ Append(f.lines, f.tail)[Len(f.lines) + 1] = f.tail
  BY <1>1
<1> QED BY <1>1, <1>2 DEF LinesRead, A

LEMMA LineInit == Init => LineInv
<1> SUFFICES ASSUME Init PROVE LineInv
  OBVIOUS
<1>1. file = [lines |-> <<>>, tail |-> <<>>] /\ synced.lines = 0
  BY DEF Init, EmptyFile, AllOf
<1>2. file \in FileOf({}) /\ Len(file.lines) = 0
  <2> DEFINE A == Seq({})
  <2>1. <<>> \in Seq(A) /\ <<>> \in A
    OBVIOUS
  <2> HIDE DEF A
  <2>2. file \in [lines : Seq(A), tail : A]
    BY <1>1, <2>1
  <2>3. Len(file.lines) = 0
    BY <1>1
  <2> QED BY <2>2, <2>3 DEF FileOf, A
<1>3. mem \in Seq({})
  BY DEF Init
<1>4. LinesDecode /\ CurrentPlaced /\ AckedPlaced
  BY <1>1, <1>2 DEF Init, LinesDecode, CurrentPlaced, AckedPlaced, OnFile
<1> QED BY <1>2, <1>3, <1>4 DEF LineInv

LEMMA BeginPlaced ==
  ASSUME Shape, LineInv, NEW w \in Write, BeginAppend(w)
  PROVE  LineInv'
<1>1. /\ pc' = "record" /\ current' = NextRecord(w) /\ Readable(file, 1)
      /\ UNCHANGED <<file, synced, policy, mem, acked, losses>>
  BY DEF BeginAppend
<1>2. PICK X : file \in FileOf(X)
  BY DEF LineInv
<1>3. /\ Len(file.lines) \in Nat /\ Len(LinesRead(file)) \in Nat
      /\ file.tail = <<>> => LinesRead(file) = file.lines
      /\ file.tail # <<>> => /\ Len(LinesRead(file)) = Len(file.lines) + 1
                             /\ LinesRead(file)[Len(file.lines) + 1] = file.tail
  BY <1>2, LinesCounted
<1>4. Len(RecordsRead(file)) = Len(LinesRead(file))
  BY <1>3 DEF RecordsRead
<1>5. Len(mem) \in Nat
  <2>1. PICK S : mem \in Seq(S)
    BY DEF LineInv
  <2> QED BY <2>1
<1>6. current' \in Record /\ (file.tail = <<>> => current'.seq = Len(file.lines) + 1)
  BY <1>1, <1>3, <1>4, <1>5 DEF NextRecord, Record
<1>7. TailDecodes
  <2>1. CASE file.tail = <<>>
    BY <2>1 DEF TailDecodes
  <2>2. CASE file.tail # <<>>
    <3>1. Decodes(file.tail, Len(file.lines) + 1)
      BY <1>1, <1>3, <2>2 DEF Readable
    <3> QED BY <3>1 DEF Decodes, TailDecodes
  <2> QED BY <2>1, <2>2
<1>8. CurrentPlaced'
  BY <1>1, <1>6, <1>7 DEF CurrentPlaced, TailDecodes
<1>9. LinesDecode' /\ AckedPlaced'
  BY <1>1 DEF LineInv, LinesDecode, AckedPlaced, OnFile
<1> QED BY <1>1, <1>8, <1>9 DEF LineInv

LEMMA RecordPlaced ==
  ASSUME Shape, LineInv, WriteRecord
  PROVE  LineInv'
<1>1. /\ pc = "record" /\ pc' = "newline" /\ file' = WriteToken(file, current)
      /\ UNCHANGED <<synced, policy, mem, current, acked, losses>>
  BY DEF WriteRecord
<1>2. PICK X : file \in FileOf(X)
  BY DEF LineInv
<1>3. /\ file' \in FileOf(X \cup {current})
      /\ file'.lines = file.lines /\ Len(file.tail) \in Nat
      /\ Len(file'.tail) = Len(file.tail) + 1
      /\ \A i \in 1..Len(file.tail) : file'.tail[i] = file.tail[i]
      /\ file'.tail[Len(file.tail) + 1] = current
  <2>1. /\ WriteToken(file, current) \in FileOf(X \cup {current})
        /\ WriteToken(file, current).lines = file.lines
        /\ WriteToken(file, current).tail = Append(file.tail, current)
    <3>1. WriteToken(file, current) \in FileOf(X \cup {current})
      BY <1>2, TokenWritten
    <3>2. /\ WriteToken(file, current).lines = file.lines
          /\ WriteToken(file, current).tail = Append(file.tail, current)
      <4> DEFINE A == Seq(Seq(X))
                 B == Seq(X)
      <4>1. file \in [lines : A, tail : B]
        BY <1>2 DEF FileOf
      <4> HIDE DEF A, B
      <4> QED BY <4>1 DEF WriteToken
    <3> QED BY <3>1, <3>2
  <2>2. /\ Len(file.tail) \in Nat /\ Len(Append(file.tail, current)) = Len(file.tail) + 1
        /\ \A i \in 1..Len(file.tail) : Append(file.tail, current)[i] = file.tail[i]
        /\ Append(file.tail, current)[Len(file.tail) + 1] = current
    BY <1>2, TokenWritten
  <2> QED BY <1>1, <2>1, <2>2
<1>4. TailDecodes /\ current \in Record
      /\ (file.tail = <<>> => current.seq = Len(file.lines) + 1)
  BY <1>1 DEF LineInv, CurrentPlaced
<1>5. current # Torn
  BY <1>4, WalAssumption DEF WalAssumption, Record
<1>6. file'.tail # <<>>
  <2>1. Len(<<>>) = 0
    OBVIOUS
  <2> QED BY <1>3, <2>1
<1>7. TailDecodes'
  <2>1. \A i \in 1..Len(file'.tail) : file'.tail[i] # Torn
    BY <1>3, <1>4, <1>5 DEF TailDecodes
  <2>2. file'.tail[1].seq = Len(file'.lines) + 1
    <3>1. CASE file.tail = <<>>
      <4>1. Len(file.tail) = 0
        BY <3>1
      <4> QED BY <1>3, <1>4, <3>1, <4>1
    <3>2. CASE file.tail # <<>>
      <4>1. Len(file.tail) > 0
        <5>1. file.tail \in Seq(X)
          BY <1>2 DEF FileOf
        <5> QED BY <3>2, <5>1
      <4> QED BY <1>3, <1>4, <3>2, <4>1 DEF TailDecodes
    <3> QED BY <3>1, <3>2
  <2> QED BY <2>1, <2>2 DEF TailDecodes
<1>8. OnLine(file'.tail, current.ev)
  BY <1>3 DEF OnLine
<1>9. CurrentPlaced'
  BY <1>1, <1>4, <1>6, <1>7, <1>8 DEF CurrentPlaced
<1>10. LinesDecode' /\ AckedPlaced'
  BY <1>1, <1>3 DEF LineInv, LinesDecode, AckedPlaced, OnFile
<1> QED BY <1>1, <1>3, <1>9, <1>10 DEF LineInv

LEMMA NewlinePlaced ==
  ASSUME Shape, LineInv, WriteNewline
  PROVE  LineInv'
<1>1. /\ pc = "newline" /\ pc' \in {"sync", "done"} /\ file' = EndLine(file)
      /\ UNCHANGED <<synced, policy, mem, current, acked, losses>>
  BY DEF WriteNewline
<1>2. PICK X : file \in FileOf(X)
  BY DEF LineInv
<1>3. /\ file' \in FileOf(X) /\ Len(file.lines) \in Nat
      /\ Len(file'.lines) = Len(file.lines) + 1
      /\ \A n \in 1..Len(file.lines) : file'.lines[n] = file.lines[n]
      /\ file'.lines[Len(file.lines) + 1] = file.tail
  BY <1>1, <1>2, LineWritten
<1>4. /\ TailDecodes /\ file.tail # <<>> /\ OnLine(file.tail, current.ev)
      /\ current \in Record
  BY <1>1 DEF LineInv, CurrentPlaced
<1>5. LinesDecode'
  <2>1. Decodes(file.tail, Len(file.lines) + 1)
    BY <1>4 DEF TailDecodes, Decodes
  <2> QED BY <1>3, <2>1 DEF LineInv, LinesDecode
<1>6. CurrentPlaced'
  BY <1>1, <1>3, <1>4 DEF CurrentPlaced
<1>7. AckedPlaced'
  <2>1. policy = 1 => pc' = "sync"
    <3>1. current.seq \in Nat
      BY <1>4 DEF Record
    <3> QED BY <3>1 DEF WriteNewline
  <2>2. losses' = 0 => OnFile(Len(file.lines))'
    BY <1>1, <1>3 DEF LineInv, AckedPlaced, OnFile
  <2>3. policy' = 1 => OnFile(synced.lines)'
    BY <1>1, <1>3 DEF LineInv, AckedPlaced, OnFile, Shape
  <2> QED BY <1>1, <2>1, <2>2, <2>3 DEF AckedPlaced
<1> QED BY <1>1, <1>3, <1>5, <1>6, <1>7 DEF LineInv

LEMMA SyncPlaced ==
  ASSUME Shape, LineInv, Sync
  PROVE  LineInv'
<1>1. /\ pc = "sync" /\ pc' = "done" /\ synced'.lines = Len(file.lines)
      /\ UNCHANGED <<file, policy, mem, current, acked, losses>>
  BY DEF Sync, AllOf
<1>2. Len(file.lines) \in Nat
  BY LinesCounted DEF LineInv
<1>3. LinesDecode' /\ CurrentPlaced'
  BY <1>1 DEF LineInv, LinesDecode, CurrentPlaced
<1>4. AckedPlaced'
  BY <1>1, <1>2 DEF LineInv, AckedPlaced, OnFile, Shape
<1> QED BY <1>1, <1>3, <1>4 DEF LineInv

LEMMA AcknowledgePlaced ==
  ASSUME Shape, LineInv, Acknowledge
  PROVE  LineInv'
<1>1. /\ pc = "done" /\ pc' = "idle" /\ mem' = Append(mem, current.ev)
      /\ acked' = acked \cup {current.ev}
      /\ UNCHANGED <<file, synced, policy, losses>>
  BY DEF Acknowledge
<1>2. Len(file.lines) \in Nat
  BY LinesCounted DEF LineInv
<1>3. \E S : mem' \in Seq(S)
  <2>1. PICK S : mem \in Seq(S)
    BY DEF LineInv
  <2> DEFINE A == S \cup {current.ev}
  <2>2. mem \in Seq(A) /\ current.ev \in A
    BY <2>1
  <2> HIDE DEF A
  <2>3. mem' \in Seq(A)
    BY <1>1, <2>2
  <2> QED BY <2>3
<1>4. Len(file.lines) > 0 /\ OnLine(file.lines[Len(file.lines)], current.ev)
  BY <1>1 DEF LineInv, CurrentPlaced
<1>5. LinesDecode' /\ CurrentPlaced'
  BY <1>1 DEF LineInv, LinesDecode, CurrentPlaced
<1>6. AckedPlaced'
  BY <1>1, <1>2, <1>4 DEF LineInv, AckedPlaced, OnFile
<1> QED BY <1>1, <1>3, <1>5, <1>6 DEF LineInv

LEMMA StoppedPlaced ==
  ASSUME Shape, LineInv, AppendFails \/ ProcessCrash
  PROVE  LineInv'
<1>1. /\ pc' \in {"idle", "down"} /\ mem' \in {mem, <<>>}
      /\ file' \in {file, WriteToken(file, Torn)}
      /\ UNCHANGED <<synced, policy, acked, losses>>
  BY DEF AppendFails, ProcessCrash, Down
<1>2. PICK X : file \in FileOf(X)
  BY DEF LineInv
<1>3. file'.lines = file.lines /\ \E Y : file' \in FileOf(Y)
  <2>1. /\ WriteToken(file, Torn) \in FileOf(X \cup {Torn})
        /\ WriteToken(file, Torn).lines = file.lines
    BY <1>2, TokenWritten
  <2> QED BY <1>1, <1>2, <2>1
<1>4. \E S : mem' \in Seq(S)
  <2>1. <<>> \in Seq({})
    OBVIOUS
  <2> QED BY <1>1, <2>1 DEF LineInv
<1>5. LinesDecode' /\ CurrentPlaced' /\ AckedPlaced'
  BY <1>1, <1>3 DEF LineInv, LinesDecode, CurrentPlaced, AckedPlaced, OnFile
<1> QED BY <1>3, <1>4, <1>5 DEF LineInv

LEMMA PowerLossPlaced ==
  ASSUME Shape, LineInv, PowerLoss
  PROVE  LineInv'
<1>1. pc' = "down" /\ mem' = <<>> /\ UNCHANGED <<policy, acked>>
  BY DEF PowerLoss, Down
<1>2. \E Y : file' \in FileOf(Y)
  BY SurvivorsAreFiles DEF LineInv
<1>3. /\ synced.lines <= Len(file'.lines) /\ Len(file'.lines) <= Len(file.lines)
      /\ \A n \in 1..Len(file'.lines) : file'.lines[n] = file.lines[n]
      /\ synced'.lines = Len(file'.lines) /\ losses' = losses + 1
  BY PowerLossCuts
<1>4. Len(file'.lines) \in Nat
  BY <1>2, LinesCounted
<1>5. Len(file.lines) \in Nat /\ synced.lines \in Nat /\ losses' # 0
  BY <1>3, LinesCounted DEF LineInv, Shape
<1>6. LinesDecode' /\ CurrentPlaced'
  BY <1>1, <1>3, <1>4, <1>5 DEF LineInv, LinesDecode, CurrentPlaced
<1>7. AckedPlaced'
  BY <1>1, <1>3, <1>4, <1>5 DEF LineInv, AckedPlaced, OnFile
<1>8. mem' \in Seq({})
  BY <1>1
<1> QED BY <1>2, <1>6, <1>7, <1>8 DEF LineInv

(* All lines decode, so that the recovery cuts none of them.               *)
LEMMA AllDecode ==
  ASSUME LineInv
  PROVE  GoodLines(file) = Len(file.lines)
<1>1. PICK X : file \in FileOf(X)
  BY DEF LineInv
<1>2. Len(file.lines) \in Nat /\ file \in [lines : Seq(Seq(X)), tail : Seq(X)]
  BY <1>1, LinesCounted
<1>3. /\ GoodLines(file) \in 0..Len(file.lines)
      /\ GoodLines(file) < Len(file.lines) =>
           ~Decodes(file.lines[GoodLines(file) + 1], GoodLines(file) + 1)
  BY <1>2, GoodLinesExist
<1>4. ASSUME GoodLines(file) < Len(file.lines) PROVE FALSE
  <2>1. GoodLines(file) + 1 \in 1..Len(file.lines)
    BY <1>2, <1>3, <1>4
  <2>2. Decodes(file.lines[GoodLines(file) + 1], GoodLines(file) + 1)
    BY <2>1 DEF LineInv, LinesDecode
  <2> QED BY <1>3, <1>4, <2>2
<1> QED BY <1>2, <1>3, <1>4

LEMMA OpenPlaced ==
  ASSUME Shape, LineInv, Open
  PROVE  LineInv'
<1>1. /\ pc' = "idle" /\ mem' = EventsRead(file') /\ UNCHANGED <<policy, acked, losses>>
      /\ file' \in {file, Truncated(file)}
  BY DEF Open
<1>2. PICK X : file \in FileOf(X)
  BY DEF LineInv
<1>3. Len(file.lines) \in Nat /\ SubSeq(file.lines, 1, Len(file.lines)) = file.lines
  BY <1>2, LinesCounted
<1>4. Truncated(file) = [lines |-> SubSeq(file.lines, 1, Len(file.lines)), tail |-> <<>>]
  BY AllDecode DEF Truncated
<1>5. file'.lines = file.lines /\ file' \in FileOf(X)
  <2>1. <<>> \in Seq(X)
    OBVIOUS
  <2>2. Truncated(file) \in FileOf(X)
    <3>1. Len(file.lines) \in 0..Len(file.lines)
      BY <1>3
    <3>2. [lines |-> SubSeq(file.lines, 1, Len(file.lines)), tail |-> <<>>] \in FileOf(X)
      BY <1>2, <2>1, <3>1, LinesCut
    <3> QED BY <1>4, <3>2
  <2> QED BY <1>1, <1>2, <1>3, <1>4, <2>2
<1>6. \E S : mem' \in Seq(S)
  <2>1. Len(LinesRead(file')) \in Nat
    BY <1>5, LinesCounted
  <2> DEFINE k == Len(LinesRead(file'))
             Ev(n) == LinesRead(file')[n][1].ev
             S == {Ev(n) : n \in 1..k}
  <2>2. mem' = [n \in 1..k |-> Ev(n)] /\ k \in Nat
    BY <1>1, <2>1 DEF EventsRead
  <2>3. \A n \in 1..k : Ev(n) \in S
    OBVIOUS
  <2> HIDE DEF k, Ev, S
  <2>4. mem' \in Seq(S)
    BY <2>2, <2>3
  <2> QED BY <2>4
<1>7. synced'.lines \in {synced.lines, Len(file.lines)} /\ synced.lines \in 0..Len(file.lines)
  BY <1>5, OpenCuts DEF Shape
<1>8. LinesDecode' /\ CurrentPlaced'
  BY <1>1, <1>5 DEF LineInv, LinesDecode, CurrentPlaced
<1>9. AckedPlaced'
  BY <1>1, <1>3, <1>5, <1>7 DEF LineInv, AckedPlaced, OnFile
<1> QED BY <1>5, <1>6, <1>8, <1>9 DEF LineInv

LEMMA LineStep == Shape /\ LineInv /\ [Next]_vars => LineInv'
<1> SUFFICES ASSUME Shape, LineInv, [Next]_vars PROVE LineInv'
  OBVIOUS
<1>1. CASE UNCHANGED vars
  BY <1>1 DEF vars, LineInv, LinesDecode, TailDecodes, CurrentPlaced, OnFile, AckedPlaced
<1>2. CASE Next
  BY <1>2, BeginPlaced, RecordPlaced, NewlinePlaced, SyncPlaced, AcknowledgePlaced,
     StoppedPlaced, PowerLossPlaced, OpenPlaced DEF Next
<1> QED BY <1>1, <1>2

(***************************************************************************)
(* Whatever fails, and with or without the recovery, the bytes of what was *)
(* acknowledged stay in a line that the recovery keeps, as far as the      *)
(* policy promises: a record is written behind a failed one only when the  *)
(* file, failed record included, can be read (append_with_metadata reads   *)
(* it first).                                                              *)
(***************************************************************************)
THEOREM AckedStayOnFile == Spec => []AckedOnFile
<1>1. Shape /\ LineInv => AckedOnFile
  <2> SUFFICES ASSUME Shape, LineInv, policy = 1 \/ losses = 0, NEW e \in acked
               PROVE  \E n \in 1..GoodLines(file) :
                        \E i \in 1..Len(file.lines[n]) : file.lines[n][i].ev = e
    BY DEF AckedOnFile, Durable
  <2>1. Len(file.lines) \in Nat /\ synced.lines \in 0..Len(file.lines)
    BY LinesCounted DEF LineInv, Shape
  <2>2. \E n \in 1..Len(file.lines) : OnLine(file.lines[n], e)
    BY <2>1 DEF LineInv, AckedPlaced, OnFile
  <2> QED BY <2>2, AllDecode DEF OnLine
<1>2. Init => Shape /\ LineInv
  BY ShapeInit, LineInit
<1>3. Shape /\ LineInv /\ [Next]_vars => Shape' /\ LineInv'
  BY ShapeStep, LineStep
<1> QED BY <1>1, <1>2, <1>3, PTL DEF Spec

-----------------------------------------------------------------------------
(***************************************************************************)
(* The group commit: which fsyncs have not happened, and what they cost.   *)
(***************************************************************************)

\* No acknowledged event is of the write being appended.
Fresh ==
  /\ \A e \in acked : e.write \in asked
  /\ pc \in {"record", "newline", "sync", "done"} =>
       /\ current.ev.write \in asked
       /\ \A e \in acked : e.write # current.ev.write

Overdue == {n \in synced.lines + 1 .. Len(file.lines) : n % policy = 0}

\* Each fsync that is overdue, but for the one being done, has cost a crash
\* before its event was acknowledged.
SyncsMissed ==
  /\ \A n \in Overdue : file.lines[n][1].ev \notin acked
  /\ pc = "sync" => Len(file.lines) % policy = 0
  /\ pc = "done" => Len(file.lines) \notin Overdue
  /\ (Len(file.lines) \div policy) - (synced.lines \div policy)
       <= crashes + (IF pc = "sync" THEN 1 ELSE 0)

RiskInv ==
  /\ WalInv /\ Fresh
  /\ policy \in Nat /\ crashes \in Nat
  /\ policy > 0 /\ ~failed => SyncsMissed

(* Division by the n of EveryNWrites(n).                                   *)
LEMMA Divided ==
  ASSUME NEW p \in Nat, p > 0, NEW n \in Nat
  PROVE  /\ n \div p \in Nat /\ n % p \in 0 .. p - 1
         /\ n = p * (n \div p) + (n % p)
OBVIOUS

LEMMA Multiples ==
  ASSUME NEW p \in Nat, p > 0, NEW a \in Nat, NEW b \in Nat, NEW r \in 0 .. p - 1,
         NEW s \in 0 .. p - 1, p * a + r <= p * b + s
  PROVE  a <= b /\ (a = b => r <= s)
<1>1. ASSUME b + 1 <= a PROVE FALSE
  <2>1. p * (b + 1) <= p * a
    <3>1. \E d \in Nat : a = b + 1 + d
      <4>1. a - (b + 1) \in Nat /\ a = b + 1 + (a - (b + 1))
        BY <1>1
      <4> QED BY <4>1
    <3>2. PICK d \in Nat : a = b + 1 + d
      BY <3>1
    <3>3. p * a = p * (b + 1) + p * d /\ p * d >= 0
      BY <3>2
    <3> QED BY <3>3
  <2>2. p * (b + 1) = p * b + p
    OBVIOUS
  <2> QED BY <2>1, <2>2
<1> QED BY <1>1

LEMMA DividedInOrder ==
  ASSUME NEW p \in Nat, p > 0, NEW m \in Nat, NEW n \in Nat, m <= n
  PROVE  /\ m \div p <= n \div p
         /\ m < n /\ n % p = 0 => m \div p < n \div p
         /\ m \div p = n \div p /\ m % p = n % p => m = n
<1>1. /\ m \div p \in Nat /\ m % p \in 0 .. p - 1 /\ m = p * (m \div p) + (m % p)
      /\ n \div p \in Nat /\ n % p \in 0 .. p - 1 /\ n = p * (n \div p) + (n % p)
  BY Divided
<1> DEFINE a == m \div p  b == n \div p  r == m % p  s == n % p
<1>2. a \in Nat /\ b \in Nat /\ r \in 0 .. p - 1 /\ s \in 0 .. p - 1
      /\ m = p * a + r /\ n = p * b + s
  BY <1>1
<1> HIDE DEF a, b, r, s
<1>3. a <= b /\ (a = b => r <= s)
  BY <1>2, Multiples
<1>4. a = b /\ r = s => m = n
  BY <1>2
<1>5. m < n /\ s = 0 => a < b
  <2>1. a = b /\ s = 0 => r = 0
    BY <1>2, <1>3
  <2> QED BY <1>2, <1>3, <1>4, <2>1
<1> QED BY <1>3, <1>4, <1>5 DEF a, b, r, s

LEMMA DividedNext ==
  ASSUME NEW p \in Nat, p > 0, NEW n \in Nat
  PROVE  (n + 1) \div p = (n \div p) + (IF (n + 1) % p = 0 THEN 1 ELSE 0)
<1> DEFINE a == n \div p  b == (n + 1) \div p  r == n % p  s == (n + 1) % p
<1>1. /\ a \in Nat /\ b \in Nat /\ r \in 0 .. p - 1 /\ s \in 0 .. p - 1
      /\ n = p * a + r /\ n + 1 = p * b + s
  BY Divided
<1> HIDE DEF a, b, r, s
<1>2. a <= b /\ (a = b => r <= s)
  BY <1>1, Multiples
<1>3. CASE s = 0
  <2>1. a # b
    BY <1>1, <1>2, <1>3
  <2>2. ASSUME b > a + 1 PROVE FALSE
    <3>1. p * (a + 1) = p * a + p
      BY <1>1
    <3>2. p * (a + 1) + 0 <= p * b + s /\ p * b <= p * (a + 1) + 0
      BY <1>1, <1>2, <1>3, <3>1, <2>2
    <3>3. b <= a + 1
      BY <1>1, <3>2, Multiples
    <3> QED BY <1>1, <2>2, <3>3
  <2>3. b = a + 1
    BY <1>1, <1>2, <2>1, <2>2
  <2> QED BY <1>3, <2>3 DEF a, b, s
<1>4. CASE s # 0
  <2>1. p * b + (s - 1) <= p * a + r /\ s - 1 \in 0 .. p - 1
    BY <1>1, <1>4
  <2>2. b <= a
    BY <1>1, <2>1, Multiples
  <2> QED BY <1>1, <1>2, <1>4, <2>2 DEF a, b, s
<1> QED BY <1>3, <1>4

-----------------------------------------------------------------------------
(* The writes that are acknowledged have been asked for, and are done.     *)
LEMMA FreshStep == Fresh /\ [Next]_vars => Fresh'
<1> SUFFICES ASSUME Fresh, [Next]_vars PROVE Fresh'
  OBVIOUS
<1>1. CASE UNCHANGED vars
  BY <1>1 DEF vars, Fresh
<1>2. ASSUME NEW w \in Write, BeginAppend(w) PROVE Fresh'
  <2>1. w \notin asked /\ current'.ev.write = w /\ asked' = asked \cup {w} /\ acked' = acked
    BY <1>2 DEF BeginAppend, NextRecord
  <2> QED BY <2>1 DEF Fresh
<1>3. CASE WriteRecord \/ WriteNewline \/ Sync
  BY <1>3 DEF WriteRecord, WriteNewline, Sync, Fresh
<1>4. CASE Acknowledge
  BY <1>4 DEF Acknowledge, Fresh
<1>5. CASE AppendFails \/ ProcessCrash \/ PowerLoss \/ Open
  <2>1. pc' \in {"idle", "down"} /\ UNCHANGED <<asked, acked>>
    BY <1>5 DEF AppendFails, ProcessCrash, PowerLoss, Down, Open
  <2> QED BY <2>1 DEF Fresh
<1> QED BY <1>1, <1>2, <1>3, <1>4, <1>5 DEF Next

(* The numbers the invariant speaks of.                                    *)
LEMMA RiskNumbers ==
  ASSUME RiskInv, policy > 0
  PROVE  /\ Len(file.lines) \in Nat /\ synced.lines \in Nat /\ synced.lines <= Len(file.lines)
         /\ policy \in Nat /\ crashes \in Nat
         /\ Len(file.lines) \div policy \in Nat /\ synced.lines \div policy \in Nat
<1>1. PICK S, T : file \in [lines : Seq(S), tail : T]
  BY DEF RiskInv, WalInv, Shape
<1>2. Len(file.lines) \in Nat /\ synced.lines \in 0..Len(file.lines)
  BY <1>1 DEF RiskInv, WalInv, Shape
<1>3. policy \in Nat /\ crashes \in Nat
  BY DEF RiskInv
<1>4. synced.lines \in Nat /\ synced.lines <= Len(file.lines)
  BY <1>2
<1>5. Len(file.lines) \div policy \in Nat /\ synced.lines \div policy \in Nat
  BY <1>2, <1>3, <1>4, Divided
<1> QED BY <1>2, <1>3, <1>4, <1>5

(* Where nothing is unsynced, nothing is overdue.                          *)
LEMMA NothingOverdue ==
  ASSUME Len(file'.lines) \in Nat, synced'.lines = Len(file'.lines),
         policy' \in Nat, policy' > 0, crashes' \in Nat, pc' # "sync"
  PROVE  SyncsMissed'
<1>1. Overdue' = {}
  BY DEF Overdue
<1>2. Len(file'.lines) \div policy' \in Nat
  BY Divided
<1> QED BY <1>1, <1>2 DEF SyncsMissed

(* The newline of a record makes a fsync due when the policy says so.      *)
LEMMA NewlineMissed ==
  ASSUME RiskInv, policy > 0, ~failed, WriteNewline
  PROVE  SyncsMissed'
<1>1. /\ Len(file.lines) \in Nat /\ synced.lines \in Nat /\ synced.lines <= Len(file.lines)
      /\ policy \in Nat /\ crashes \in Nat
      /\ Len(file.lines) \div policy \in Nat /\ synced.lines \div policy \in Nat
  BY RiskNumbers
<1>2. /\ pc = "newline" /\ file' = EndLine(file) /\ UNCHANGED <<synced, policy, acked, crashes>>
      /\ pc' = IF current.seq % policy = 0 THEN "sync" ELSE "done"
  BY <1>1 DEF WriteNewline
<1>3. /\ Len(file'.lines) = Len(file.lines) + 1
      /\ file'.lines[Len(file.lines) + 1] = file.tail
      /\ \A n \in 1..Len(file.lines) : file'.lines[n] = file.lines[n]
  BY <1>2, LineEnded, FileWritten DEF RiskInv, WalInv, Shape
<1>4. file.tail = <<current>> /\ current.seq = Len(file.lines) + 1
  BY <1>2 DEF RiskInv, WalInv, Whole, InProgress
<1>5. ASSUME NEW n \in Overdue' PROVE file'.lines[n][1].ev \notin acked'
  <2>1. n \in synced.lines + 1 .. Len(file.lines) + 1 /\ n % policy = 0
    BY <1>2, <1>3 DEF Overdue
  <2>2. CASE n = Len(file.lines) + 1
    BY <1>2, <1>3, <1>4, <2>2 DEF RiskInv, Fresh
  <2>3. CASE n # Len(file.lines) + 1
    <3>1. n \in Overdue /\ file'.lines[n] = file.lines[n]
      BY <1>1, <1>3, <2>1, <2>3 DEF Overdue
    <3> QED BY <1>2, <3>1 DEF RiskInv, SyncsMissed
  <2> QED BY <2>2, <2>3
<1>6. /\ pc' = "sync" => Len(file'.lines) % policy' = 0
      /\ pc' = "done" => Len(file'.lines) \notin Overdue'
  BY <1>2, <1>3, <1>4 DEF Overdue
<1>7. Len(file'.lines) \div policy = (Len(file.lines) \div policy) + (IF pc' = "sync" THEN 1 ELSE 0)
  BY <1>1, <1>2, <1>3, <1>4, DividedNext
<1>8. (Len(file.lines) \div policy) - (synced.lines \div policy) <= crashes
  BY <1>1, <1>2 DEF RiskInv, SyncsMissed
<1>9. (Len(file'.lines) \div policy') - (synced'.lines \div policy')
        <= crashes' + (IF pc' = "sync" THEN 1 ELSE 0)
  <2> DEFINE a == Len(file'.lines) \div policy  b == Len(file.lines) \div policy
             c == synced.lines \div policy      d == IF pc' = "sync" THEN 1 ELSE 0
  <2>1. b \in Nat /\ c \in Nat /\ d \in Nat /\ crashes \in Nat /\ a = b + d /\ b - c <= crashes
    BY <1>1, <1>7, <1>8
  <2> HIDE DEF a, b, c, d
  <2>2. a - c <= crashes + d
    BY <2>1
  <2>3. policy' = policy /\ synced' = synced /\ crashes' = crashes
    BY <1>2
  <2> QED BY <2>2, <2>3 DEF a, c, d
<1> QED BY <1>5, <1>6, <1>9 DEF SyncsMissed

(* An event is acknowledged with its fsync done or not yet due.            *)
LEMMA AcknowledgeMissed ==
  ASSUME RiskInv, policy > 0, ~failed, Acknowledge
  PROVE  SyncsMissed'
<1>1. /\ pc = "done" /\ pc' = "idle" /\ acked' = acked \cup {current.ev}
      /\ UNCHANGED <<file, synced, policy, crashes>>
  BY DEF Acknowledge
<1>2. SyncsMissed /\ Overdue' = Overdue
  BY <1>1 DEF RiskInv, Overdue
<1>3. Len(file.lines) \in Nat /\ synced.lines \in Nat
  BY RiskNumbers
<1>4. file.lines[Len(file.lines)] = <<current>> /\ Len(file.lines) > 0 /\ LinesWhole
  BY <1>1 DEF RiskInv, WalInv, Whole, InProgress
<1>5. current.ev.no = Len(file.lines)
  <2>1. PICK r \in Record : file.lines[Len(file.lines)] = <<r>> /\ r.ev.no = Len(file.lines)
    BY <1>3, <1>4 DEF LinesWhole
  <2> QED BY <1>4, <2>1
<1>6. ASSUME NEW n \in Overdue PROVE file.lines[n][1].ev \notin acked'
  <2>1. n # Len(file.lines) /\ n \in 1..Len(file.lines) /\ file.lines[n][1].ev \notin acked
    BY <1>1, <1>2, <1>3 DEF SyncsMissed, Overdue
  <2>2. PICK r \in Record : file.lines[n] = <<r>> /\ r.ev.no = n
    BY <1>4, <2>1 DEF LinesWhole
  <2> QED BY <1>1, <1>5, <2>1, <2>2
<1> QED BY <1>1, <1>2, <1>6 DEF SyncsMissed

(* A crash may keep one fsync from happening; a power loss leaves nothing  *)
(* unsynced.                                                               *)
LEMMA CrashMissed ==
  ASSUME RiskInv, Shape', policy > 0, ~failed, ProcessCrash \/ PowerLoss
  PROVE  SyncsMissed'
<1>1. /\ Len(file.lines) \in Nat /\ synced.lines \in Nat /\ policy \in Nat /\ crashes \in Nat
      /\ Len(file.lines) \div policy \in Nat /\ synced.lines \div policy \in Nat
  BY RiskNumbers
<1>2. pc' = "down" /\ crashes' = crashes + 1 /\ UNCHANGED <<policy, acked>>
  BY DEF ProcessCrash, PowerLoss, Down
<1>3. CASE ProcessCrash
  <2>1. file'.lines = file.lines /\ synced' = synced
    BY <1>3 DEF ProcessCrash, WriteToken, RiskInv, WalInv, Shape
  <2>2. Overdue' = Overdue
    BY <1>2, <2>1 DEF Overdue
  <2> DEFINE b == Len(file.lines) \div policy   c == synced.lines \div policy
  <2>3. /\ \A n \in Overdue : file.lines[n][1].ev \notin acked
        /\ b - c <= crashes + (IF pc = "sync" THEN 1 ELSE 0)
    BY DEF RiskInv, SyncsMissed
  <2>4. b \in Nat /\ c \in Nat /\ crashes \in Nat
    BY <1>1
  <2> HIDE DEF b, c
  <2>5. b - c <= crashes + 1 + 0
    BY <2>3, <2>4
  <2>6. (Len(file'.lines) \div policy') - (synced'.lines \div policy') <= crashes' + 0
    BY <1>1, <1>2, <2>1, <2>5 DEF b, c
  <2>7. \A n \in Overdue' : file'.lines[n][1].ev \notin acked'
    BY <1>2, <2>1, <2>2, <2>3
  <2> QED BY <1>2, <2>6, <2>7 DEF SyncsMissed
<1>4. CASE PowerLoss
  <2>1. synced'.lines = Len(file'.lines) /\ Len(file'.lines) \in Nat
    <3>1. PICK S, T : file' \in [lines : Seq(S), tail : T]
      BY DEF Shape
    <3> QED BY <1>4, <3>1, PowerLossCuts DEF RiskInv, WalInv
  <2>2. policy' \in Nat /\ policy' > 0 /\ crashes' \in Nat /\ pc' # "sync"
    BY <1>1, <1>2
  <2> QED BY <2>1, <2>2, NothingOverdue
<1> QED BY <1>3, <1>4

(* A sync, and the recovery's, leave nothing unsynced.                     *)
LEMMA SyncMissed ==
  ASSUME RiskInv, policy > 0, ~failed, Sync
  PROVE  SyncsMissed'
<1>1. /\ pc' = "done" /\ synced'.lines = Len(file.lines) /\ UNCHANGED <<file, policy, crashes>>
  BY DEF Sync, AllOf
<1>2. Len(file.lines) \in Nat /\ policy \in Nat /\ crashes \in Nat
  BY RiskNumbers
<1>3. /\ Len(file'.lines) \in Nat /\ synced'.lines = Len(file'.lines)
      /\ policy' \in Nat /\ policy' > 0 /\ crashes' \in Nat /\ pc' # "sync"
  BY <1>1, <1>2
<1> QED BY <1>3, NothingOverdue

LEMMA OpenMissed ==
  ASSUME RiskInv, Shape', policy > 0, ~failed, Open
  PROVE  SyncsMissed'
<1>1. pc = "down" /\ pc' = "idle" /\ UNCHANGED <<policy, acked, crashes>>
  BY DEF Open
<1>2. policy \in Nat /\ crashes \in Nat
  BY RiskNumbers
<1>3. Shape
  BY DEF RiskInv, WalInv
<1>4. CASE file' = file
  <2>1. synced' = synced
    BY <1>3, <1>4, OpenCuts
  <2> QED BY <1>1, <1>4, <2>1 DEF RiskInv, SyncsMissed, Overdue
<1>5. CASE file' # file
  <2>1. synced'.lines = Len(file'.lines)
    BY <1>3, <1>5, OpenCuts
  <2>2. PICK S, T : file' \in [lines : Seq(S), tail : T]
    BY DEF Shape
  <2>3. /\ Len(file'.lines) \in Nat
        /\ policy' \in Nat /\ policy' > 0 /\ crashes' \in Nat /\ pc' # "sync"
    BY <1>1, <1>2, <2>2
  <2> QED BY <2>1, <2>3, NothingOverdue
<1> QED BY <1>4, <1>5

LEMMA RiskInvStep == ASSUME RecoverOnOpen PROVE RiskInv /\ [Next]_vars => RiskInv'
<1> SUFFICES ASSUME RiskInv, [Next]_vars PROVE RiskInv'
  OBVIOUS
<1>1. WalInv' /\ Fresh' /\ Shape'
  BY WalInvStep, FreshStep DEF RiskInv, WalInv
<1>2. policy' = policy /\ crashes' \in {crashes, crashes + 1} /\ (failed => failed')
  BY DEF Next, vars, BeginAppend, WriteRecord, WriteNewline, Sync, Acknowledge, AppendFails,
         ProcessCrash, PowerLoss, Down, Open
<1>3. policy' \in Nat /\ crashes' \in Nat
  BY <1>2 DEF RiskInv
<1>4. ASSUME policy' > 0, ~failed' PROVE SyncsMissed'
  <2>1. policy > 0 /\ ~failed /\ SyncsMissed
    BY <1>2, <1>4 DEF RiskInv
  <2>2. CASE UNCHANGED vars
    BY <2>1, <2>2 DEF vars, SyncsMissed, Overdue
  <2>3. CASE (\E w \in Write : BeginAppend(w)) \/ WriteRecord
    <3>1. /\ file'.lines = file.lines /\ UNCHANGED <<synced, policy, acked, crashes>>
          /\ pc \in {"idle", "record"} /\ pc' \in {"record", "newline"}
      BY <2>3 DEF BeginAppend, WriteRecord, WriteToken, RiskInv, WalInv, Shape
    <3> QED BY <2>1, <3>1 DEF SyncsMissed, Overdue
  <2>4. CASE WriteNewline \/ Sync \/ Acknowledge
    BY <2>1, <2>4, NewlineMissed, SyncMissed, AcknowledgeMissed
  <2>5. CASE ProcessCrash \/ PowerLoss \/ Open
    BY <1>1, <2>1, <2>5, CrashMissed, OpenMissed
  <2>6. ~AppendFails
    BY <1>4 DEF AppendFails
  <2> QED BY <2>2, <2>3, <2>4, <2>5, <2>6 DEF Next
<1> QED BY <1>1, <1>3, <1>4 DEF RiskInv

(* The numbers of the acknowledged events at risk are those of no due      *)
(* fsync, so that their quotients and remainders tell them apart.          *)
LEMMA RiskIsBounded == RiskInv => RiskBounded
<1> SUFFICES ASSUME RiskInv, policy > 0, ~failed
             PROVE  Cardinality(AtRisk) <= (policy - 1) * (crashes + 1)
  BY DEF RiskBounded
<1> DEFINE L == Len(file.lines)
           b == synced.lines \div policy
           Places == (0 .. crashes) \X (1 .. policy - 1)
           place == [e \in AtRisk |-> <<(e.no \div policy) - b, e.no % policy>>]
<1>1. /\ L \in Nat /\ synced.lines \in Nat /\ synced.lines <= L
      /\ policy \in Nat /\ crashes \in Nat /\ L \div policy \in Nat /\ b \in Nat
  BY RiskNumbers
<1>2. SyncsMissed /\ LinesWhole /\ GoodLines(file) = L
  BY AllGood DEF RiskInv, WalInv, Whole
<1>3. ASSUME NEW e \in AtRisk
      PROVE  /\ e.no \in synced.lines + 1 .. L /\ e = file.lines[e.no][1].ev
             /\ e.no \in Nat /\ e.no % policy \in 1 .. policy - 1
             /\ (e.no \div policy) \in b .. b + crashes
  <2>1. PICK n \in synced.lines + 1 .. L : e = file.lines[n][1].ev /\ e \in acked
    BY <1>2 DEF AtRisk
  <2>2. n \in 1..L
    BY <1>1, <2>1
  <2>3. PICK r \in Record : file.lines[n] = <<r>> /\ r.ev.no = n
    BY <1>2, <2>2 DEF LinesWhole
  <2>4. e.no = n
    BY <2>1, <2>3
  <2>5. n % policy # 0
    BY <1>2, <2>1 DEF SyncsMissed, Overdue
  <2>6. n % policy \in 0 .. policy - 1 /\ n \div policy \in Nat
    BY <1>1, <2>2, Divided
  <2>7. b <= n \div policy /\ n \div policy <= L \div policy
    <3>1. n \in Nat /\ synced.lines <= n /\ n <= L
      BY <1>1, <2>1, <2>2
    <3>2. synced.lines \div policy <= n \div policy
      BY <1>1, <3>1, DividedInOrder
    <3>3. n \div policy <= L \div policy
      <4> HIDE DEF L
      <4> QED BY <1>1, <3>1, DividedInOrder
    <3> QED BY <3>2, <3>3
  <2>8. (n \div policy) - b <= crashes
    <3>1. CASE pc = "sync"
      <4>1. L % policy = 0 /\ (L \div policy) - b <= crashes + 1
        BY <1>2, <3>1 DEF SyncsMissed
      <4>2. n < L
        BY <2>2, <2>5, <4>1
      <4> HIDE DEF b, L
      <4>3. n \div policy < L \div policy
        <5>1. n \in Nat /\ n <= L
          BY <1>1, <2>2
        <5> QED BY <1>1, <4>1, <4>2, <5>1, DividedInOrder
      <4> QED BY <1>1, <2>6, <4>1, <4>3
    <3>2. CASE pc # "sync"
      <4>1. (L \div policy) - b <= crashes + 0
        BY <1>2, <3>2 DEF SyncsMissed
      <4> HIDE DEF b, L
      <4> QED BY <1>1, <2>6, <2>7, <4>1
    <3> QED BY <3>1, <3>2
  <2> HIDE DEF b, L
  <2> QED BY <1>1, <2>1, <2>2, <2>4, <2>5, <2>6, <2>7, <2>8
<1>4. place \in [AtRisk -> Places]
  <2> SUFFICES ASSUME NEW e \in AtRisk
               PROVE  <<(e.no \div policy) - b, e.no % policy>> \in Places
    OBVIOUS
  <2>1. e.no % policy \in 1 .. policy - 1 /\ (e.no \div policy) \in b .. b + crashes
    BY <1>3
  <2> HIDE DEF b
  <2> QED BY <1>1, <2>1
<1>5. ASSUME NEW e \in AtRisk, NEW f \in AtRisk, place[e] = place[f] PROVE e = f
  <2>1. (e.no \div policy) - b = (f.no \div policy) - b /\ e.no % policy = f.no % policy
    BY <1>5
  <2>2. /\ e.no \in Nat /\ f.no \in Nat
        /\ e.no \div policy \in b .. b + crashes /\ f.no \div policy \in b .. b + crashes
        /\ e = file.lines[e.no][1].ev /\ f = file.lines[f.no][1].ev
    BY <1>3
  <2> HIDE DEF b
  <2>3. e.no \div policy = f.no \div policy
    BY <1>1, <2>1, <2>2
  <2>4. e.no <= f.no \/ f.no <= e.no
    BY <2>2
  <2>5. e.no = f.no
    BY <1>1, <2>1, <2>2, <2>3, <2>4, DividedInOrder
  <2> QED BY <2>2, <2>5
<1>6. place \in Injection(AtRisk, Places)
  <2> HIDE DEF place, Places
  <2> QED BY <1>4, <1>5 DEF Injection, IsInjective
<1>7. /\ IsFiniteSet(0 .. crashes) /\ Cardinality(0 .. crashes) = crashes + 1
      /\ IsFiniteSet(1 .. policy - 1) /\ Cardinality(1 .. policy - 1) = policy - 1
  <2>1. 0 \in Int /\ 1 \in Int /\ crashes \in Int /\ policy - 1 \in Int
    BY <1>1
  <2>2. /\ IsFiniteSet(0 .. crashes)
        /\ Cardinality(0 .. crashes) = IF 0 > crashes THEN 0 ELSE crashes - 0 + 1
    BY <2>1, FS_Interval
  <2>3. /\ IsFiniteSet(1 .. policy - 1)
        /\ Cardinality(1 .. policy - 1) = IF 1 > policy - 1 THEN 0 ELSE (policy - 1) - 1 + 1
    BY <2>1, FS_Interval
  <2> QED BY <1>1, <2>2, <2>3
<1>8. IsFiniteSet(Places) /\ Cardinality(Places) = (crashes + 1) * (policy - 1)
  BY <1>7, FS_Product
<1>9. Cardinality(AtRisk) <= Cardinality(Places)
  <2> HIDE DEF place, Places
  <2> QED BY <1>6, <1>8, FS_Injection
<1>10. (crashes + 1) * (policy - 1) = (policy - 1) * (crashes + 1)
  BY <1>1
<1> HIDE DEF Places
<1> QED BY <1>8, <1>9, <1>10

(***************************************************************************)
(* With EveryNWrites(n), whatever n is, at most n - 1 acknowledged events  *)
(* are at the mercy of a power loss, and n - 1 more for each crash, as     *)
(* long as no append failed halfway and the recovery runs before each      *)
(* opening (WalFsyncPolicy, append_with_metadata).                         *)
(***************************************************************************)
THEOREM GroupCommitBounded == ASSUME RecoverOnOpen PROVE Spec => []RiskBounded
<1>1. Init => RiskInv
  <2> SUFFICES ASSUME Init PROVE RiskInv
    OBVIOUS
  <2>1. WalInv
    BY ShapeInit, WholeInit DEF WalInv
  <2>2. Fresh /\ policy \in Nat /\ crashes = 0
    BY WalAssumption DEF Init, Fresh, WalAssumption
  <2>3. ASSUME policy > 0 PROVE SyncsMissed
    <3>1. Len(file.lines) = 0 /\ synced.lines = 0 /\ pc = "idle"
      BY DEF Init, EmptyFile, AllOf
    <3>2. Overdue = {}
      BY <3>1 DEF Overdue
    <3>3. 0 \div policy \in Nat
      BY <2>2, <2>3, Divided
    <3> QED BY <2>2, <3>1, <3>2, <3>3 DEF SyncsMissed
  <2> QED BY <2>1, <2>2, <2>3 DEF RiskInv
<1> QED BY <1>1, RiskInvStep, RiskIsBounded, PTL DEF Spec
=============================================================================
