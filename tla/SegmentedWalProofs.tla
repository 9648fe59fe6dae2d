------------------------- MODULE SegmentedWalProofs -------------------------
(***************************************************************************)
(* Proofs about SegmentedWal, for any events, segment size and number of   *)
(* crashes, of any interleaving of appends, failures, archive jobs and     *)
(* recoveries.                                                             *)
(*                                                                         *)
(* The invariant is in four parts, each good for as long as the code keeps *)
(* it: TypeOK always, Numbering until a second segment is quarantined,     *)
(* Settled until a first one is, Exact until an append fails or a segment  *)
(* is quarantined.  Each step is looked at through what it makes of a      *)
(* directory: a file written or a manifest listed, files taken or joined.  *)
(***************************************************************************)
EXTENDS SegmentedWal, FiniteSetTheorems, WellFoundedInduction, TLAPS

-----------------------------------------------------------------------------
(* Files.                                                                  *)

Record    == [seq : Nat, ev : Write]
Token(R)  == R \cup {Torn}
Line(R)   == Seq(Token(R)) \ {<<>>}
FileOver(R) == [lines : Seq(Line(R)), tail : Seq(Token(R))]

LEMMA Appended ==
  ASSUME NEW S, NEW s \in Seq(S), NEW x \in S
  PROVE  /\ Append(s, x) \in Seq(S) /\ Append(s, x) # <<>>
         /\ Len(Append(s, x)) = Len(s) + 1 /\ Len(s) \in Nat
         /\ Append(s, x)[Len(s) + 1] = x
         /\ \A i \in 1..Len(s) : Append(s, x)[i] = s[i]
<1>1. Append(s, x) \in Seq(S) /\ Len(Append(s, x)) = Len(s) + 1 /\ Len(s) \in Nat
  OBVIOUS
<1>2. Append(s, x) # <<>>
  BY <1>1
<1> QED  BY <1>1, <1>2

LEMMA FileParts ==
  ASSUME NEW R, NEW f \in FileOver(R)
  PROVE  /\ f = [lines |-> f.lines, tail |-> f.tail]
         /\ f.lines \in Seq(Line(R)) /\ f.tail \in Seq(Token(R))
<1> DEFINE A == Seq(Line(R))
           B == Seq(Token(R))
<1>1. f \in [lines : A, tail : B]
  BY DEF FileOver
<1> HIDE DEF A, B
<1>2. f = [lines |-> f.lines, tail |-> f.tail] /\ f.lines \in A /\ f.tail \in B
  BY <1>1
<1> QED  BY <1>2 DEF A, B

LEMMA FileMade ==
  ASSUME NEW R, NEW l \in Seq(Line(R)), NEW t \in Seq(Token(R))
  PROVE  [lines |-> l, tail |-> t] \in FileOver(R)
<1> DEFINE A == Seq(Line(R))
           B == Seq(Token(R))
<1>1. l \in A /\ t \in B
  OBVIOUS
<1> HIDE DEF A, B
<1>2. [lines |-> l, tail |-> t] \in [lines : A, tail : B]
  BY <1>1
<1> QED  BY <1>2 DEF A, B, FileOver

LEMMA EmptyFileIs ==
  ASSUME NEW R
  PROVE  EmptyFile \in FileOver(R) /\ EmptyFile.lines = <<>> /\ EmptyFile.tail = <<>>
<1>1. <<>> \in Seq(Line(R)) /\ <<>> \in Seq(Token(R))
  OBVIOUS
<1> QED  BY <1>1, FileMade DEF EmptyFile

LEMMA TokenWritten ==
  ASSUME NEW R, NEW f \in FileOver(R), NEW t \in Token(R)
  PROVE  /\ WriteToken(f, t) \in FileOver(R)
         /\ WriteToken(f, t).lines = f.lines
         /\ WriteToken(f, t).tail = Append(f.tail, t)
         /\ WriteToken(f, t).tail # <<>>
<1>1. /\ f = [lines |-> f.lines, tail |-> f.tail]
      /\ f.lines \in Seq(Line(R)) /\ f.tail \in Seq(Token(R))
  BY FileParts
<1> DEFINE A == Seq(Line(R))
           B == Seq(Token(R))
           u == Append(f.tail, t)
<1>2. f \in [lines : A, tail : B]
  BY DEF FileOver
<1>3. u \in B /\ u # <<>>
  BY <1>1, Appended
<1>4. WriteToken(f, t) = [f EXCEPT !.tail = u]
  BY DEF WriteToken
<1> HIDE DEF A, B, u
<1>5. [f EXCEPT !.tail = u] = [lines |-> f.lines, tail |-> u]
  BY <1>2
<1> QED  BY <1>1, <1>3, <1>4, <1>5, FileMade DEF B, u

LEMMA LineEnded ==
  ASSUME NEW R, NEW f \in FileOver(R), f.tail # <<>>
  PROVE  /\ EndLine(f) \in FileOver(R)
         /\ EndLine(f).lines = Append(f.lines, f.tail)
         /\ EndLine(f).lines # <<>>
         /\ EndLine(f).tail = <<>>
<1>1. f.lines \in Seq(Line(R)) /\ f.tail \in Seq(Token(R))
  BY FileParts
<1>2. f.tail \in Line(R)
  BY <1>1 DEF Line
<1>3. Append(f.lines, f.tail) \in Seq(Line(R)) /\ Append(f.lines, f.tail) # <<>>
  <2> DEFINE A == Line(R)
  <2>1. f.lines \in Seq(A) /\ f.tail \in A
    BY <1>1, <1>2
  <2> HIDE DEF A
  <2>2. Append(f.lines, f.tail) \in Seq(A) /\ Append(f.lines, f.tail) # <<>>
    BY <2>1, Appended
  <2> QED  BY <2>2 DEF A
<1>4. <<>> \in Seq(Token(R))
  OBVIOUS
<1> QED  BY <1>3, <1>4, FileMade DEF EndLine

LEMMA LinesReadAre ==
  ASSUME NEW R, NEW f \in FileOver(R)
  PROVE  /\ LinesRead(f) \in Seq(Line(R))
         /\ Len(LinesRead(f)) = IF f.tail = <<>> THEN Len(f.lines) ELSE Len(f.lines) + 1
         /\ Len(LinesRead(f)) \in Nat /\ Len(f.lines) \in Nat
         /\ Len(f.lines) <= Len(LinesRead(f))
         /\ \A i \in 1..Len(f.lines) : LinesRead(f)[i] = f.lines[i]
         /\ (LinesRead(f) = <<>>) <=> (f.lines = <<>> /\ f.tail = <<>>)
<1> DEFINE A == Line(R)
           l == f.lines
           t == f.tail
<1>1. l \in Seq(A) /\ t \in Seq(Token(R))
  BY FileParts
<1>2. t # <<>> => t \in A
  BY <1>1 DEF Line
<1>3. LinesRead(f) = IF t = <<>> THEN l ELSE Append(l, t)
  BY DEF LinesRead
<1> HIDE DEF A, l, t
<1>4. CASE t = <<>>
  BY <1>1, <1>3, <1>4 DEF A, l, t
<1>5. CASE t # <<>>
  <2>1. /\ Append(l, t) \in Seq(A) /\ Len(Append(l, t)) = Len(l) + 1 /\ Len(l) \in Nat
        /\ \A i \in 1..Len(l) : Append(l, t)[i] = l[i]
        /\ Append(l, t) # <<>>
    BY <1>1, <1>2, <1>5
  <2>2. LinesRead(f) = Append(l, t)
    BY <1>3, <1>5
  <2> QED  BY <2>1, <2>2, <1>5 DEF A, l, t
<1> QED  BY <1>4, <1>5

LEMMA RecordsReadAre ==
  ASSUME NEW R, NEW f \in FileOver(R), NEW n \in Nat, Readable(f, n), Torn \notin R
  PROVE  /\ RecordsRead(f) \in Seq(R) /\ Len(RecordsRead(f)) = Len(LinesRead(f))
         /\ \A i \in 1..Len(RecordsRead(f)) :
              RecordsRead(f)[i] \in R /\ RecordsRead(f)[i].seq = n + i - 1
<1>1. LinesRead(f) \in Seq(Line(R)) /\ Len(LinesRead(f)) \in Nat
  BY LinesReadAre
<1>2. ASSUME NEW i \in 1..Len(LinesRead(f))
      PROVE  LinesRead(f)[i][1] \in R /\ LinesRead(f)[i][1].seq = n + i - 1
  <2> DEFINE line == LinesRead(f)[i]
  <2>1. line \in Line(R)
    BY <1>1
  <2>2. line \in Seq(Token(R)) /\ line # <<>>
    BY <2>1 DEF Line
  <2>3. Decodes(line, n + i - 1)
    BY DEF Readable
  <2> HIDE DEF line
  <2>4. 1 \in 1..Len(line)
    BY <2>2
  <2>5. line[1] \in Token(R)
    BY <2>2, <2>4
  <2>6. line[1] # Torn /\ line[1].seq = n + i - 1
    BY <2>3, <2>4 DEF Decodes
  <2> QED  BY <2>5, <2>6 DEF Token, line
<1> DEFINE m == Len(LinesRead(f))
           s == RecordsRead(f)
<1>3. s = [i \in 1..m |-> LinesRead(f)[i][1]]
  BY DEF RecordsRead
<1>4. m \in Nat
  BY <1>1
<1>5. \A i \in 1..m : s[i] \in R /\ s[i].seq = n + i - 1
  BY <1>2, <1>3
<1> HIDE DEF m, s
<1>6. DOMAIN s = 1..m
  BY <1>3
<1>7. s \in [1..m -> R]
  BY <1>3, <1>5, <1>6
<1>8. s \in Seq(R) /\ Len(s) = m
  BY <1>4, <1>7
<1> QED  BY <1>5, <1>8 DEF m, s

-----------------------------------------------------------------------------
(* Numbers.                                                                *)

LEMMA MinIsLeast ==
  ASSUME NEW S \in SUBSET Nat, S # {}
  PROVE  MinOf(S) \in S /\ \A y \in S : MinOf(S) <= y
<1> DEFINE Below == {p \in Nat \X Nat : p[1] < p[2]}
<1>1. IsWellFoundedOn(Below, Nat)
  BY NatLessThanWellFounded DEF OpToRel
<1>2. PICK m \in S : \A y \in S : ~ (<<y, m>> \in Below)
  <2> HIDE DEF Below
  <2> QED  BY <1>1, WFMin, Zenon
<1>3. ASSUME NEW y \in S  PROVE m <= y
  <2>1. m \in Nat /\ y \in Nat
    BY <1>2
  <2>2. <<y, m>> \notin Below
    BY <1>2
  <2> QED  BY <2>1, <2>2
<1> QED  BY <1>2, <1>3 DEF MinOf

LEMMA MaxIsGreatest ==
  ASSUME NEW S \in SUBSET Nat, S # {}, NEW n \in Nat, \A y \in S : y <= n
  PROVE  MaxOf(S) \in S /\ \A y \in S : y <= MaxOf(S)
<1> DEFINE Above == {k \in Nat : \A y \in S : y <= k}
           m == MinOf(Above)
<1>1. m \in Above /\ \A k \in Above : m <= k
  <2>1. Above \in SUBSET Nat /\ Above # {}
    BY Zenon
  <2> HIDE DEF Above
  <2> QED  BY <2>1, MinIsLeast
<1>2. m \in Nat /\ \A y \in S : y <= m
  BY <1>1
<1>3. \A k \in Nat : (\A y \in S : y <= k) => m <= k
  BY <1>1
<1> HIDE DEF Above, m
<1>4. m \in S
  <2> SUFFICES ASSUME m \notin S  PROVE FALSE
    OBVIOUS
  <2>1. \A y \in S : y <= m - 1
    BY <1>2
  <2>2. m - 1 \in Nat
    <3>1. PICK y \in S : TRUE
      OBVIOUS
    <3> QED  BY <3>1, <2>1, <1>2
  <2> QED  BY <2>1, <2>2, <1>2, <1>3
<1> QED  BY <1>2, <1>4 DEF MaxOf

SegmentId == Nat \ {0}

\* The number that the first record of a segment has.
Start(id) == (id - 1) * MaxSegment + 1

LEMMA StartIs ==
  /\ Start(1) = 1
  /\ \A id \in SegmentId : Start(id) \in Nat /\ Start(id) >= 1
  /\ \A id \in SegmentId : Start(id + 1) = Start(id) + MaxSegment
  /\ \A a, b \in SegmentId : a < b => Start(a) + MaxSegment <= Start(b)
<1>1. MaxSegment \in Nat /\ MaxSegment >= 1
  BY SegmentAssumption
<1>2. ASSUME NEW id \in SegmentId  PROVE (id - 1) * MaxSegment \in Nat
  BY <1>1 DEF SegmentId
<1>3. ASSUME NEW id \in SegmentId  PROVE id * MaxSegment = (id - 1) * MaxSegment + MaxSegment
  BY <1>1 DEF SegmentId
<1>4. ASSUME NEW a \in SegmentId, NEW b \in SegmentId, a < b
      PROVE  (a - 1) * MaxSegment + MaxSegment <= (b - 1) * MaxSegment
  <2>1. PICK k \in Nat : b = a + 1 + k
    <3>1. b - a - 1 \in Nat /\ b = a + 1 + (b - a - 1)
      BY <1>4 DEF SegmentId
    <3> QED  BY <3>1
  <2>2. (b - 1) * MaxSegment = (a - 1) * MaxSegment + MaxSegment + k * MaxSegment
    BY <2>1, <1>1 DEF SegmentId
  <2>3. k * MaxSegment >= 0 /\ k * MaxSegment \in Nat
    BY <1>1
  <2> QED  BY <2>2, <2>3, <1>2, <1>1
<1> QED  BY <1>1, <1>2, <1>3, <1>4 DEF Start, SegmentId

-----------------------------------------------------------------------------
(* Directories, and what a step makes of one.                              *)

IsDir(d) == d = [wal |-> d.wal, man |-> d.man]

FilesTyped(d) == \A id \in Segments(d) : d.wal[id] \in FileOver(Record)
ManifestsTyped(d) == \A id \in DOMAIN d.man : d.man[id] \in Seq(Record) \ {<<>>}
Bounded(d) == \E n \in Nat : \A id \in Segments(d) : id <= n

LogTyped(d) ==
  /\ IsDir(d) /\ FilesTyped(d) /\ ManifestsTyped(d) /\ Bounded(d)
  /\ Segments(d) \subseteq SegmentId /\ DOMAIN d.man \subseteq SegmentId

\* From d to e: the file f was written, the manifest m was, files were taken.
Wrote(d, e, id, f) ==
  /\ IsDir(e) /\ e.man = d.man
  /\ Segments(e) = Segments(d) \cup {id} /\ e.wal[id] = f
  /\ \A k \in Segments(d) : k # id => e.wal[k] = d.wal[k]

Listed(d, e, id, m) ==
  /\ IsDir(e) /\ e.wal = d.wal
  /\ DOMAIN e.man = DOMAIN d.man \cup {id} /\ e.man[id] = m
  /\ \A k \in DOMAIN d.man : k # id => e.man[k] = d.man[k]

Taken(d, e, W, M) ==
  /\ IsDir(e)
  /\ Segments(e) = Segments(d) \ W /\ DOMAIN e.man = DOMAIN d.man \ M
  /\ \A k \in Segments(d) \ W : e.wal[k] = d.wal[k]
  /\ \A k \in DOMAIN d.man \ M : e.man[k] = d.man[k]

LEMMA RemoveIs ==
  ASSUME NEW f, NEW K
  PROVE  /\ DOMAIN Remove(f, K) = DOMAIN f \ K
         /\ \A x \in DOMAIN f \ K : Remove(f, K)[x] = f[x]
<1> DEFINE p == Remove(f, K)
<1>1. p = [x \in DOMAIN f \ K |-> f[x]]
  BY DEF Remove
<1> HIDE DEF p
<1>2. DOMAIN p = DOMAIN f \ K
  BY <1>1
<1>3. \A x \in DOMAIN f \ K : p[x] = f[x]
  BY <1>1
<1> QED  BY <1>2, <1>3 DEF p

LEMMA FileWritten ==
  ASSUME NEW d, NEW id, NEW f, IsDir(d)
  PROVE  Wrote(d, [d EXCEPT !.wal = Put(@, id, f)], id, f)
<1> DEFINE p == Put(d.wal, id, f)
           e == [d EXCEPT !.wal = Put(@, id, f)]
<1>1. e = [d EXCEPT !.wal = p]
  OBVIOUS
<1>2. /\ DOMAIN p = DOMAIN d.wal \cup {id} /\ p[id] = f
      /\ \A x \in DOMAIN d.wal : x # id => p[x] = d.wal[x]
  <2>1. p = [x \in DOMAIN d.wal \cup {id} |-> IF x = id THEN f ELSE d.wal[x]]
    BY DEF Put
  <2> HIDE DEF e, p
  <2>2. DOMAIN p = DOMAIN d.wal \cup {id}
    BY <2>1
  <2> QED  BY <2>1, <2>2
<1>3. d = [wal |-> d.wal, man |-> d.man]
  BY DEF IsDir
<1> HIDE DEF p, e
<1>4. e = [wal |-> p, man |-> d.man]
  BY <1>1, <1>3
<1>5. e.wal = p /\ e.man = d.man
  BY <1>4
<1> QED  BY <1>2, <1>4, <1>5 DEF Wrote, IsDir, Segments, e

LEMMA ManifestWritten ==
  ASSUME NEW d, NEW id, NEW m, IsDir(d)
  PROVE  Listed(d, [d EXCEPT !.man = Put(@, id, m)], id, m)
<1> DEFINE p == Put(d.man, id, m)
           e == [d EXCEPT !.man = Put(@, id, m)]
<1>1. e = [d EXCEPT !.man = p]
  OBVIOUS
<1>2. /\ DOMAIN p = DOMAIN d.man \cup {id} /\ p[id] = m
      /\ \A x \in DOMAIN d.man : x # id => p[x] = d.man[x]
  <2>1. p = [x \in DOMAIN d.man \cup {id} |-> IF x = id THEN m ELSE d.man[x]]
    BY DEF Put
  <2> HIDE DEF e, p
  <2>2. DOMAIN p = DOMAIN d.man \cup {id}
    BY <2>1
  <2> QED  BY <2>1, <2>2
<1>3. d = [wal |-> d.wal, man |-> d.man]
  BY DEF IsDir
<1> HIDE DEF p, e
<1>4. e = [wal |-> d.wal, man |-> p]
  BY <1>1, <1>3
<1>5. e.wal = d.wal /\ e.man = p
  BY <1>4
<1> QED  BY <1>2, <1>4, <1>5 DEF Listed, IsDir, e

LEMMA FilesTaken ==
  ASSUME NEW d, NEW W, NEW M
  PROVE  Taken(d, Without(d, W, M), W, M)
<1> DEFINE p == Remove(d.wal, W)
           q == Remove(d.man, M)
           e == Without(d, W, M)
<1>1. e = [wal |-> p, man |-> q]
  BY DEF Without
<1>2. /\ DOMAIN p = DOMAIN d.wal \ W /\ \A x \in DOMAIN d.wal \ W : p[x] = d.wal[x]
      /\ DOMAIN q = DOMAIN d.man \ M /\ \A x \in DOMAIN d.man \ M : q[x] = d.man[x]
  BY RemoveIs
<1> HIDE DEF p, q, e
<1>3. e.wal = p /\ e.man = q
  BY <1>1
<1> QED  BY <1>1, <1>2, <1>3 DEF Taken, IsDir, Segments, e

LEMMA FileTaken ==
  ASSUME NEW d, NEW K, IsDir(d)
  PROVE  /\ Taken(d, [d EXCEPT !.wal = Remove(@, K)], K, {})
         /\ Taken(d, [d EXCEPT !.man = Remove(@, K)], {}, K)
<1> DEFINE p == Remove(d.wal, K)
           q == Remove(d.man, K)
           e == [d EXCEPT !.wal = Remove(@, K)]
           g == [d EXCEPT !.man = Remove(@, K)]
<1>1. e = [d EXCEPT !.wal = p] /\ g = [d EXCEPT !.man = q]
  OBVIOUS
<1>2. /\ DOMAIN p = DOMAIN d.wal \ K /\ \A x \in DOMAIN d.wal \ K : p[x] = d.wal[x]
      /\ DOMAIN q = DOMAIN d.man \ K /\ \A x \in DOMAIN d.man \ K : q[x] = d.man[x]
  BY RemoveIs
<1>3. d = [wal |-> d.wal, man |-> d.man]
  BY DEF IsDir
<1> HIDE DEF p, q, e, g
<1>4. e = [wal |-> p, man |-> d.man] /\ g = [wal |-> d.wal, man |-> q]
  BY <1>1, <1>3
<1>5. e.wal = p /\ e.man = d.man /\ g.wal = d.wal /\ g.man = q
  BY <1>4
<1>6. Taken(d, e, K, {})
  BY <1>2, <1>4, <1>5 DEF Taken, IsDir, Segments
<1>7. Taken(d, g, {}, K)
  BY <1>2, <1>4, <1>5 DEF Taken, IsDir, Segments
<1> QED  BY <1>6, <1>7 DEF e, g

LEMMA WroteTyped ==
  ASSUME NEW d, NEW e, NEW id \in SegmentId, NEW f \in FileOver(Record),
         LogTyped(d), Wrote(d, e, id, f)
  PROVE  LogTyped(e)
<1>1. \A k \in Segments(e) : k = id \/ (k \in Segments(d) /\ k # id)
  BY DEF Wrote
<1>2. FilesTyped(e)
  BY <1>1 DEF Wrote, LogTyped, FilesTyped
<1>3. ManifestsTyped(e) /\ DOMAIN e.man \subseteq SegmentId
  BY DEF Wrote, LogTyped, ManifestsTyped
<1>4. Bounded(e)
  <2>1. PICK n \in Nat : \A k \in Segments(d) : k <= n
    BY DEF LogTyped, Bounded
  <2>2. \A k \in Segments(e) : k <= n + id
    BY <1>1, <2>1 DEF LogTyped, SegmentId
  <2>3. n + id \in Nat
    BY DEF SegmentId
  <2> QED  BY <2>2, <2>3 DEF Bounded
<1>5. Segments(e) \subseteq SegmentId /\ IsDir(e)
  BY <1>1 DEF Wrote, LogTyped
<1> QED  BY <1>2, <1>3, <1>4, <1>5 DEF LogTyped

LEMMA ListedTyped ==
  ASSUME NEW d, NEW e, NEW id \in SegmentId, NEW m \in Seq(Record) \ {<<>>},
         LogTyped(d), Listed(d, e, id, m)
  PROVE  LogTyped(e)
<1>1. Segments(e) = Segments(d)
  BY DEF Listed, Segments
<1>2. FilesTyped(e) /\ Bounded(e) /\ Segments(e) \subseteq SegmentId
  BY <1>1 DEF Listed, LogTyped, FilesTyped, Bounded
<1>3. \A k \in DOMAIN e.man : k = id \/ (k \in DOMAIN d.man /\ k # id)
  BY DEF Listed
<1>4. ManifestsTyped(e) /\ DOMAIN e.man \subseteq SegmentId
  BY <1>3 DEF Listed, LogTyped, ManifestsTyped
<1> QED  BY <1>2, <1>4 DEF LogTyped, Listed

LEMMA TakenTyped ==
  ASSUME NEW d, NEW e, NEW W, NEW M, LogTyped(d), Taken(d, e, W, M)
  PROVE  LogTyped(e)
<1>1. \A k \in Segments(e) : k \in Segments(d) /\ e.wal[k] = d.wal[k]
  BY DEF Taken
<1>2. \A k \in DOMAIN e.man : k \in DOMAIN d.man /\ e.man[k] = d.man[k]
  BY DEF Taken
<1>3. FilesTyped(e) /\ ManifestsTyped(e)
  BY <1>1, <1>2 DEF LogTyped, FilesTyped, ManifestsTyped
<1>4. Bounded(e)
  BY <1>1 DEF LogTyped, Bounded
<1> QED  BY <1>1, <1>2, <1>3, <1>4 DEF LogTyped, Taken

-----------------------------------------------------------------------------
(* What each action does to the directories.                               *)

Appending == {"record", "newline", "manifest", "done"}
Archiving == {"archive_wal", "archive_manifest"}

\* From q to r: the segment files W of d were moved in.
Joined(q, r, d, W) ==
  /\ IsDir(r) /\ Segments(r) = Segments(q) \cup (Segments(d) \cap W)
  /\ \A k \in Segments(r) :
       r.wal[k] = IF k \in Segments(d) \cap W THEN d.wal[k] ELSE q.wal[k]

LEMMA FilesJoined ==
  ASSUME NEW q, NEW d, NEW W, NEW M
  PROVE  Joined(q, MovedInto(q, d, W, M), d, W)
<1> DEFINE o == Only(d.wal, W)
           p == Overlay(q.wal, o)
           n == Overlay(q.man, Only(d.man, M))
           r == MovedInto(q, d, W, M)
<1>1. r = [wal |-> p, man |-> n]
  BY DEF MovedInto
<1>2. DOMAIN o = DOMAIN d.wal \cap W /\ \A k \in DOMAIN d.wal \cap W : o[k] = d.wal[k]
  <2>1. o = [x \in DOMAIN d.wal \cap W |-> d.wal[x]]
    BY DEF Only
  <2> HIDE DEF o
  <2> QED  BY <2>1
<1>3. /\ DOMAIN p = DOMAIN q.wal \cup DOMAIN o
      /\ \A k \in DOMAIN p : p[k] = IF k \in DOMAIN o THEN o[k] ELSE q.wal[k]
  <2>1. p = [x \in DOMAIN q.wal \cup DOMAIN o |-> IF x \in DOMAIN o THEN o[x] ELSE q.wal[x]]
    BY DEF Overlay
  <2> HIDE DEF o, p, r, n
  <2>2. DOMAIN p = DOMAIN q.wal \cup DOMAIN o
    BY <2>1
  <2> QED  BY <2>1, <2>2
<1> HIDE DEF o, p, n, r
<1>4. r.wal = p /\ IsDir(r)
  BY <1>1 DEF IsDir
<1> QED  BY <1>2, <1>3, <1>4 DEF Joined, Segments, r

LEMMA JoinedTyped ==
  ASSUME NEW q, NEW r, NEW d, NEW W, FilesTyped(q), FilesTyped(d), Joined(q, r, d, W)
  PROVE  FilesTyped(r)
<1>1. ASSUME NEW k \in Segments(r)  PROVE r.wal[k] \in FileOver(Record)
  <2>1. CASE k \in Segments(d) \cap W
    BY <2>1 DEF Joined, FilesTyped
  <2>2. CASE k \notin Segments(d) \cap W
    BY <2>2 DEF Joined, FilesTyped
  <2> QED  BY <2>1, <2>2
<1> QED  BY <1>1 DEF FilesTyped

LEMMA Steps ==
  ASSUME IsDir(live), IsDir(arch)
  PROVE  /\ WriteRecord => Wrote(live, live', target, WriteToken(FileAt(target), current))
         /\ WriteNewline => Wrote(live, live', target, EndLine(FileAt(target)))
         /\ RewriteManifest /\ pc' = "done" =>
              Listed(live, live', target, RecordsRead(FileAt(target)))
         /\ ArchiveWal => /\ Taken(live, live', {MinOf(todo)}, {})
                          /\ Wrote(arch, arch', MinOf(todo), live.wal[MinOf(todo)])
         /\ ArchiveManifest => /\ Taken(live, live', {}, {MinOf(todo)})
                               /\ Listed(arch, arch', MinOf(todo), live.man[MinOf(todo)])
<1>1. WriteRecord => Wrote(live, live', target, WriteToken(FileAt(target), current))
  BY FileWritten DEF WriteRecord
<1>2. WriteNewline => Wrote(live, live', target, EndLine(FileAt(target)))
  BY FileWritten DEF WriteNewline
<1>3. RewriteManifest /\ pc' = "done" =>
        Listed(live, live', target, RecordsRead(FileAt(target)))
  BY ManifestWritten DEF RewriteManifest
<1>4. ArchiveWal => /\ Taken(live, live', {MinOf(todo)}, {})
                    /\ Wrote(arch, arch', MinOf(todo), live.wal[MinOf(todo)])
  <2> SUFFICES ASSUME ArchiveWal
               PROVE  /\ Taken(live, live', {MinOf(todo)}, {})
                      /\ Wrote(arch, arch', MinOf(todo), live.wal[MinOf(todo)])
    OBVIOUS
  <2> DEFINE id == MinOf(todo)
  <2>1. /\ arch' = [arch EXCEPT !.wal = Put(@, id, live.wal[id])]
        /\ live' = [live EXCEPT !.wal = Remove(@, {id})]
    BY DEF ArchiveWal
  <2> HIDE DEF id
  <2>2. Taken(live, live', {id}, {})
    BY <2>1, FileTaken
  <2>3. Wrote(arch, arch', id, live.wal[id])
    BY <2>1, FileWritten
  <2> QED  BY <2>2, <2>3 DEF id
<1>5. ArchiveManifest => /\ Taken(live, live', {}, {MinOf(todo)})
                         /\ Listed(arch, arch', MinOf(todo), live.man[MinOf(todo)])
  <2> SUFFICES ASSUME ArchiveManifest
               PROVE  /\ Taken(live, live', {}, {MinOf(todo)})
                      /\ Listed(arch, arch', MinOf(todo), live.man[MinOf(todo)])
    OBVIOUS
  <2> DEFINE id == MinOf(todo)
  <2>1. /\ arch' = [arch EXCEPT !.man = Put(@, id, live.man[id])]
        /\ live' = [live EXCEPT !.man = Remove(@, {id})]
    BY DEF ArchiveManifest
  <2> HIDE DEF id
  <2>2. Taken(live, live', {}, {id})
    BY <2>1, FileTaken
  <2>3. Listed(arch, arch', id, live.man[id])
    BY <2>1, ManifestWritten
  <2> QED  BY <2>2, <2>3 DEF id
<1> QED  BY <1>1, <1>2, <1>3, <1>4, <1>5

LEMMA InterruptedIs ==
  ASSUME IsDir(live), live' \in Interrupted
  PROVE  \/ live' = live
         \/ pc = "record" /\ Wrote(live, live', target, FileAt(target))
         \/ pc = "record" /\ Wrote(live, live', target, WriteToken(FileAt(target), Torn))
<1>1. CASE pc # "record"
  BY <1>1 DEF Interrupted
<1>2. CASE pc = "record"
  <2>1. \/ live' = live
        \/ live' = [live EXCEPT !.wal = Put(@, target, FileAt(target))]
        \/ live' = [live EXCEPT !.wal = Put(@, target, WriteToken(FileAt(target), Torn))]
    BY <1>2 DEF Interrupted
  <2> QED  BY <2>1, <1>2, FileWritten
<1> QED  BY <1>1, <1>2

LEMMA QuarantineIs ==
  ASSUME NEW W, NEW M, Quarantine(W, M)
  PROVE  Taken(live, live', W, M) /\ Joined(quar, quar', live, W)
BY FilesTaken, FilesJoined DEF Quarantine

-----------------------------------------------------------------------------
(* Type correctness.                                                       *)

HasToken(s, t) == \E i \in 1..Len(s) : s[i] = t
InLines(f, t)  == \E n \in 1..Len(f.lines) : HasToken(f.lines[n], t)

\* An append under way has a record, which is where the step it is at says.
AppendTyped ==
  pc \in Appending =>
    /\ target \in SegmentId /\ current \in Record
    /\ pc # "record" => target \in Segments(live)
    /\ pc = "newline" => HasToken(live.wal[target].tail, current)
    /\ pc \in {"manifest", "done"} => InLines(live.wal[target], current)

\* The segment whose manifest alone the archive job has left to move.
Leftover == IF pc = "archive_manifest" THEN {MinOf(todo)} ELSE {}

ArchiveTyped ==
  pc \in Archiving =>
    /\ todo # {} /\ todo \subseteq DOMAIN live.man
    /\ todo \ Leftover \subseteq Segments(live)

TypeOK ==
  /\ LogTyped(live)
  /\ IsDir(arch) /\ FilesTyped(arch)
  /\ IsDir(quar) /\ FilesTyped(quar)
  /\ moved \in Nat
  /\ AppendTyped /\ ArchiveTyped

LEMMA LastIs ==
  ASSUME NEW d, LogTyped(d), Segments(d) # {}
  PROVE  /\ MaxOf(Segments(d)) \in Segments(d)
         /\ \A k \in Segments(d) : k <= MaxOf(Segments(d))
<1>1. PICK n \in Nat : \A id \in Segments(d) : id <= n
  BY DEF LogTyped, Bounded
<1>2. Segments(d) \in SUBSET Nat
  BY DEF LogTyped, SegmentId
<1> QED  BY <1>1, <1>2, MaxIsGreatest

LEMMA LastSequenceTyped ==
  ASSUME NEW d, LogTyped(d), AllManifested(d)
  PROVE  LastSequence(d) \in Nat /\ ActiveSegment(d) \in SegmentId
<1>1. CASE Segments(d) = {}
  BY <1>1 DEF LastSequence, ActiveSegment, SegmentId
<1>2. CASE Segments(d) # {}
  <2> DEFINE last == MaxOf(Segments(d))
             m == d.man[last]
  <2>1. last \in Segments(d) /\ last \in DOMAIN d.man /\ last \in SegmentId
    BY <1>2, LastIs DEF AllManifested, LogTyped
  <2>2. m \in Seq(Record) /\ m # <<>>
    BY <2>1 DEF LogTyped, ManifestsTyped
  <2>3. LastSequence(d) = m[Len(m)].seq
    BY <1>2 DEF LastSequence, LastSeq
  <2>4. ActiveSegment(d) = last + 1 \/ ActiveSegment(d) = last
    BY <1>2 DEF ActiveSegment
  <2> HIDE DEF m, last
  <2>5. m[Len(m)] \in Record
    BY <2>2
  <2> QED  BY <2>1, <2>3, <2>4, <2>5 DEF Record, SegmentId
<1> QED  BY <1>1, <1>2

LEMMA FileAtIs ==
  ASSUME NEW R, target \in Segments(live) => live.wal[target] \in FileOver(R)
  PROVE  FileAt(target) \in FileOver(R)
BY EmptyFileIs DEF FileAt

LEMMA TypeInit ==
  ASSUME Init  PROVE TypeOK
<1>1. /\ IsDir(EmptyDir) /\ Segments(EmptyDir) = {} /\ DOMAIN EmptyDir.man = {}
  <2>1. DOMAIN NoFiles = {}
    BY DEF NoFiles
  <2>2. EmptyDir = [wal |-> NoFiles, man |-> NoFiles]
    BY DEF EmptyDir
  <2>3. EmptyDir.wal = NoFiles /\ EmptyDir.man = NoFiles
    BY <2>2
  <2> QED  BY <2>1, <2>2, <2>3 DEF IsDir, Segments
<1>2. LogTyped(EmptyDir)
  BY <1>1 DEF LogTyped, FilesTyped, ManifestsTyped, Bounded
<1>3. FilesTyped(EmptyDir)
  BY <1>1 DEF FilesTyped
<1>4. AppendTyped /\ ArchiveTyped
  BY DEF Init, AppendTyped, ArchiveTyped, Appending, Archiving
<1> QED  BY <1>1, <1>2, <1>3, <1>4 DEF Init, TypeOK

\* Interrupted writes leave a log of the right type.
LEMMA InterruptedTyped ==
  ASSUME TypeOK, live' \in Interrupted
  PROVE  LogTyped(live')
<1>1. CASE live' = live
  BY <1>1 DEF TypeOK
<1>2. ASSUME pc = "record", NEW f \in FileOver(Record), Wrote(live, live', target, f)
      PROVE  LogTyped(live')
  BY <1>2, WroteTyped DEF TypeOK, AppendTyped, Appending
<1>3. FileAt(target) \in FileOver(Record)
  BY FileAtIs DEF TypeOK, LogTyped, FilesTyped
<1>4. WriteToken(FileAt(target), Torn) \in FileOver(Record)
  BY <1>3, TokenWritten DEF Token
<1>5. IsDir(live)
  BY DEF TypeOK, LogTyped
<1> QED  BY <1>1, <1>2, <1>3, <1>4, <1>5, InterruptedIs

LEMMA QuarantineTyped ==
  ASSUME TypeOK, NEW W \in SUBSET Segments(live), NEW M, Quarantine(W, M)
  PROVE  /\ LogTyped(live') /\ IsDir(quar') /\ FilesTyped(quar')
         /\ IsFiniteSet(W) /\ moved' \in Nat /\ moved' = moved + Cardinality(W)
         /\ W # {} => moved' >= moved + 1
<1>1. Taken(live, live', W, M) /\ Joined(quar, quar', live, W)
  BY QuarantineIs
<1>2. LogTyped(live') /\ IsDir(quar') /\ FilesTyped(quar')
  BY <1>1, TakenTyped, JoinedTyped DEF TypeOK, LogTyped, Joined
<1>3. IsFiniteSet(W)
  <2>1. PICK n \in Nat : \A id \in Segments(live) : id <= n
    BY DEF TypeOK, LogTyped, Bounded
  <2>2. W \in SUBSET Nat /\ \A id \in W : id <= n
    BY <2>1 DEF TypeOK, LogTyped, SegmentId
  <2> QED  BY <2>2, FS_BoundedSetOfNaturals
<1>4. Cardinality(W) \in Nat /\ (Cardinality(W) = 0 <=> W = {})
  BY <1>3, FS_CardinalityType, FS_EmptySet
<1> QED  BY <1>2, <1>3, <1>4 DEF Quarantine, TypeOK

LEMMA RecordTyped ==
  ASSUME TypeOK, WriteRecord
  PROVE  TypeOK'
<1> DEFINE f == FileAt(target)
           g == WriteToken(f, current)
<1>1. target \in SegmentId /\ current \in Record /\ current \in Token(Record)
  BY DEF TypeOK, AppendTyped, Appending, WriteRecord, Token
<1>2. f \in FileOver(Record)
  BY FileAtIs DEF TypeOK, LogTyped, FilesTyped
<1>3. Wrote(live, live', target, g)
  BY Steps DEF TypeOK, LogTyped
<1> HIDE DEF f
<1>4. g \in FileOver(Record) /\ g.tail = Append(f.tail, current)
  BY <1>1, <1>2, TokenWritten
<1>5. HasToken(g.tail, current)
  <2>1. f.tail \in Seq(Token(Record))
    BY <1>2, FileParts
  <2>2. /\ Len(g.tail) = Len(f.tail) + 1 /\ Len(f.tail) \in Nat
        /\ g.tail[Len(f.tail) + 1] = current
    BY <1>1, <1>4, <2>1, Appended
  <2> QED  BY <2>2 DEF HasToken
<1> HIDE DEF g
<1>6. LogTyped(live')
  BY <1>1, <1>3, <1>4, WroteTyped DEF TypeOK
<1>7. target' = target /\ current' = current /\ pc' = "newline"
  BY DEF WriteRecord
<1>8. AppendTyped'
  BY <1>1, <1>3, <1>5, <1>7 DEF AppendTyped, Wrote
<1>9. ArchiveTyped'
  BY <1>7 DEF ArchiveTyped, Archiving
<1> QED  BY <1>6, <1>8, <1>9 DEF TypeOK, WriteRecord, ghosts

LEMMA NewlineTyped ==
  ASSUME TypeOK, WriteNewline
  PROVE  /\ TypeOK' /\ FileAt(target) = live.wal[target] /\ FileAt(target).tail # <<>>
         /\ target \in Segments(live)
<1> DEFINE f == FileAt(target)
           g == EndLine(f)
<1>1. /\ target \in SegmentId /\ current \in Record /\ target \in Segments(live)
      /\ HasToken(live.wal[target].tail, current)
  BY DEF TypeOK, AppendTyped, Appending, WriteNewline
<1>2. f = live.wal[target] /\ f \in FileOver(Record)
  BY <1>1 DEF TypeOK, LogTyped, FilesTyped, FileAt
<1>3. Wrote(live, live', target, g)
  BY Steps DEF TypeOK, LogTyped
<1> HIDE DEF f
<1>4. f.tail # <<>>
  <2>1. \E i \in 1..Len(f.tail) : f.tail[i] = current
    BY <1>1, <1>2 DEF HasToken
  <2>2. Len(<<>>) = 0
    OBVIOUS
  <2> QED  BY <2>1, <2>2
<1>5. g \in FileOver(Record) /\ g.lines = Append(f.lines, f.tail)
  BY <1>2, <1>4, LineEnded
<1>6. InLines(g, current)
  <2> DEFINE A == Line(Record)
  <2>1. f.lines \in Seq(A) /\ f.tail \in A
    BY <1>2, <1>4, FileParts DEF Line
  <2> HIDE DEF A, g
  <2>2. /\ Len(g.lines) = Len(f.lines) + 1 /\ Len(f.lines) \in Nat
        /\ g.lines[Len(f.lines) + 1] = f.tail
    BY <1>5, <2>1, Appended
  <2>3. HasToken(g.lines[Len(f.lines) + 1], current)
    BY <1>1, <1>2, <2>2
  <2> QED  BY <2>2, <2>3 DEF InLines
<1> HIDE DEF g
<1>7. LogTyped(live')
  BY <1>1, <1>3, <1>5, WroteTyped DEF TypeOK
<1>8. target' = target /\ current' = current /\ pc' = "manifest"
  BY DEF WriteNewline
<1>9. AppendTyped' /\ ArchiveTyped'
  BY <1>1, <1>3, <1>6, <1>8 DEF AppendTyped, ArchiveTyped, Archiving, Wrote
<1>10. TypeOK'
  BY <1>7, <1>9 DEF TypeOK, WriteNewline, ghosts
<1> QED  BY <1>1, <1>2, <1>4, <1>10 DEF f

\* The record in the manifest that a step at "manifest" writes.
LEMMA ManifestTyped ==
  ASSUME TypeOK, RewriteManifest
  PROVE  TypeOK'
<1>1. CASE live' = live /\ pc' = "idle"
  <2>1. AppendTyped' /\ ArchiveTyped'
    BY <1>1 DEF AppendTyped, ArchiveTyped, Appending, Archiving
  <2> QED  BY <1>1, <2>1 DEF TypeOK, RewriteManifest
<1>2. CASE /\ Readable(FileAt(target), ManifestStart)
           /\ live' = [live EXCEPT !.man = Put(@, target, RecordsRead(FileAt(target)))]
           /\ pc' = "done" /\ current' = current
  <2> DEFINE f == FileAt(target)
  <2>1. /\ target \in SegmentId /\ current \in Record /\ target \in Segments(live)
        /\ InLines(live.wal[target], current)
    BY DEF TypeOK, AppendTyped, Appending, RewriteManifest
  <2>2. f = live.wal[target] /\ f \in FileOver(Record)
    BY <2>1 DEF TypeOK, LogTyped, FilesTyped, FileAt
  <2>3. Listed(live, live', target, RecordsRead(f))
    BY <1>2, ManifestWritten DEF TypeOK, LogTyped
  <2>4. RecordsRead(f) \in Seq(Record) \ {<<>>}
    <3>1. LinesRead(f) \in Seq(Line(Record)) /\ Len(LinesRead(f)) \in Nat
          /\ Len(f.lines) <= Len(LinesRead(f)) /\ Len(f.lines) \in Nat
      BY <2>2, LinesReadAre
    <3>2. 1 <= Len(f.lines)
      BY <2>1, <2>2, <3>1 DEF InLines
    <3>3. ASSUME NEW i \in 1..Len(LinesRead(f))  PROVE LinesRead(f)[i][1] \in Record
      <4> DEFINE line == LinesRead(f)[i]
      <4>1. line \in Line(Record)
        BY <3>1
      <4>2. line \in Seq(Token(Record)) /\ line # <<>>
        BY <4>1 DEF Line
      <4>3. \A j \in 1..Len(line) : line[j] # Torn
        BY <1>2 DEF Readable, Decodes
      <4> HIDE DEF line
      <4>4. 1 \in 1..Len(line)
        BY <4>2
      <4> QED  BY <4>2, <4>3, <4>4 DEF Token, line
    <3> DEFINE m == Len(LinesRead(f))
               r == RecordsRead(f)
    <3>4. r = [n \in 1..m |-> LinesRead(f)[n][1]]
      BY DEF RecordsRead
    <3>5. \A i \in 1..m : r[i] \in Record
      BY <3>3, <3>4
    <3>6. m \in Nat /\ m >= 1
      BY <3>1, <3>2
    <3> HIDE DEF m, r
    <3>7. r \in [1..m -> Record]
      BY <3>4, <3>5
    <3>8. r \in Seq(Record) /\ Len(r) = m
      BY <3>6, <3>7
    <3>9. r # <<>>
      BY <3>6, <3>8
    <3> QED  BY <3>8, <3>9 DEF r
  <2>5. LogTyped(live')
    BY <2>1, <2>3, <2>4, ListedTyped DEF TypeOK
  <2>6. target' = target /\ live'.wal = live.wal /\ Segments(live') = Segments(live)
    BY <2>3 DEF RewriteManifest, Listed, Segments
  <2>7. AppendTyped' /\ ArchiveTyped'
    BY <1>2, <2>1, <2>6 DEF AppendTyped, ArchiveTyped, Archiving
  <2> QED  BY <2>5, <2>7 DEF TypeOK, RewriteManifest
<1> QED  BY <1>1, <1>2 DEF RewriteManifest

LEMMA ArchiveWalTyped ==
  ASSUME TypeOK, ArchiveWal
  PROVE  /\ TypeOK'
         /\ MinOf(todo) \in todo /\ MinOf(todo) \in Segments(live)
         /\ \A k \in todo : MinOf(todo) <= k
<1> DEFINE id == MinOf(todo)
<1>1. todo # {} /\ todo \subseteq DOMAIN live.man /\ todo \subseteq Segments(live)
  BY DEF TypeOK, ArchiveTyped, Archiving, Leftover, ArchiveWal
<1>2. id \in todo /\ \A k \in todo : id <= k
  <2>1. todo \in SUBSET Nat
    BY <1>1 DEF TypeOK, LogTyped, SegmentId
  <2> QED  BY <1>1, <2>1, MinIsLeast
<1>3. Taken(live, live', {id}, {}) /\ Wrote(arch, arch', id, live.wal[id])
  BY Steps DEF TypeOK, LogTyped
<1>4. /\ pc' = "archive_manifest" /\ todo' = todo /\ target' = target
      /\ quar' = quar /\ moved' = moved
  BY DEF ArchiveWal, ghosts
<1>5. MinOf(todo') = id
  BY <1>4
<1> HIDE DEF id
<1>6. LogTyped(live')
  BY <1>3, TakenTyped DEF TypeOK
<1>7. IsDir(arch') /\ FilesTyped(arch')
  <2>1. live.wal[id] \in FileOver(Record)
    BY <1>1, <1>2 DEF TypeOK, LogTyped, FilesTyped
  <2>2. \A k \in Segments(arch') : k = id \/ (k \in Segments(arch) /\ k # id)
    BY <1>3 DEF Wrote
  <2>3. \A k \in Segments(arch') : arch'.wal[k] \in FileOver(Record)
    BY <1>3, <2>1, <2>2 DEF TypeOK, FilesTyped, Wrote
  <2> QED  BY <1>3, <2>3 DEF FilesTyped, Wrote
<1>8. AppendTyped'
  BY <1>4 DEF AppendTyped, Appending
<1>9. ArchiveTyped'
  <2>1. Leftover' = {id}
    BY <1>4, <1>5 DEF Leftover
  <2>2. DOMAIN live'.man = DOMAIN live.man /\ Segments(live') = Segments(live) \ {id}
    BY <1>3 DEF Taken
  <2>3. todo' \ Leftover' \subseteq Segments(live')
    BY <2>1, <2>2, <1>1, <1>4
  <2> QED  BY <1>1, <1>4, <2>2, <2>3 DEF ArchiveTyped
<1>10. TypeOK'
  BY <1>4, <1>6, <1>7, <1>8, <1>9 DEF TypeOK
<1> QED  BY <1>1, <1>2, <1>10 DEF id

LEMMA ArchiveManifestTyped ==
  ASSUME TypeOK, ArchiveManifest
  PROVE  /\ TypeOK'
         /\ MinOf(todo) \in todo /\ todo \ {MinOf(todo)} \subseteq Segments(live)
         /\ todo \subseteq DOMAIN live.man
<1> DEFINE id == MinOf(todo)
<1>1. todo # {} /\ todo \subseteq DOMAIN live.man /\ todo \ {id} \subseteq Segments(live)
  BY DEF TypeOK, ArchiveTyped, Archiving, Leftover, ArchiveManifest
<1>2. id \in todo
  <2>1. todo \in SUBSET Nat
    BY <1>1 DEF TypeOK, LogTyped, SegmentId
  <2> QED  BY <1>1, <2>1, MinIsLeast
<1>3. Taken(live, live', {}, {id}) /\ Listed(arch, arch', id, live.man[id])
  BY Steps DEF TypeOK, LogTyped
<1>4. /\ pc' = IF todo' = {} THEN "idle" ELSE "archive_wal"
      /\ todo' = todo \ {id} /\ target' = target
      /\ quar' = quar /\ moved' = moved
  BY DEF ArchiveManifest, ghosts
<1> HIDE DEF id
<1>5. LogTyped(live')
  BY <1>3, TakenTyped DEF TypeOK
<1>6. IsDir(arch') /\ FilesTyped(arch')
  <2>1. IsDir(arch') /\ arch'.wal = arch.wal /\ Segments(arch') = Segments(arch)
    BY <1>3 DEF Listed, Segments
  <2> QED  BY <2>1 DEF TypeOK, FilesTyped
<1>7. AppendTyped'
  BY <1>4 DEF AppendTyped, Appending
<1>8. ArchiveTyped'
  <2>1. DOMAIN live'.man = DOMAIN live.man \ {id} /\ Segments(live') = Segments(live)
    BY <1>3 DEF Taken
  <2>2. CASE todo' = {}
    BY <1>4, <2>2 DEF ArchiveTyped, Archiving
  <2>3. CASE todo' # {}
    BY <1>1, <1>4, <2>1, <2>3 DEF ArchiveTyped
  <2> QED  BY <2>2, <2>3
<1>9. TypeOK'
  BY <1>4, <1>5, <1>6, <1>7, <1>8 DEF TypeOK
<1> QED  BY <1>1, <1>2, <1>9 DEF id

LEMMA TypeNext ==
  ASSUME TypeOK, [Next]_vars
  PROVE  TypeOK'
<1>1. ASSUME NEW w \in Write, BeginAppend(w)  PROVE TypeOK'
  <2>1. LastSequence(live) \in Nat /\ ActiveSegment(live) \in SegmentId
    BY <1>1, LastSequenceTyped DEF BeginAppend, TypeOK
  <2>2. target' \in SegmentId /\ current' \in Record
    BY <1>1, <2>1 DEF BeginAppend, Record
  <2>3. AppendTyped' /\ ArchiveTyped'
    BY <1>1, <2>2 DEF AppendTyped, ArchiveTyped, Archiving, BeginAppend
  <2> QED  BY <1>1, <2>3 DEF TypeOK, BeginAppend, dirVars
<1>2. CASE Acknowledge \/ TakeSnapshot \/ Open
  <2>1. AppendTyped' /\ ArchiveTyped'
    BY <1>2 DEF AppendTyped, ArchiveTyped, Appending, Archiving,
                Acknowledge, TakeSnapshot, Open, jobVars
  <2>2. UNCHANGED <<dirVars, moved>>
    BY <1>2 DEF Acknowledge, TakeSnapshot, Open, ghosts
  <2> QED  BY <2>1, <2>2 DEF TypeOK, dirVars
<1>3. CASE AppendFails \/ Crash
  <2>1. live' \in Interrupted /\ pc' \in {"idle", "down"} /\ UNCHANGED <<arch, quar, moved>>
    BY <1>3 DEF AppendFails, Crash
  <2>2. AppendTyped' /\ ArchiveTyped'
    BY <2>1 DEF AppendTyped, ArchiveTyped, Appending, Archiving
  <2> QED  BY <2>1, <2>2, InterruptedTyped DEF TypeOK
<1>4. CASE BeginArchive
  <2>1. /\ todo' \subseteq Segments(live) /\ todo' # {}
        /\ Segments(live) \subseteq DOMAIN live.man
        /\ pc' = "archive_wal" /\ UNCHANGED <<dirVars, moved>>
    BY <1>4 DEF BeginArchive, AllManifested, ghosts
  <2>2. AppendTyped' /\ ArchiveTyped'
    BY <2>1 DEF AppendTyped, ArchiveTyped, Appending, dirVars
  <2> QED  BY <2>1, <2>2 DEF TypeOK, dirVars
<1>5. CASE Recover \/ RecoveryCrashes
  <2>1. PICK W \in SUBSET Segments(live) : \E M : Quarantine(W, M)
    <3>1. CASE Recover
      BY <3>1 DEF Recover, Corrupt
    <3>2. CASE RecoveryCrashes
      <4>1. PICK last \in Corrupt :
              \E M \in {{id \in Corrupt : id <= last}, {id \in Corrupt : id <= last} \ {last}} :
                Quarantine({id \in Corrupt : id <= last}, M)
        BY <3>2 DEF RecoveryCrashes
      <4>2. {id \in Corrupt : id <= last} \in SUBSET Segments(live)
        BY DEF Corrupt
      <4> QED  BY <4>1, <4>2
    <3> QED  BY <1>5, <3>1, <3>2
  <2>2. LogTyped(live') /\ IsDir(quar') /\ FilesTyped(quar') /\ moved' \in Nat
    BY <2>1, QuarantineTyped
  <2>3. pc = "down" /\ pc' = pc /\ arch' = arch
    BY <1>5 DEF Recover, RecoveryCrashes, jobVars
  <2>4. AppendTyped' /\ ArchiveTyped'
    BY <2>3 DEF AppendTyped, ArchiveTyped, Appending, Archiving
  <2> QED  BY <2>2, <2>3, <2>4 DEF TypeOK
<1>6. CASE UNCHANGED vars
  BY <1>6 DEF vars, dirVars, jobVars, ghosts, TypeOK, AppendTyped, ArchiveTyped, Leftover
<1>7. CASE WriteRecord \/ WriteNewline \/ RewriteManifest \/ ArchiveWal \/ ArchiveManifest
  BY <1>7, RecordTyped, NewlineTyped, ManifestTyped, ArchiveWalTyped, ArchiveManifestTyped
<1> QED  BY <1>1, <1>2, <1>3, <1>4, <1>5, <1>6, <1>7 DEF Next

(***************************************************************************)
(* Whatever the interleaving: the log's files hold lines of whole or torn  *)
(* records, its manifests records, an append's record is where its step    *)
(* left it, and what an archive job has left is in the log.                *)
(***************************************************************************)
THEOREM LogStaysTyped == Spec => []TypeOK
<1>1. Init => TypeOK
  BY TypeInit
<1>2. TypeOK /\ [Next]_vars => TypeOK'
  BY TypeNext
<1> QED  BY <1>1, <1>2, PTL DEF Spec

-----------------------------------------------------------------------------
(* The numbers of the records, while at most one segment was quarantined.  *)

Numbered(id) == [seq : Start(id)..(Start(id) + MaxSegment - 1), ev : Write]

FilesNumbered(d) == \A id \in Segments(d) : d.wal[id] \in FileOver(Numbered(id))

ManifestNumbered(m, id) ==
  /\ m \in Seq(Numbered(id)) /\ Len(m) \in 1..MaxSegment
  /\ \A i \in 1..Len(m) : m[i].seq = Start(id) + i - 1

ManifestsNumbered(d) == \A id \in DOMAIN d.man : ManifestNumbered(d.man[id], id)

Full(d, id) == id \in DOMAIN d.man /\ Len(d.man[id]) = MaxSegment
Last(d, id) == \A k \in Segments(d) : k <= id

\* Every segment but the last is full, and the next one is there.
SegmentsRun(d) ==
  \A id \in Segments(d) : ~Last(d, id) => Full(d, id) /\ id + 1 \in Segments(d)

LogNumbered(d) == FilesNumbered(d) /\ ManifestsNumbered(d) /\ SegmentsRun(d)

\* A segment of this id would continue the log.
Continues(d, id) == id = 1 \/ (id - 1 \in Segments(d) /\ Full(d, id - 1))

LEMMA WroteNumbered ==
  ASSUME NEW d, NEW e, NEW id \in SegmentId, NEW f \in FileOver(Numbered(id)),
         LogTyped(d), LogNumbered(d), Last(d, id), Wrote(d, e, id, f),
         id \in Segments(d) \/ Continues(d, id)
  PROVE  /\ LogNumbered(e) /\ Last(e, id)
         /\ Continues(d, id) => Continues(e, id)
<1>1. \A k \in Segments(e) : k = id \/ (k \in Segments(d) /\ k # id)
  BY DEF Wrote
<1>2. FilesNumbered(e)
  <2>1. ASSUME NEW k \in Segments(e)  PROVE e.wal[k] \in FileOver(Numbered(k))
    <3>1. CASE k = id
      BY <3>1 DEF Wrote
    <3>2. CASE k # id
      BY <3>2, <1>1 DEF Wrote, LogNumbered, FilesNumbered
    <3> QED  BY <3>1, <3>2
  <2> QED  BY <2>1 DEF FilesNumbered
<1>3. ManifestsNumbered(e)
  BY DEF Wrote, LogNumbered, ManifestsNumbered
<1>4. Last(e, id)
  BY <1>1 DEF Last, SegmentId
<1>5. \A k : Full(e, k) <=> Full(d, k)
  BY DEF Full, Wrote
<1>6. Segments(d) \subseteq Segments(e) /\ id \in Segments(e) /\ Segments(d) \subseteq Nat
  BY DEF Wrote, LogTyped, SegmentId
<1>7. ASSUME NEW k \in Segments(e), ~Last(e, k)
      PROVE  Full(e, k) /\ k + 1 \in Segments(e)
  <2>1. k \in Segments(d) /\ k # id
    BY <1>1, <1>4, <1>7
  <2>2. CASE ~Last(d, k)
    BY <2>1, <2>2, <1>5, <1>6 DEF LogNumbered, SegmentsRun
  <2>3. CASE Last(d, k)
    <3>1. id \notin Segments(d)
      BY <2>1, <2>3, <1>6 DEF Last, SegmentId
    <3>2. k < id
      BY <2>1, <1>6 DEF Last, SegmentId
    <3>3. id # 1
      BY <3>2, <2>1 DEF LogTyped, SegmentId
    <3>4. id - 1 \in Segments(d) /\ Full(d, id - 1)
      BY <3>1, <3>3 DEF Continues
    <3>5. id - 1 <= k
      BY <2>3, <3>4 DEF Last
    <3>6. k = id - 1
      BY <3>2, <3>5, <2>1, <1>6 DEF SegmentId
    <3>7. k + 1 = id
      BY <3>6, <2>1, <1>6 DEF SegmentId
    <3> QED  BY <3>4, <3>6, <3>7, <1>5, <1>6
  <2> QED  BY <2>2, <2>3
<1>8. SegmentsRun(e)
  BY <1>7 DEF SegmentsRun
<1>9. Continues(d, id) => Continues(e, id)
  BY <1>5, <1>6 DEF Continues
<1> QED  BY <1>2, <1>3, <1>4, <1>8, <1>9 DEF LogNumbered

LEMMA ListedNumbered ==
  ASSUME NEW d, NEW e, NEW id \in SegmentId, NEW m, ManifestNumbered(m, id),
         LogTyped(d), LogNumbered(d), Last(d, id), Listed(d, e, id, m)
  PROVE  LogNumbered(e) /\ Last(e, id)
<1>1. Segments(e) = Segments(d) /\ e.wal = d.wal
  BY DEF Listed, Segments
<1>2. FilesNumbered(e) /\ Last(e, id)
  BY <1>1 DEF LogNumbered, FilesNumbered, Last
<1>3. \A k \in DOMAIN e.man : k = id \/ (k \in DOMAIN d.man /\ k # id)
  BY DEF Listed
<1>4. ManifestsNumbered(e)
  BY <1>3 DEF Listed, LogNumbered, ManifestsNumbered
<1>5. \A k : k # id /\ Full(d, k) => Full(e, k)
  BY DEF Full, Listed
<1>6. \A k \in Segments(e) : ~Last(e, k) => ~Last(d, k) /\ k # id
  BY <1>1, <1>2 DEF Last
<1>7. SegmentsRun(e)
  BY <1>1, <1>5, <1>6 DEF LogNumbered, SegmentsRun
<1> QED  BY <1>2, <1>4, <1>7 DEF LogNumbered

\* Taking segments off an end of the log.
LEMMA TakenNumbered ==
  ASSUME NEW d, NEW e, NEW W, NEW M, LogNumbered(d), Taken(d, e, W, M),
         M \cap (Segments(d) \ W) = {},
         \A k \in Segments(e) : ~Last(e, k) => k + 1 \notin W
  PROVE  LogNumbered(e)
<1>1. \A k \in Segments(e) : k \in Segments(d) /\ k \notin W /\ e.wal[k] = d.wal[k]
  BY DEF Taken
<1>2. \A k \in DOMAIN e.man : k \in DOMAIN d.man /\ e.man[k] = d.man[k]
  BY DEF Taken
<1>3. FilesNumbered(e)
  BY <1>1 DEF LogNumbered, FilesNumbered
<1>4. ManifestsNumbered(e)
  BY <1>2 DEF LogNumbered, ManifestsNumbered
<1>5. ASSUME NEW k \in Segments(e), ~Last(e, k)
      PROVE  Full(e, k) /\ k + 1 \in Segments(e)
  <2>1. k \in Segments(d) /\ ~Last(d, k)
    BY <1>1, <1>5 DEF Last
  <2>2. Full(d, k) /\ k + 1 \in Segments(d)
    BY <2>1 DEF LogNumbered, SegmentsRun
  <2>3. k + 1 \in Segments(e)
    BY <2>2, <1>5 DEF Taken
  <2>4. k \in DOMAIN e.man /\ e.man[k] = d.man[k]
    BY <2>1, <2>2, <1>1 DEF Taken, Full
  <2> QED  BY <2>2, <2>3, <2>4 DEF Full
<1>6. SegmentsRun(e)
  BY <1>5 DEF SegmentsRun
<1> QED  BY <1>3, <1>4, <1>6 DEF LogNumbered

-----------------------------------------------------------------------------
(* The records of a numbered log have consecutive numbers.                 *)

LEMMA RecordIn ==
  ASSUME NEW d
  PROVE  \A r : r \in RecordsOf(d) <=>
           \E id \in Segments(d) : \E i \in 1..Len(d.man[id]) : r = d.man[id][i]
BY DEF RecordsOf

LEMMA ManifestRecord ==
  ASSUME NEW id \in SegmentId, NEW m, ManifestNumbered(m, id), NEW i \in 1..Len(m)
  PROVE  /\ m[i] \in Record /\ m[i] = [seq |-> m[i].seq, ev |-> m[i].ev] /\ m[i].ev \in Write
         /\ m[i].seq = Start(id) + i - 1 /\ m[i].seq \in Nat \ {0}
         /\ m[i].seq <= Start(id) + MaxSegment - 1 /\ Len(m) \in Nat
<1>1. m[i] \in Numbered(id)
  BY DEF ManifestNumbered
<1>2. Start(id) \in Nat /\ Start(id) >= 1 /\ MaxSegment \in Nat
  BY StartIs, SegmentAssumption
<1>3. m[i].seq = Start(id) + i - 1 /\ Len(m) \in 1..MaxSegment
  BY DEF ManifestNumbered
<1>4. m[i] = [seq |-> m[i].seq, ev |-> m[i].ev] /\ m[i].ev \in Write
  BY <1>1 DEF Numbered
<1>5. /\ m[i].seq \in Nat \ {0} /\ Len(m) \in Nat
      /\ m[i].seq <= Start(id) + MaxSegment - 1
  BY <1>2, <1>3
<1>6. [seq |-> m[i].seq, ev |-> m[i].ev] \in Record
  BY <1>4, <1>5 DEF Record
<1> QED  BY <1>3, <1>4, <1>5, <1>6

LEMMA EndsOf ==
  ASSUME NEW id \in SegmentId, NEW m, ManifestNumbered(m, id)
  PROVE  /\ FirstSeq(m) = Start(id) /\ LastSeq(m) = Start(id) + Len(m) - 1
         /\ Len(m) \in 1..MaxSegment /\ Len(m) \in Nat /\ Start(id) \in Nat
<1>1. Len(m) \in 1..MaxSegment /\ \A i \in 1..Len(m) : m[i].seq = Start(id) + i - 1
  BY DEF ManifestNumbered
<1>2. Start(id) \in Nat /\ MaxSegment \in Nat
  BY StartIs, SegmentAssumption
<1>3. PICK n : n = Len(m)
  OBVIOUS
<1>4. n \in Nat /\ 1 <= n
  BY <1>1, <1>2, <1>3
<1>5. m[1].seq = Start(id) + 1 - 1 /\ m[n].seq = Start(id) + n - 1
  BY <1>1, <1>3, <1>4
<1>6. m[1].seq = Start(id)
  BY <1>2, <1>5
<1> QED  BY <1>1, <1>2, <1>3, <1>4, <1>5, <1>6 DEF FirstSeq, LastSeq

LEMMA SameNumberSameRecord ==
  ASSUME NEW d, LogTyped(d), LogNumbered(d), AllManifested(d),
         NEW r \in RecordsOf(d), NEW q \in RecordsOf(d), r.seq = q.seq
  PROVE  r = q
<1>1. PICK a, i : a \in Segments(d) /\ i \in 1..Len(d.man[a]) /\ r = d.man[a][i]
  BY RecordIn
<1>2. PICK b, j : b \in Segments(d) /\ j \in 1..Len(d.man[b]) /\ q = d.man[b][j]
  BY RecordIn
<1>3. /\ a \in SegmentId /\ b \in SegmentId
      /\ ManifestNumbered(d.man[a], a) /\ ManifestNumbered(d.man[b], b)
  BY <1>1, <1>2 DEF LogTyped, LogNumbered, ManifestsNumbered, AllManifested
<1>4. /\ r.seq = Start(a) + i - 1 /\ i <= MaxSegment /\ i >= 1 /\ i \in Nat
      /\ q.seq = Start(b) + j - 1 /\ j <= MaxSegment /\ j >= 1 /\ j \in Nat
  BY <1>1, <1>2, <1>3, SegmentAssumption DEF ManifestNumbered
<1>5. Start(a) \in Nat /\ Start(b) \in Nat
  BY <1>3, StartIs
<1>6. Start(a) + i = Start(b) + j
  <2>1. Start(a) + i - 1 = Start(b) + j - 1
    BY <1>4
  <2> QED  BY <2>1, <1>4, <1>5
<1>7. ~ (a < b)
  <2>1. a < b => Start(a) + MaxSegment <= Start(b)
    BY <1>3, StartIs
  <2> QED  BY <2>1, <1>4, <1>5, <1>6, SegmentAssumption
<1>8. ~ (b < a)
  <2>1. b < a => Start(b) + MaxSegment <= Start(a)
    BY <1>3, StartIs
  <2> QED  BY <2>1, <1>4, <1>5, <1>6, SegmentAssumption
<1>9. a = b
  BY <1>3, <1>7, <1>8 DEF SegmentId
<1>10. i = j
  BY <1>4, <1>5, <1>6, <1>9
<1> QED  BY <1>1, <1>2, <1>9, <1>10

\* A record whose number is not the greatest has a next one.
LEMMA NextNumber ==
  ASSUME NEW d, LogTyped(d), LogNumbered(d), AllManifested(d), NEW r \in RecordsOf(d)
  PROVE  \/ \E q \in RecordsOf(d) : q.seq = r.seq + 1
         \/ \A q \in RecordsOf(d) : q.seq <= r.seq
<1>1. PICK a, i : a \in Segments(d) /\ i \in 1..Len(d.man[a]) /\ r = d.man[a][i]
  BY RecordIn
<1>2. a \in Segments(d) /\ \A k \in Segments(d) : k \in SegmentId /\ ManifestNumbered(d.man[k], k)
  BY <1>1 DEF LogTyped, LogNumbered, ManifestsNumbered, AllManifested
<1>3. /\ r.seq = Start(a) + i - 1 /\ i \in Nat /\ i >= 1 /\ Start(a) \in Nat
      /\ Len(d.man[a]) \in Nat /\ Len(d.man[a]) <= MaxSegment
  BY <1>1, <1>2, StartIs, SegmentAssumption DEF ManifestNumbered
<1>4. CASE i < Len(d.man[a])
  <2>1. PICK j \in 1..Len(d.man[a]) : j = i + 1
    BY <1>3, <1>4
  <2>2. d.man[a][j].seq = Start(a) + j - 1
    BY <1>2 DEF ManifestNumbered
  <2>3. d.man[a][j] \in RecordsOf(d)
    BY <1>2, RecordIn
  <2>4. d.man[a][j].seq = r.seq + 1
    BY <1>3, <2>1, <2>2
  <2> QED  BY <2>3, <2>4
<1>5. CASE i = Len(d.man[a]) /\ ~Last(d, a)
  <2>1. Len(d.man[a]) = MaxSegment /\ a + 1 \in Segments(d)
    BY <1>2, <1>5 DEF LogNumbered, SegmentsRun, Full
  <2>2. PICK b \in Segments(d) : b = a + 1
    BY <2>1
  <2>3. Start(b) = Start(a) + MaxSegment
    BY <2>2, <1>2, StartIs
  <2>4. 1 \in 1..Len(d.man[b]) /\ d.man[b][1].seq = Start(b) + 1 - 1
    BY <1>2, <2>2, SegmentAssumption DEF ManifestNumbered
  <2>5. d.man[b][1] \in RecordsOf(d)
    BY <2>2, <2>4, RecordIn
  <2>6. d.man[b][1].seq = r.seq + 1
    BY <1>3, <1>5, <2>1, <2>3, <2>4, SegmentAssumption
  <2> QED  BY <2>5, <2>6
<1>6. CASE i = Len(d.man[a]) /\ Last(d, a)
  <2>1. ASSUME NEW q \in RecordsOf(d)  PROVE q.seq <= r.seq
    <3>1. PICK b, j : b \in Segments(d) /\ j \in 1..Len(d.man[b]) /\ q = d.man[b][j]
      BY RecordIn
    <3>2. b <= a /\ b \in Segments(d)
      BY <3>1, <1>6 DEF Last
    <3>3. /\ q.seq = Start(b) + j - 1 /\ j \in Nat /\ Start(b) \in Nat
          /\ j <= MaxSegment /\ j <= Len(d.man[b])
      BY <3>1, <1>2, StartIs, SegmentAssumption DEF ManifestNumbered
    <3>4. CASE a = b
      BY <3>4, <3>3, <1>3, <1>6
    <3>5. CASE b < a
      <4>1. Start(b) + MaxSegment <= Start(a)
        BY <3>2, <3>5, <1>2, StartIs
      <4> QED  BY <4>1, <3>3, <1>3, SegmentAssumption
    <3> QED  BY <3>2, <3>4, <3>5, <1>2 DEF SegmentId
  <2> QED  BY <2>1
<1> QED  BY <1>1, <1>3, <1>4, <1>5, <1>6

LEMMA RecordsTyped ==
  ASSUME NEW d, LogTyped(d), LogNumbered(d), AllManifested(d), NEW r \in RecordsOf(d)
  PROVE  /\ r \in Record /\ r = [seq |-> r.seq, ev |-> r.ev]
         /\ r.ev \in Write /\ r.seq \in Nat \ {0}
<1>1. PICK a, i : a \in Segments(d) /\ i \in 1..Len(d.man[a]) /\ r = d.man[a][i]
  BY RecordIn
<1>2. a \in SegmentId /\ ManifestNumbered(d.man[a], a)
  BY <1>1 DEF LogTyped, LogNumbered, ManifestsNumbered, AllManifested
<1> QED  BY <1>1, <1>2, ManifestRecord

\* The last segment ends with the greatest number.
LEMMA GreatestNumber ==
  ASSUME NEW d, LogTyped(d), LogNumbered(d), AllManifested(d), Segments(d) # {}
  PROVE  /\ LastSequence(d) \in Nat
         /\ \A r \in RecordsOf(d) : r.seq <= LastSequence(d)
         /\ \E r \in RecordsOf(d) : r.seq = LastSequence(d)
<1>1. PICK a : a = MaxOf(Segments(d))
  OBVIOUS
<1>2. a \in Segments(d) /\ a \in SegmentId /\ Last(d, a)
  BY <1>1, LastIs DEF Last, LogTyped
<1>3. \A k \in Segments(d) : k \in SegmentId /\ ManifestNumbered(d.man[k], k)
  BY DEF LogTyped, LogNumbered, ManifestsNumbered, AllManifested
<1>4. PICK m : m = d.man[a]
  OBVIOUS
<1>5. PICK n : n = Len(m)
  OBVIOUS
<1>6. ManifestNumbered(m, a)
  BY <1>2, <1>3, <1>4
<1>7. LastSequence(d) = m[n].seq
  BY <1>1, <1>4, <1>5 DEF LastSequence, LastSeq
<1>8. n \in 1..Len(m) /\ n \in Nat
  BY <1>5, <1>6, SegmentAssumption DEF ManifestNumbered
<1>9. m[n] \in RecordsOf(d)
  BY <1>2, <1>4, <1>8, RecordIn
<1>10. m[n].seq = Start(a) + n - 1 /\ Start(a) \in Nat /\ m[n].seq \in Nat
  <2>1. Start(a) \in Nat
    BY <1>2, StartIs
  <2>2. m[n].seq = Start(a) + n - 1
    BY <1>6, <1>8 DEF ManifestNumbered
  <2> QED  BY <2>1, <2>2, <1>8
<1>11. ASSUME NEW q \in RecordsOf(d)  PROVE q.seq <= m[n].seq
  <2>1. PICK b, j : b \in Segments(d) /\ j \in 1..Len(d.man[b]) /\ q = d.man[b][j]
    BY RecordIn
  <2>2. b <= a /\ b \in SegmentId
    BY <2>1, <1>2, <1>3 DEF Last
  <2>3. /\ q.seq = Start(b) + j - 1 /\ j \in Nat /\ Start(b) \in Nat
        /\ j <= MaxSegment /\ j <= Len(d.man[b])
    BY <2>1, <1>3, StartIs, SegmentAssumption DEF ManifestNumbered
  <2>4. CASE a = b
    BY <2>4, <2>3, <1>4, <1>5, <1>10
  <2>5. CASE b < a
    <3>1. Start(b) + MaxSegment <= Start(a)
      BY <2>5, <2>2, <1>2, StartIs
    <3>2. n >= 1
      BY <1>8
    <3> QED  BY <3>1, <3>2, <2>3, <1>8, <1>10, SegmentAssumption
  <2> QED  BY <2>2, <2>4, <2>5, <1>2 DEF SegmentId
<1> QED  BY <1>7, <1>9, <1>10, <1>11

LEMMA Consecutive ==
  ASSUME NEW S \in SUBSET Nat, NEW top \in S, \A n \in S : n <= top,
         \A n \in S : n + 1 \in S \/ n = top
  PROVE  S = MinOf(S)..top /\ MaxOf(S) = top
<1>1. MinOf(S) \in S /\ \A n \in S : MinOf(S) <= n
  BY MinIsLeast
<1>2. PICK low \in Nat : low = MinOf(S)
  BY <1>1
<1>3. ASSUME NEW n \in low..top  PROVE n \in S
  <2> SUFFICES ASSUME n \notin S  PROVE FALSE
    OBVIOUS
  <2> DEFINE B == {k \in S : k < n}
             m == MaxOf(B)
  <2>1. n \in Nat /\ low <= n /\ n <= top /\ top \in Nat
    BY <1>2
  <2>2. low \in B
    BY <1>1, <1>2, <2>1
  <2>3. B \in SUBSET Nat /\ B # {} /\ \A k \in B : k <= n
    <3> HIDE DEF m
    <3>1. \A k \in B : k \in S /\ k < n
      OBVIOUS
    <3>2. \A k \in S : k \in Nat
      OBVIOUS
    <3> HIDE DEF B
    <3> QED  BY <3>1, <3>2, <2>1, <2>2
  <2> HIDE DEF B
  <2>4. m \in B /\ \A k \in B : k <= m
    BY <2>1, <2>3, MaxIsGreatest
  <2>5. m \in S /\ m < n /\ m \in Nat
    BY <2>4 DEF B
  <2>6. m + 1 \in S
    BY <2>5, <2>1
  <2>7. m + 1 < n
    <3>1. m + 1 # n
      BY <2>6
    <3> QED  BY <3>1, <2>1, <2>5
  <2>8. m + 1 \in B
    BY <2>6, <2>7 DEF B
  <2>9. m + 1 <= m
    BY <2>4, <2>8
  <2> QED  BY <2>5, <2>9
<1>4. ASSUME NEW n \in S  PROVE n \in low..top
  BY <1>1, <1>2
<1>5. S = low..top
  BY <1>3, <1>4
<1>6. MaxOf(S) \in S /\ \A n \in S : n <= MaxOf(S)
  BY MaxIsGreatest
<1>7. MaxOf(S) = top
  <2>1. MaxOf(S) <= top /\ top <= MaxOf(S)
    BY <1>6
  <2>2. MaxOf(S) \in Nat /\ top \in Nat
    BY <1>6
  <2> QED  BY <2>1, <2>2
<1> QED  BY <1>2, <1>5, <1>7

LEMMA CountNumbers ==
  ASSUME NEW T, NEW S, IsFiniteSet(S), S = {r.seq : r \in T},
         \A r, q \in T : r.seq = q.seq => r = q
  PROVE  IsFiniteSet(T) /\ Cardinality(T) = Cardinality(S)
<1> DEFINE f == [r \in T |-> r.seq]
<1>1. f \in [T -> S]
  OBVIOUS
<1>2. f \in Injection(T, S)
  BY <1>1 DEF Injection, IsInjective
<1>3. f \in Surjection(T, S)
  BY <1>1 DEF Surjection
<1> HIDE DEF f
<1> QED  BY <1>2, <1>3, FS_Injection

Numbers(T)  == {r.seq : r \in T}
Above(d, b) == {r \in RecordsOf(d) : r.seq > b}

\* The numbers above b, when there are any, run on to the greatest.
LEMMA NumbersAbove ==
  ASSUME NEW d, LogTyped(d), LogNumbered(d), AllManifested(d), NEW b \in Nat,
         NEW T, T = Above(d, b), T # {}, NEW S, S = Numbers(T)
  PROVE  /\ MinOf(S) \in Nat /\ MaxOf(S) \in Nat /\ MinOf(S) <= MaxOf(S) /\ MinOf(S) > b
         /\ S = MinOf(S)..MaxOf(S)
         /\ IsFiniteSet(T) /\ Cardinality(T) = MaxOf(S) - MinOf(S) + 1
         /\ Cardinality(S) = Cardinality(T)
<1> USE DEF Numbers, Above
<1>1. \A r \in RecordsOf(d) : r.seq \in Nat
  BY RecordsTyped
<1>2. S \in SUBSET Nat /\ \A n \in S : n > b
  BY <1>1
<1>3. Segments(d) # {}
  BY RecordIn
<1>4. PICK last \in RecordsOf(d) : last.seq = LastSequence(d)
  BY <1>3, GreatestNumber
<1>5. \A r \in RecordsOf(d) : r.seq <= last.seq
  BY <1>3, <1>4, GreatestNumber
<1>6. last \in T
  <2>1. PICK r \in T : TRUE
    OBVIOUS
  <2>2. r \in RecordsOf(d) /\ r.seq > b
    BY <2>1
  <2> QED  BY <2>2, <1>1, <1>4, <1>5
<1>7. PICK top \in S : top = last.seq
  BY <1>6
<1>8. \A n \in S : n <= top
  BY <1>5, <1>7
<1>9. ASSUME NEW n \in S  PROVE n + 1 \in S \/ n = top
  <2>1. PICK r \in T : r.seq = n
    OBVIOUS
  <2>2. r \in RecordsOf(d) /\ r.seq > b /\ r.seq \in Nat
    BY <2>1, <1>1
  <2>3. CASE \A q \in RecordsOf(d) : q.seq <= r.seq
    <3>1. last.seq <= r.seq /\ r.seq <= last.seq
      BY <2>2, <2>3, <1>4, <1>5
    <3> QED  BY <3>1, <2>1, <2>2, <1>7, <1>1, <1>4
  <2>4. ASSUME NEW q \in RecordsOf(d), q.seq = r.seq + 1  PROVE n + 1 \in S
    <3>1. q.seq > b
      BY <2>2, <2>4
    <3>2. q \in T
      BY <3>1
    <3> QED  BY <3>2, <2>1, <2>4
  <2> QED  BY <2>2, <2>3, <2>4, NextNumber
<1>10. S = MinOf(S)..top /\ MaxOf(S) = top
  BY <1>2, <1>8, <1>9, Consecutive
<1>11. MinOf(S) \in S /\ \A n \in S : MinOf(S) <= n
  BY <1>2, <1>7, MinIsLeast
<1> HIDE DEF Numbers, Above
<1>12. /\ MinOf(S) \in Nat /\ top \in Nat /\ MinOf(S) <= top /\ MinOf(S) > b
  BY <1>2, <1>7, <1>11
<1>13. IsFiniteSet(S) /\ Cardinality(S) = top - MinOf(S) + 1
  <2>1. PICK low : low = MinOf(S)
    OBVIOUS
  <2>2. low \in Int /\ top \in Int /\ low <= top /\ S = low..top
    BY <2>1, <1>10, <1>12
  <2>3. IsFiniteSet(low..top) /\ Cardinality(low..top) = IF low > top THEN 0 ELSE top - low + 1
    BY <2>2, FS_Interval
  <2> QED  BY <2>1, <2>2, <2>3
<1>14. \A r, q \in T : r.seq = q.seq => r = q
  BY SameNumberSameRecord DEF Above
<1>15. IsFiniteSet(T) /\ Cardinality(T) = Cardinality(S)
  BY <1>13, <1>14, CountNumbers DEF Numbers
<1> QED  BY <1>10, <1>12, <1>13, <1>15

LEMMA NumbersContiguous ==
  ASSUME NEW d, LogTyped(d), LogNumbered(d), AllManifested(d),
         NEW S, S = Numbers(RecordsOf(d))
  PROVE  /\ Cardinality(S) = Cardinality(RecordsOf(d))
         /\ S # {} => S = MinOf(S)..MaxOf(S)
<1>1. CASE RecordsOf(d) = {}
  <2>1. S = {}
    BY <1>1 DEF Numbers
  <2> QED  BY <1>1, <2>1
<1>2. CASE RecordsOf(d) # {}
  <2>1. \A r \in RecordsOf(d) : r.seq \in Nat /\ r.seq > 0
    <3>1. \A r \in RecordsOf(d) : r.seq \in Nat \ {0}
      BY RecordsTyped
    <3> QED  BY <3>1
  <2>2. RecordsOf(d) = {r \in RecordsOf(d) : r.seq > 0}
    BY <2>1
  <2>3. PICK T : T = RecordsOf(d)
    OBVIOUS
  <2> PICK b \in Nat : b = 0
    OBVIOUS
  <2>4. T = Above(d, b) /\ T # {} /\ S = Numbers(T)
    BY <1>2, <2>2, <2>3 DEF Above
  <2>5. S = MinOf(S)..MaxOf(S) /\ Cardinality(S) = Cardinality(T)
    BY <2>4, NumbersAbove
  <2> QED  BY <2>3, <2>5
<1> QED  BY <1>1, <1>2

LEMMA TailIs ==
  ASSUME NEW d, LogTyped(d), LogNumbered(d), AllManifested(d), NEW b \in Nat
  PROVE  /\ TailAfter(d, b) \in Seq(Write) /\ Len(TailAfter(d, b)) \in Nat
         /\ \E a \in Nat : a >= b /\
              /\ \A i \in 1..Len(TailAfter(d, b)) :
                   [seq |-> a + i, ev |-> TailAfter(d, b)[i]] \in RecordsOf(d)
              /\ \A r \in RecordsOf(d) : r.seq > b =>
                   r.seq > a /\ r.seq <= a + Len(TailAfter(d, b))
<1> DEFINE t == TailAfter(d, b)
<1>1. PICK T : T = Above(d, b)
  OBVIOUS
<1>2. PICK S : S = Numbers(T)
  OBVIOUS
<1>3. PICK start : start = IF T = {} THEN 0 ELSE MinOf(S)
  OBVIOUS
<1>4. PICK n : n = Cardinality(T)
  OBVIOUS
<1>5. t = [i \in 1..n |-> (CHOOSE r \in T : r.seq = start + i - 1).ev]
  BY <1>1, <1>2, <1>3, <1>4 DEF TailAfter, Above, Numbers
<1> HIDE DEF t
<1>6. CASE T = {}
  <2>1. n = 0
    BY <1>4, <1>6, FS_EmptySet
  <2>2. t \in Seq(Write) /\ Len(t) = 0
    <3>1. 1..0 = {}
      OBVIOUS
    <3>2. t = <<>>
      BY <1>5, <2>1, <3>1
    <3> QED  BY <3>2
  <2>3. \A r \in RecordsOf(d) : ~(r.seq > b)
    BY <1>1, <1>6 DEF Above
  <2>4. \A i \in 1..Len(t) : [seq |-> b + i, ev |-> t[i]] \in RecordsOf(d)
    BY <2>2
  <2>5. b >= b
    OBVIOUS
  <2> QED  BY <2>2, <2>3, <2>4, <2>5 DEF t
<1>7. CASE T # {}
  <2>1. /\ MinOf(S) \in Nat /\ MaxOf(S) \in Nat /\ MinOf(S) <= MaxOf(S) /\ MinOf(S) > b
        /\ S = MinOf(S)..MaxOf(S) /\ n = MaxOf(S) - MinOf(S) + 1
    BY <1>1, <1>2, <1>4, <1>7, NumbersAbove
  <2>2. PICK top : top = MaxOf(S)
    OBVIOUS
  <2>3. /\ start \in Nat /\ top \in Nat /\ start <= top /\ start > b /\ S = start..top
        /\ n = top - start + 1 /\ n \in Nat
    BY <2>1, <2>2, <1>3, <1>7
  <2>4. ASSUME NEW i \in 1..n
        PROVE  t[i] \in Write /\ [seq |-> start + i - 1, ev |-> t[i]] \in RecordsOf(d)
    <3>1. PICK q : q = CHOOSE r \in T : r.seq = start + i - 1
      OBVIOUS
    <3>2. start + i - 1 \in S
      BY <2>3
    <3>3. \E r \in T : r.seq = start + i - 1
      BY <3>2, <1>2 DEF Numbers
    <3>4. q \in T /\ q.seq = start + i - 1
      BY <3>1, <3>3
    <3>5. q \in RecordsOf(d)
      BY <3>4, <1>1 DEF Above
    <3>6. q.ev \in Write /\ q = [seq |-> q.seq, ev |-> q.ev]
      BY <3>5, RecordsTyped
    <3>7. t[i] = q.ev
      BY <1>5, <3>1
    <3> QED  BY <3>4, <3>5, <3>6, <3>7
  <2>5. t \in Seq(Write) /\ Len(t) = n
    <3>1. DOMAIN t = 1..n
      BY <1>5
    <3>2. t \in [1..n -> Write]
      BY <3>1, <2>4, <1>5
    <3> QED  BY <3>2, <2>3
  <2>6. PICK a \in Nat : start = a + 1
    <3>1. start - 1 \in Nat /\ start = (start - 1) + 1
      BY <2>3
    <3> QED  BY <3>1
  <2>7. a >= b
    BY <2>3, <2>6
  <2>8. \A i \in 1..Len(t) : [seq |-> a + i, ev |-> t[i]] \in RecordsOf(d)
    <3>1. ASSUME NEW i \in 1..n  PROVE [seq |-> a + i, ev |-> t[i]] \in RecordsOf(d)
      <4>1. start + i - 1 = a + i
        BY <2>3, <2>6
      <4> QED  BY <4>1, <2>4
    <3> QED  BY <3>1, <2>5
  <2>9. \A r \in RecordsOf(d) : r.seq > b => r.seq > a /\ r.seq <= a + Len(t)
    <3>1. ASSUME NEW r \in RecordsOf(d), r.seq > b  PROVE r.seq > a /\ r.seq <= a + Len(t)
      <4>1. r \in T
        BY <3>1, <1>1 DEF Above
      <4>2. r.seq \in start..top
        BY <4>1, <1>2, <2>3 DEF Numbers
      <4> QED  BY <4>2, <2>3, <2>5, <2>6
    <3> QED  BY <3>1
  <2> QED  BY <2>3, <2>5, <2>7, <2>8, <2>9 DEF t
<1> QED  BY <1>6, <1>7

-----------------------------------------------------------------------------
(* The numbering is kept by every step, a first recovery included.         *)

TargetNext ==
  pc \in Appending =>
    /\ current \in Numbered(target) /\ Last(live, target)
    /\ \A k \in Segments(live) : k # target => k \in DOMAIN live.man
    /\ target \notin Segments(live) \cap DOMAIN live.man => Continues(live, target)
    /\ pc = "manifest" => live.wal[target].tail = <<>>
    /\ pc = "done" => target \in DOMAIN live.man

\* An archive job takes the first segments of the log, and never the last.
TodoFirst ==
  pc \in Archiving =>
    /\ AllManifested(live) /\ Leftover \cap Segments(live) = {}
    /\ \A id \in todo : \E k \in Segments(live) \ todo : id < k
    /\ \A id \in todo : \A k \in Segments(live) : k < id => k \in todo

Numbering ==
  /\ LogNumbered(live) /\ TargetNext /\ TodoFirst
  /\ snapshot \in Seq(Write) /\ mem \in Seq(Write)

LEMMA ActiveIs ==
  ASSUME NEW d, LogTyped(d), LogNumbered(d), AllManifested(d),
         NEW t, t = ActiveSegment(d), NEW n, n = LastSequence(d) + 1
  PROVE  /\ t \in SegmentId /\ n \in Nat /\ n \in Start(t)..(Start(t) + MaxSegment - 1)
         /\ Last(d, t)
         /\ \/ t \in Segments(d) /\ ~Full(d, t)
            \/ t \notin Segments(d) /\ Continues(d, t)
<1>1. CASE Segments(d) = {}
  <2>1. t = 1 /\ n = 1
    BY <1>1 DEF ActiveSegment, LastSequence
  <2> QED  BY <1>1, <2>1, StartIs, SegmentAssumption DEF SegmentId, Last, Continues
<1>2. CASE Segments(d) # {}
  <2>1. PICK a : a = MaxOf(Segments(d))
    OBVIOUS
  <2>2. /\ a \in Segments(d) /\ a \in SegmentId /\ a \in DOMAIN d.man
        /\ \A k \in Segments(d) : k <= a
    BY <2>1, <1>2, LastIs DEF LogTyped, AllManifested
  <2>3. PICK m : m = d.man[a]
    OBVIOUS
  <2>4. ManifestNumbered(m, a)
    BY <2>2, <2>3 DEF LogNumbered, ManifestsNumbered
  <2>5. PICK l : l = Len(m)
    OBVIOUS
  <2>6. l \in Nat /\ l >= 1 /\ l <= MaxSegment /\ m[l].seq = Start(a) + l - 1
    BY <2>4, <2>5, SegmentAssumption DEF ManifestNumbered
  <2>7. n = Start(a) + l - 1 + 1
    BY <2>1, <2>3, <2>5, <2>6, <1>2 DEF LastSequence, LastSeq
  <2>8. Start(a) \in Nat /\ Start(a + 1) = Start(a) + MaxSegment
    BY <2>2, StartIs
  <2>9. CASE l >= MaxSegment
    <3>1. l = MaxSegment
      BY <2>6, <2>9, SegmentAssumption
    <3>2. t = a + 1
      BY <2>1, <2>3, <2>5, <2>9, <1>2 DEF ActiveSegment
    <3>3. n = Start(t)
      BY <3>1, <3>2, <2>7, <2>8, SegmentAssumption
    <3>4. n \in Nat /\ n \in Start(t)..(Start(t) + MaxSegment - 1)
      BY <3>2, <3>3, <2>8, SegmentAssumption
    <3>5. t \in SegmentId /\ Last(d, t) /\ t \notin Segments(d) /\ t - 1 = a
      BY <3>2, <2>2 DEF SegmentId, Last, LogTyped
    <3>6. Full(d, a)
      BY <3>1, <2>2, <2>3, <2>5 DEF Full
    <3>7. Continues(d, t)
      BY <3>5, <3>6, <2>2 DEF Continues
    <3> QED  BY <3>4, <3>5, <3>7
  <2>10. CASE ~(l >= MaxSegment)
    <3>1. t = a
      BY <2>1, <2>3, <2>5, <2>10, <1>2 DEF ActiveSegment
    <3>2. n \in Nat /\ n \in Start(t)..(Start(t) + MaxSegment - 1)
      BY <3>1, <2>6, <2>7, <2>8, <2>10, SegmentAssumption
    <3>3. ~Full(d, t)
      BY <3>1, <2>3, <2>5, <2>6, <2>10 DEF Full
    <3> QED  BY <3>1, <3>2, <3>3, <2>2 DEF Last
  <2> QED  BY <2>9, <2>10
<1> QED  BY <1>1, <1>2

LEMMA BeginAppendNumbered ==
  ASSUME TypeOK, Numbering, NEW w \in Write, BeginAppend(w)
  PROVE  /\ Numbering'
         /\ \/ target' \in Segments(live) /\ ~Full(live, target')
            \/ target' \notin Segments(live) /\ Continues(live, target')
<1>1. /\ LogTyped(live) /\ LogNumbered(live) /\ AllManifested(live)
      /\ target' = ActiveSegment(live) /\ current' = [seq |-> LastSequence(live) + 1, ev |-> w]
      /\ pc' = "record" /\ UNCHANGED <<live, snapshot, mem>>
  BY DEF TypeOK, Numbering, BeginAppend, dirVars
<1>2. PICK t, n : t = ActiveSegment(live) /\ n = LastSequence(live) + 1
  OBVIOUS
<1>3. /\ n \in Start(t)..(Start(t) + MaxSegment - 1) /\ Last(live, t)
      /\ \/ t \in Segments(live) /\ ~Full(live, t)
         \/ t \notin Segments(live) /\ Continues(live, t)
  BY <1>1, <1>2, ActiveIs
<1>4. current' \in Numbered(t)
  BY <1>1, <1>2, <1>3 DEF Numbered
<1>5. Segments(live) \subseteq DOMAIN live.man
  BY <1>1 DEF AllManifested
<1>6. TargetNext' /\ TodoFirst'
  BY <1>1, <1>2, <1>3, <1>4, <1>5 DEF TargetNext, TodoFirst, Archiving
<1> QED  BY <1>1, <1>2, <1>3, <1>6 DEF Numbering

\* The file a step of an append writes.
LEMMA FileAtNumbered ==
  ASSUME TypeOK, Numbering, pc \in Appending
  PROVE  /\ FileAt(target) \in FileOver(Numbered(target))
         /\ FileAt(target) \in FileOver(Record)
         /\ target \in SegmentId /\ current \in Numbered(target) /\ Last(live, target)
         /\ target \in Segments(live) \/ Continues(live, target)
<1>1. FileAt(target) \in FileOver(Numbered(target)) /\ FileAt(target) \in FileOver(Record)
  BY FileAtIs DEF TypeOK, LogTyped, FilesTyped, Numbering, LogNumbered, FilesNumbered
<1> QED  BY <1>1 DEF Numbering, TargetNext, TypeOK, AppendTyped

LEMMA WriteRecordNumbered ==
  ASSUME TypeOK, Numbering, WriteRecord
  PROVE  Numbering'
<1> DEFINE f == WriteToken(FileAt(target), current)
<1>1. pc \in Appending /\ pc = "record"
  BY DEF WriteRecord, Appending
<1>2. Wrote(live, live', target, f)
  BY Steps DEF TypeOK, LogTyped
<1>3. f \in FileOver(Numbered(target))
  BY <1>1, FileAtNumbered, TokenWritten DEF Token
<1> HIDE DEF f
<1>4. LogNumbered(live') /\ Last(live', target) /\ (Continues(live, target) => Continues(live', target))
  BY <1>1, <1>2, <1>3, FileAtNumbered, WroteNumbered DEF TypeOK, Numbering
<1>5. UNCHANGED <<target, current, snapshot, mem>> /\ pc' = "newline"
  BY DEF WriteRecord
<1>6. TargetNext'
  <2>1. /\ current \in Numbered(target)
        /\ \A k \in Segments(live) : k # target => k \in DOMAIN live.man
        /\ target \notin Segments(live) \cap DOMAIN live.man => Continues(live, target)
    BY <1>1 DEF Numbering, TargetNext
  <2>2. live'.man = live.man /\ Segments(live') = Segments(live) \cup {target}
    BY <1>2 DEF Wrote
  <2> QED  BY <1>4, <1>5, <2>1, <2>2 DEF TargetNext
<1>7. TodoFirst'
  BY <1>5 DEF TodoFirst, Archiving
<1> QED  BY <1>4, <1>5, <1>6, <1>7 DEF Numbering

LEMMA WriteNewlineNumbered ==
  ASSUME TypeOK, Numbering, WriteNewline
  PROVE  Numbering'
<1> DEFINE f == EndLine(FileAt(target))
<1>1. pc \in Appending /\ pc = "newline"
  BY DEF WriteNewline, Appending
<1>2. Wrote(live, live', target, f) /\ target \in Segments(live)
  BY Steps, NewlineTyped DEF TypeOK, LogTyped
<1>3. f \in FileOver(Numbered(target)) /\ f.tail = <<>>
  BY <1>1, FileAtNumbered, NewlineTyped, LineEnded
<1> HIDE DEF f
<1>4. LogNumbered(live') /\ Last(live', target) /\ (Continues(live, target) => Continues(live', target))
  BY <1>1, <1>2, <1>3, FileAtNumbered, WroteNumbered DEF TypeOK, Numbering
<1>5. UNCHANGED <<target, current, snapshot, mem>> /\ pc' = "manifest"
  BY DEF WriteNewline
<1>6. TargetNext'
  <2>1. /\ current \in Numbered(target)
        /\ \A k \in Segments(live) : k # target => k \in DOMAIN live.man
        /\ target \notin Segments(live) \cap DOMAIN live.man => Continues(live, target)
    BY <1>1 DEF Numbering, TargetNext
  <2>2. /\ live'.man = live.man /\ Segments(live') = Segments(live) \cup {target}
        /\ live'.wal[target] = f
    BY <1>2 DEF Wrote
  <2> QED  BY <1>3, <1>4, <1>5, <2>1, <2>2 DEF TargetNext
<1>7. TodoFirst'
  BY <1>5 DEF TodoFirst, Archiving
<1> QED  BY <1>4, <1>5, <1>6, <1>7 DEF Numbering

LEMMA ManifestStartIs ==
  ASSUME TypeOK, Numbering, pc = "manifest"
  PROVE  ManifestStart = Start(target)
<1>1. /\ target \in SegmentId /\ LogTyped(live) /\ LogNumbered(live)
      /\ target \in Segments(live)
      /\ target \in DOMAIN live.man \/ Continues(live, target)
  BY DEF TypeOK, AppendTyped, Appending, Numbering, TargetNext
<1>2. \A k \in DOMAIN live.man : k \in SegmentId /\ ManifestNumbered(live.man[k], k)
  BY <1>1 DEF LogTyped, LogNumbered, ManifestsNumbered
<1>3. CASE target \in DOMAIN live.man
  <2>1. ManifestStart = live.man[target][1].seq
    BY <1>3 DEF ManifestStart, FirstSeq
  <2>2. live.man[target][1].seq = Start(target) + 1 - 1
    BY <1>2, <1>3, SegmentAssumption DEF ManifestNumbered
  <2>3. Start(target) \in Nat
    BY <1>1, StartIs
  <2> QED  BY <2>1, <2>2, <2>3
<1>4. CASE target \notin DOMAIN live.man
  <2>1. PICK E : E = {k \in Before(live, target) : k \in DOMAIN live.man}
    OBVIOUS
  <2>2. \A k : k \in E <=> k \in Segments(live) /\ k < target /\ k \in DOMAIN live.man
    BY <2>1 DEF Before
  <2>3. ManifestStart = IF E # {} THEN live.man[MaxOf(E)][Len(live.man[MaxOf(E)])].seq + 1 ELSE 1
    BY <1>4, <2>1 DEF ManifestStart, LastSeq
  <2>4. CASE target = 1
    <3>1. \A k \in E : FALSE
      BY <2>2, <2>4, <1>1 DEF LogTyped, SegmentId
    <3>2. E = {}
      BY <3>1
    <3> QED  BY <2>3, <2>4, <3>2, StartIs
  <2>5. CASE target # 1
    <3>1. PICK p : p = target - 1
      OBVIOUS
    <3>2. p \in Segments(live) /\ p \in DOMAIN live.man /\ Len(live.man[p]) = MaxSegment
      BY <1>1, <1>4, <2>5, <3>1 DEF Continues, Full
    <3>3. p \in SegmentId /\ target = p + 1 /\ p < target /\ target \in Nat
      BY <1>1, <3>1, <3>2 DEF LogTyped, SegmentId
    <3>4. p \in E /\ E \in SUBSET Nat /\ \A k \in E : k <= target
      BY <2>2, <3>2, <3>3, <1>1 DEF LogTyped, SegmentId
    <3>5. MaxOf(E) \in E /\ \A k \in E : k <= MaxOf(E)
      BY <3>3, <3>4, MaxIsGreatest
    <3>6. MaxOf(E) = p
      <4>1. MaxOf(E) < target /\ p <= MaxOf(E) /\ MaxOf(E) \in Nat
        BY <2>2, <3>4, <3>5
      <4> QED  BY <4>1, <3>3 DEF SegmentId
    <3>7. live.man[p][MaxSegment].seq = Start(p) + MaxSegment - 1
      BY <1>2, <3>2, SegmentAssumption DEF ManifestNumbered
    <3>8. Start(target) = Start(p) + MaxSegment /\ Start(p) \in Nat
      BY <3>3, StartIs
    <3>9. ManifestStart = Start(p) + MaxSegment - 1 + 1
      BY <2>3, <3>2, <3>4, <3>6, <3>7
    <3> QED  BY <3>8, <3>9, SegmentAssumption
  <2> QED  BY <2>4, <2>5
<1> QED  BY <1>3, <1>4

\* The manifest that a step at "manifest" publishes.
LEMMA ManifestRewritten ==
  ASSUME TypeOK, Numbering, RewriteManifest, pc' = "done"
  PROVE  /\ pc = "manifest" /\ UNCHANGED <<target, current, failed>>
         /\ target \in SegmentId /\ target \in Segments(live) /\ Last(live, target)
         /\ FileAt(target) = live.wal[target] /\ FileAt(target) \in FileOver(Record)
         /\ Readable(live.wal[target], Start(target)) /\ live.wal[target].tail = <<>>
         /\ Listed(live, live', target, RecordsRead(live.wal[target]))
         /\ ManifestNumbered(RecordsRead(live.wal[target]), target)
<1>1. /\ pc = "manifest" /\ pc' = "done" /\ UNCHANGED <<target, current, failed>>
      /\ Readable(FileAt(target), ManifestStart)
  BY DEF RewriteManifest
<1>2. /\ target \in SegmentId /\ target \in Segments(live) /\ Last(live, target)
      /\ live.wal[target].tail = <<>> /\ InLines(live.wal[target], current)
  BY <1>1 DEF TypeOK, AppendTyped, Appending, Numbering, TargetNext
<1>3. /\ FileAt(target) = live.wal[target] /\ FileAt(target) \in FileOver(Record)
      /\ FileAt(target) \in FileOver(Numbered(target))
  BY <1>1, <1>2, FileAtNumbered DEF FileAt, Appending
<1>4. ManifestStart = Start(target) /\ Start(target) \in Nat
  BY <1>1, <1>2, ManifestStartIs, StartIs
<1>5. Listed(live, live', target, RecordsRead(live.wal[target]))
  BY <1>3, Steps DEF TypeOK, LogTyped
<1>6. PICK f : f = live.wal[target]
  OBVIOUS
<1>7. PICK r : r = RecordsRead(f)
  OBVIOUS
<1>8. Torn \notin Numbered(target)
  <2>1. Numbered(target) \subseteq [seq : Nat, ev : Write]
    BY <1>4, SegmentAssumption DEF Numbered
  <2> QED  BY <2>1, SegmentAssumption
<1>9. /\ r \in Seq(Numbered(target)) /\ Len(r) = Len(LinesRead(f))
      /\ \A i \in 1..Len(r) : r[i] \in Numbered(target) /\ r[i].seq = Start(target) + i - 1
  <2>1. PICK n, R : n = Start(target) /\ R = Numbered(target)
    OBVIOUS
  <2>2. n \in Nat /\ Torn \notin R /\ f \in FileOver(R) /\ Readable(f, n)
    BY <2>1, <1>1, <1>3, <1>4, <1>6, <1>8
  <2>3. /\ r \in Seq(R) /\ Len(r) = Len(LinesRead(f))
        /\ \A i \in 1..Len(r) : r[i] \in R /\ r[i].seq = n + i - 1
    BY <2>2, <1>7, RecordsReadAre
  <2> QED  BY <2>1, <2>3
<1>10. Len(r) \in Nat /\ Len(r) >= 1
  <2>1. Len(f.lines) \in Nat /\ Len(f.lines) <= Len(LinesRead(f)) /\ Len(LinesRead(f)) \in Nat
    BY <1>3, <1>6, LinesReadAre
  <2>2. Len(f.lines) >= 1
    BY <1>2, <1>6, <2>1 DEF InLines
  <2> QED  BY <2>1, <2>2, <1>9
<1>11. Len(r) <= MaxSegment
  <2>1. PICK l \in 1..Len(r) : l = Len(r)
    BY <1>10
  <2>2. r[l].seq = Start(target) + l - 1 /\ r[l] \in Numbered(target)
    BY <1>9
  <2>3. r[l].seq \in Start(target)..(Start(target) + MaxSegment - 1)
    BY <2>2 DEF Numbered
  <2> QED  BY <2>1, <2>2, <2>3, <1>4, <1>10, SegmentAssumption
<1>12. ManifestNumbered(r, target)
  BY <1>9, <1>10, <1>11, SegmentAssumption DEF ManifestNumbered
<1>13. Readable(live.wal[target], Start(target))
  BY <1>1, <1>3, <1>4
<1> QED  BY <1>1, <1>2, <1>3, <1>5, <1>6, <1>7, <1>12, <1>13

LEMMA ManifestStepNumbered ==
  ASSUME TypeOK, Numbering, RewriteManifest
  PROVE  Numbering'
<1>1. CASE pc' = "done"
  <2>1. LogNumbered(live') /\ Last(live', target)
    BY <1>1, ManifestRewritten, ListedNumbered DEF TypeOK, Numbering
  <2>2. /\ UNCHANGED <<target, current>>
        /\ DOMAIN live'.man = DOMAIN live.man \cup {target} /\ Segments(live') = Segments(live)
        /\ target \in Segments(live)
    BY <1>1, ManifestRewritten DEF Listed, Segments
  <2>3. /\ current \in Numbered(target)
        /\ \A k \in Segments(live) : k # target => k \in DOMAIN live.man
    BY <1>1, ManifestRewritten DEF Numbering, TargetNext, Appending
  <2>4. TargetNext' /\ TodoFirst'
    BY <1>1, <2>1, <2>2, <2>3 DEF TargetNext, TodoFirst, Archiving
  <2> QED  BY <2>1, <2>4 DEF Numbering, RewriteManifest
<1>2. CASE live' = live /\ pc' = "idle"
  BY <1>2 DEF Numbering, TargetNext, TodoFirst, Appending, Archiving, RewriteManifest
<1> QED  BY <1>1, <1>2 DEF RewriteManifest

\* What an interrupted write leaves is numbered still.
LEMMA InterruptedNumbered ==
  ASSUME TypeOK, Numbering, live' \in Interrupted
  PROVE  /\ LogNumbered(live')
         /\ \/ live' = live
            \/ /\ pc = "record"
               /\ \E f \in FileOver(Record) :
                    f.lines = FileAt(target).lines /\ Wrote(live, live', target, f)
<1>1. IsDir(live) /\ LogTyped(live) /\ LogNumbered(live)
  BY DEF TypeOK, LogTyped, Numbering
<1>2. CASE live' = live
  BY <1>1, <1>2
<1>3. ASSUME pc = "record",
             NEW f, f \in FileOver(Numbered(target)), f \in FileOver(Record),
             f.lines = FileAt(target).lines, Wrote(live, live', target, f)
      PROVE  /\ LogNumbered(live')
             /\ \E g \in FileOver(Record) :
                  g.lines = FileAt(target).lines /\ Wrote(live, live', target, g)
  <2>1. /\ target \in SegmentId /\ Last(live, target)
        /\ target \in Segments(live) \/ Continues(live, target)
    BY <1>3, FileAtNumbered DEF Appending
  <2>2. LogNumbered(live')
    BY <1>1, <1>3, <2>1, WroteNumbered
  <2> QED  BY <1>3, <2>2
<1>4. CASE pc = "record"
  <2>1. FileAt(target) \in FileOver(Numbered(target)) /\ FileAt(target) \in FileOver(Record)
    BY <1>4, FileAtNumbered DEF Appending
  <2>2. PICK g : g = WriteToken(FileAt(target), Torn)
    OBVIOUS
  <2>3. g \in FileOver(Numbered(target)) /\ g \in FileOver(Record) /\ g.lines = FileAt(target).lines
    BY <2>1, <2>2, TokenWritten DEF Token
  <2>4. live' = live \/ Wrote(live, live', target, FileAt(target)) \/ Wrote(live, live', target, g)
    BY <2>2, <1>1, InterruptedIs
  <2> QED  BY <1>2, <1>3, <1>4, <2>1, <2>3, <2>4
<1>5. CASE pc # "record"
  BY <1>1, <1>2, <1>5, InterruptedIs
<1> QED  BY <1>4, <1>5

LEMMA BeginArchiveNumbered ==
  ASSUME KeepNewest, TypeOK, Numbering, BeginArchive
  PROVE  Numbering'
<1>1. PICK upTo \in 1..Len(snapshot) :
        /\ upTo < LastSequence(live)
        /\ todo' = {id \in Segments(live) : LastSeq(live.man[id]) <= upTo}
  BY DEF BeginArchive
<1>2. upTo \in Nat
  BY DEF Numbering
<1>3. /\ LogTyped(live) /\ LogNumbered(live) /\ AllManifested(live)
      /\ pc' = "archive_wal" /\ UNCHANGED <<live, snapshot, mem>>
  BY DEF TypeOK, Numbering, BeginArchive, dirVars
<1>4. \A id \in Segments(live) :
        /\ id \in SegmentId /\ id \in DOMAIN live.man
        /\ ManifestNumbered(live.man[id], id)
  BY <1>3 DEF LogTyped, AllManifested, LogNumbered, ManifestsNumbered
<1>5. \A id \in Segments(live) :
        /\ LastSeq(live.man[id]) = Start(id) + Len(live.man[id]) - 1
        /\ Len(live.man[id]) \in 1..MaxSegment /\ Start(id) \in Nat
  BY <1>4, EndsOf
<1>6. \A id \in todo' : id \in Segments(live) /\ LastSeq(live.man[id]) <= upTo
  BY <1>1
<1>7. ASSUME NEW id \in todo'
      PROVE  \E k \in Segments(live) \ todo' : id < k
  <2>1. Segments(live) # {} /\ id \in Segments(live)
    BY <1>6
  <2>2. PICK last : last = MaxOf(Segments(live))
    OBVIOUS
  <2>3. last \in Segments(live) /\ id <= last
    BY <2>1, <2>2, <1>3, LastIs
  <2>4. LastSequence(live) = LastSeq(live.man[last])
    BY <2>1, <2>2 DEF LastSequence
  <2>5. LastSeq(live.man[last]) \in Int
    BY <1>5, <2>3
  <2>6. last \notin todo'
    BY <1>1, <1>2, <1>6, <2>4, <2>5
  <2>7. id < last
    <3>1. id # last
      BY <2>6, <1>7
    <3> QED  BY <3>1, <2>1, <2>3, <1>4 DEF SegmentId
  <2> QED  BY <2>3, <2>6, <2>7
<1>8. ASSUME NEW id \in todo', NEW k \in Segments(live), k < id
      PROVE  k \in todo'
  <2>1. id \in Segments(live) /\ LastSeq(live.man[id]) <= upTo
    BY <1>6
  <2>2. Start(k) + MaxSegment <= Start(id)
    BY <1>4, <1>8, <2>1, StartIs
  <2>3. LastSeq(live.man[k]) <= LastSeq(live.man[id])
    BY <1>5, <2>1, <2>2, SegmentAssumption
  <2>4. LastSeq(live.man[k]) \in Int /\ LastSeq(live.man[id]) \in Int
    BY <1>5, <2>1, SegmentAssumption
  <2>5. LastSeq(live.man[k]) <= upTo
    BY <1>2, <2>1, <2>3, <2>4
  <2> QED  BY <1>1, <2>5
<1>9. Leftover' = {}
  BY <1>3 DEF Leftover
<1>10. TodoFirst' /\ TargetNext'
  BY <1>3, <1>7, <1>8, <1>9 DEF TodoFirst, TargetNext, Appending
<1> QED  BY <1>3, <1>10 DEF Numbering

LEMMA ArchiveWalNumbered ==
  ASSUME TypeOK, Numbering, ArchiveWal
  PROVE  Numbering'
<1>1. PICK id : id = MinOf(todo)
  OBVIOUS
<1>2. /\ id \in todo /\ id \in Segments(live) /\ \A k \in todo : id <= k
      /\ Taken(live, live', {id}, {})
  BY <1>1, ArchiveWalTyped, Steps DEF TypeOK, LogTyped
<1>3. /\ LogTyped(live) /\ LogNumbered(live) /\ pc = "archive_wal" /\ pc' = "archive_manifest"
      /\ UNCHANGED <<todo, snapshot, mem>> /\ Segments(live) \subseteq SegmentId
  BY DEF TypeOK, Numbering, ArchiveWal, LogTyped
<1>4. /\ AllManifested(live)
      /\ \A i \in todo : \E k \in Segments(live) \ todo : i < k
      /\ \A i \in todo : \A k \in Segments(live) : k < i => k \in todo
  BY <1>3 DEF Numbering, TodoFirst, Archiving
<1>5. Segments(live') = Segments(live) \ {id} /\ DOMAIN live'.man = DOMAIN live.man
  BY <1>2 DEF Taken
<1>6. \A k \in Segments(live') : k + 1 \notin {id}
  <2> SUFFICES ASSUME NEW k \in Segments(live), k + 1 = id  PROVE FALSE
    BY <1>5
  <2>1. k < id
    BY <1>3 DEF SegmentId
  <2>2. id <= k
    BY <2>1, <1>2, <1>4
  <2> QED  BY <2>1, <2>2, <1>2, <1>3 DEF SegmentId
<1>7. LogNumbered(live')
  BY <1>2, <1>3, <1>6, TakenNumbered
<1>8. Leftover' = {id}
  BY <1>1, <1>3 DEF Leftover
<1>9. TodoFirst'
  <2>1. AllManifested(live')
    BY <1>4, <1>5 DEF AllManifested
  <2>2. Leftover' \cap Segments(live') = {}
    BY <1>5, <1>8
  <2>3. \A i \in todo : \E k \in Segments(live') \ todo : i < k
    BY <1>2, <1>4, <1>5
  <2>4. \A i \in todo : \A k \in Segments(live') : k < i => k \in todo
    BY <1>4, <1>5
  <2> QED  BY <1>3, <2>1, <2>2, <2>3, <2>4 DEF TodoFirst
<1>10. TargetNext'
  BY <1>3 DEF TargetNext, Appending
<1> QED  BY <1>3, <1>7, <1>9, <1>10 DEF Numbering

LEMMA ArchiveManifestNumbered ==
  ASSUME TypeOK, Numbering, ArchiveManifest
  PROVE  /\ Numbering' /\ MinOf(todo) \notin Segments(live)
<1>1. PICK id : id = MinOf(todo)
  OBVIOUS
<1>2. /\ id \in todo /\ todo \ {id} \subseteq Segments(live)
      /\ Taken(live, live', {}, {id})
  BY <1>1, ArchiveManifestTyped, Steps DEF TypeOK, LogTyped
<1>3. /\ LogTyped(live) /\ LogNumbered(live) /\ pc = "archive_manifest"
      /\ pc' = IF todo' = {} THEN "idle" ELSE "archive_wal"
      /\ todo' = todo \ {id} /\ UNCHANGED <<snapshot, mem>>
  BY <1>1 DEF TypeOK, Numbering, ArchiveManifest, LogTyped
<1>4. /\ AllManifested(live) /\ id \notin Segments(live)
      /\ \A i \in todo : \E k \in Segments(live) \ todo : i < k
      /\ \A i \in todo : \A k \in Segments(live) : k < i => k \in todo
  BY <1>1, <1>3 DEF Numbering, TodoFirst, Archiving, Leftover
<1>5. Segments(live') = Segments(live) /\ DOMAIN live'.man = DOMAIN live.man \ {id}
  BY <1>2 DEF Taken
<1>6. LogNumbered(live')
  BY <1>2, <1>3, <1>4, TakenNumbered
<1>7. Leftover' = {}
  BY <1>3 DEF Leftover
<1>8. TodoFirst'
  <2>1. AllManifested(live')
    BY <1>4, <1>5 DEF AllManifested
  <2>2. \A i \in todo' : \E k \in Segments(live') \ todo' : i < k
    BY <1>3, <1>4, <1>5
  <2>3. \A i \in todo' : \A k \in Segments(live') : k < i => k \in todo'
    BY <1>3, <1>4, <1>5
  <2> QED  BY <1>7, <2>1, <2>2, <2>3 DEF TodoFirst
<1>9. TargetNext'
  BY <1>3 DEF TargetNext, Appending
<1> QED  BY <1>1, <1>3, <1>4, <1>6, <1>8, <1>9 DEF Numbering

LEMMA OpenNumbered ==
  ASSUME TypeOK, Numbering, Open
  PROVE  Numbering'
<1>1. /\ LogTyped(live) /\ LogNumbered(live) /\ AllManifested(live)
      /\ snapshot \in Seq(Write)
  BY DEF TypeOK, Numbering, Open, ReadOk, SegmentAgrees, AllManifested
<1>2. PICK b \in Nat : b = Len(snapshot)
  BY <1>1
<1>3. PICK t : t = TailAfter(live, b)
  OBVIOUS
<1>4. t \in Seq(Write)
  BY <1>1, <1>3, TailIs
<1>5. mem' = snapshot \o t
  BY <1>2, <1>3 DEF Open, Restored
<1>6. mem' \in Seq(Write)
  BY <1>1, <1>4, <1>5
<1>7. TargetNext' /\ TodoFirst'
  BY DEF TargetNext, TodoFirst, Appending, Archiving, Open
<1> QED  BY <1>6, <1>7 DEF Numbering, Open, dirVars

-----------------------------------------------------------------------------
(* Before the first recovery, manifests and archive stay behind the log.   *)

ManifestsBehind(d) == \A id \in DOMAIN d.man : \E k \in Segments(d) : id <= k

\* Only the last segment can disagree with its manifest, when it is not full.
CorruptLast(d) ==
  \A id \in Segments(d) : ~SegmentAgrees(d, id) => Last(d, id) /\ ~Full(d, id)

ManifestFirst(d) ==
  \A id \in Segments(d) \cap DOMAIN d.man :
    /\ Len(d.man[id]) <= Len(d.wal[id].lines)
    /\ \A i \in 1..Len(d.man[id]) : d.man[id][i] = d.wal[id].lines[i][1]

LogSettled(d) == ManifestsBehind(d) /\ CorruptLast(d) /\ ManifestFirst(d)

ArchiveBehind ==
  \A id \in Segments(arch) :
    id \in SegmentId /\ id \notin Segments(live) /\ \E k \in Segments(live) : id < k

\* A manifest found for the segment appended to is that of a segment not full.
TargetOpen ==
  pc \in {"record", "newline", "manifest"} /\ target \in DOMAIN live.man =>
    target \in Segments(live) /\ ~Full(live, target)

Settled == LogSettled(live) /\ ArchiveBehind /\ TargetOpen /\ Segments(quar) = {}

\* The lines of g begin with those of f.
Extends(g, f) ==
  Len(f.lines) <= Len(g.lines) /\ \A i \in 1..Len(f.lines) : g.lines[i] = f.lines[i]

\* An append only adds to the lines of its file, cut short or not.
LEMMA WriteExtends ==
  ASSUME TypeOK, WriteRecord \/ WriteNewline
  PROVE  \E f \in FileOver(Record) :
           /\ Wrote(live, live', target, f)
           /\ target \in Segments(live) => Extends(f, live.wal[target])
<1> DEFINE g == FileAt(target)
<1>1. g \in FileOver(Record) /\ (target \in Segments(live) => g = live.wal[target])
  BY FileAtIs DEF TypeOK, LogTyped, FilesTyped, FileAt
<1>2. g.lines \in Seq(Line(Record)) /\ Len(g.lines) \in Nat
  BY <1>1, FileParts, LinesReadAre
<1>3. CASE WriteRecord
  <2>1. PICK f : f = WriteToken(g, current)
    OBVIOUS
  <2>2. current \in Token(Record)
    BY <1>3 DEF WriteRecord, Appending, Token, TypeOK, AppendTyped
  <2>3. f \in FileOver(Record) /\ f.lines = g.lines
    BY <2>1, <2>2, <1>1, TokenWritten
  <2>4. Wrote(live, live', target, f)
    BY <1>3, <2>1, Steps DEF TypeOK, LogTyped
  <2> QED  BY <1>1, <1>2, <2>3, <2>4 DEF Extends
<1>4. CASE WriteNewline
  <2>1. PICK f : f = EndLine(g)
    OBVIOUS
  <2>2. g.tail # <<>>
    BY <1>4, NewlineTyped
  <2>3. f \in FileOver(Record) /\ f.lines = Append(g.lines, g.tail)
    BY <2>1, <2>2, <1>1, LineEnded
  <2>4. Wrote(live, live', target, f)
    BY <1>4, <2>1, Steps DEF TypeOK, LogTyped
  <2>5. PICK l, t, A : l = g.lines /\ t = g.tail /\ A = Line(Record)
    OBVIOUS
  <2>6. l \in Seq(A) /\ t \in A
    BY <1>1, <2>2, <2>5, FileParts DEF Line
  <2>7. /\ Len(Append(l, t)) = Len(l) + 1 /\ Len(l) \in Nat
        /\ \A i \in 1..Len(l) : Append(l, t)[i] = l[i]
    BY <2>6, Appended
  <2> HIDE DEF g
  <2>8. Extends(f, g)
    BY <2>3, <2>5, <2>7 DEF Extends
  <2> QED  BY <1>1, <2>3, <2>4, <2>8
<1> QED  BY <1>3, <1>4

LEMMA InterruptedExtends ==
  ASSUME TypeOK, live' \in Interrupted
  PROVE  \/ live' = live
         \/ /\ pc = "record"
            /\ \E f \in FileOver(Record) :
                 /\ Wrote(live, live', target, f)
                 /\ target \in Segments(live) => Extends(f, live.wal[target])
<1> DEFINE g == FileAt(target)
           t == WriteToken(g, Torn)
<1>1. g \in FileOver(Record) /\ (target \in Segments(live) => g = live.wal[target])
  BY FileAtIs DEF TypeOK, LogTyped, FilesTyped, FileAt
<1>2. Len(g.lines) \in Nat
  BY <1>1, LinesReadAre
<1>3. t \in FileOver(Record) /\ t.lines = g.lines
  BY <1>1, TokenWritten DEF Token
<1>4. IsDir(live)
  BY DEF TypeOK, LogTyped
<1>5. live' = live \/ (pc = "record" /\ Wrote(live, live', target, g))
                   \/ (pc = "record" /\ Wrote(live, live', target, t))
  BY <1>4, InterruptedIs
<1> HIDE DEF g, t
<1> QED  BY <1>1, <1>2, <1>3, <1>5 DEF Extends

LEMMA AgreesAlike ==
  ASSUME NEW d, NEW e, NEW k, k \in DOMAIN e.man <=> k \in DOMAIN d.man,
         k \in DOMAIN d.man => e.man[k] = d.man[k], e.wal[k] = d.wal[k]
  PROVE  SegmentAgrees(e, k) <=> SegmentAgrees(d, k)
<1>1. CASE k \in DOMAIN d.man
  <2>1. e.man[k] = d.man[k] /\ k \in DOMAIN e.man
    BY <1>1
  <2>2. PICK w, m : w = d.wal[k] /\ m = d.man[k]
    OBVIOUS
  <2>3. w = e.wal[k] /\ m = e.man[k]
    BY <2>1, <2>2
  <2>4. SegmentAgrees(e, k) <=> Readable(w, FirstSeq(m)) /\ RecordsRead(w) = m
    BY <2>1, <2>3 DEF SegmentAgrees
  <2>5. SegmentAgrees(d, k) <=> Readable(w, FirstSeq(m)) /\ RecordsRead(w) = m
    BY <1>1, <2>2 DEF SegmentAgrees
  <2> QED  BY <2>4, <2>5
<1>2. CASE k \notin DOMAIN d.man
  BY <1>2 DEF SegmentAgrees
<1> QED  BY <1>1, <1>2

LEMMA WroteSettled ==
  ASSUME NEW d, NEW e, NEW id \in SegmentId, NEW f \in FileOver(Record),
         LogTyped(d), LogSettled(d), Last(d, id), Wrote(d, e, id, f),
         id \in Segments(d) \/ Continues(d, id),
         id \in DOMAIN d.man => id \in Segments(d) /\ ~Full(d, id),
         id \in Segments(d) => Extends(f, d.wal[id])
  PROVE  LogSettled(e)
<1>1. /\ e.man = d.man /\ Segments(e) = Segments(d) \cup {id} /\ e.wal[id] = f
      /\ \A k \in Segments(d) : k # id => e.wal[k] = d.wal[k]
  BY DEF Wrote
<1>2. ManifestsBehind(e)
  BY <1>1 DEF LogSettled, ManifestsBehind
<1>3. Last(e, id) /\ ~Full(e, id)
  <2>1. ~Full(e, id)
    BY <1>1 DEF Full
  <2>2. Last(e, id)
    BY <1>1 DEF Last, SegmentId
  <2> QED  BY <2>1, <2>2
<1>4. CorruptLast(e)
  <2>1. ASSUME NEW k \in Segments(d), k # id, ~SegmentAgrees(e, k)  PROVE FALSE
    <3>1. ~SegmentAgrees(d, k)
      BY <2>1, <1>1, AgreesAlike
    <3>2. Last(d, k) /\ ~Full(d, k)
      BY <3>1 DEF LogSettled, CorruptLast
    <3>3. k \in SegmentId /\ k < id
      BY <2>1 DEF LogTyped, Last, SegmentId
    <3>4. id \notin Segments(d)
      BY <3>2, <3>3 DEF Last, SegmentId
    <3>5. id # 1
      BY <3>3 DEF SegmentId
    <3>6. id - 1 \in Segments(d) /\ Full(d, id - 1)
      BY <3>4, <3>5 DEF Continues
    <3>7. id - 1 <= k
      BY <3>2, <3>6 DEF Last
    <3>8. k = id - 1
      BY <3>3, <3>7 DEF SegmentId
    <3> QED  BY <3>2, <3>6, <3>8
  <2> QED  BY <1>1, <1>3, <2>1 DEF CorruptLast
<1>5. ManifestFirst(e)
  <2>1. ASSUME NEW k \in Segments(e) \cap DOMAIN e.man
        PROVE  /\ Len(e.man[k]) <= Len(e.wal[k].lines)
               /\ \A i \in 1..Len(e.man[k]) : e.man[k][i] = e.wal[k].lines[i][1]
    <3>1. k \in Segments(d) \cap DOMAIN d.man
      BY <1>1
    <3>2. /\ Len(d.man[k]) <= Len(d.wal[k].lines)
          /\ \A i \in 1..Len(d.man[k]) : d.man[k][i] = d.wal[k].lines[i][1]
      BY <3>1 DEF LogSettled, ManifestFirst
    <3>3. CASE k # id
      BY <3>1, <3>2, <3>3, <1>1
    <3>4. CASE k = id
      <4>1. PICK l, m : l = d.wal[k].lines /\ m = d.man[k]
        OBVIOUS
      <4>2. Len(l) \in Nat /\ Len(m) \in Nat
        <5>1. d.wal[k] \in FileOver(Record) /\ m \in Seq(Record)
          BY <3>1, <4>1 DEF LogTyped, FilesTyped, ManifestsTyped
        <5>2. Len(l) \in Nat
          BY <5>1, <4>1, LinesReadAre
        <5>3. Len(m) \in Nat
          BY <5>1
        <5> QED  BY <5>2, <5>3
      <4>3. Len(l) <= Len(f.lines) /\ \A i \in 1..Len(l) : f.lines[i] = l[i]
        BY <3>1, <3>4, <4>1 DEF Extends
      <4>4. Len(f.lines) \in Nat
        BY LinesReadAre
      <4>5. Len(m) <= Len(l) /\ \A i \in 1..Len(m) : m[i] = l[i][1]
        BY <3>2, <4>1
      <4>6. Len(m) <= Len(f.lines) /\ \A i \in 1..Len(m) : m[i] = f.lines[i][1]
        BY <4>2, <4>3, <4>4, <4>5
      <4> QED  BY <4>1, <4>6, <3>4, <1>1
    <3> QED  BY <3>3, <3>4
  <2> QED  BY <2>1 DEF ManifestFirst
<1> QED  BY <1>2, <1>4, <1>5 DEF LogSettled

LEMMA ListedSettled ==
  ASSUME NEW d, NEW e, NEW id \in SegmentId, NEW m, m = RecordsRead(d.wal[id]),
         id \in Segments(d), d.wal[id] \in FileOver(Record), d.wal[id].tail = <<>>,
         Readable(d.wal[id], Start(id)), ManifestNumbered(m, id),
         LogTyped(d), LogSettled(d), Listed(d, e, id, m)
  PROVE  LogSettled(e) /\ SegmentAgrees(e, id)
<1>1. /\ e.wal = d.wal /\ Segments(e) = Segments(d)
      /\ DOMAIN e.man = DOMAIN d.man \cup {id} /\ e.man[id] = m
      /\ \A k \in DOMAIN d.man : k # id => e.man[k] = d.man[k]
  BY DEF Listed, Segments
<1>2. ManifestsBehind(e)
  BY <1>1 DEF LogSettled, ManifestsBehind, SegmentId
<1>3. SegmentAgrees(e, id)
  BY <1>1, EndsOf DEF SegmentAgrees
<1>4. CorruptLast(e)
  <2>1. ASSUME NEW k \in Segments(e), ~SegmentAgrees(e, k)  PROVE Last(e, k) /\ ~Full(e, k)
    <3>1. k # id /\ k \in Segments(d)
      BY <2>1, <1>1, <1>3
    <3>2. ~SegmentAgrees(d, k)
      BY <2>1, <3>1, <1>1, AgreesAlike
    <3>3. Last(d, k) /\ ~Full(d, k)
      BY <3>1, <3>2 DEF LogSettled, CorruptLast
    <3> QED  BY <3>1, <3>3, <1>1 DEF Last, Full
  <2> QED  BY <2>1 DEF CorruptLast
<1>5. ManifestFirst(e)
  <2>1. ASSUME NEW k \in Segments(e) \cap DOMAIN e.man
        PROVE  /\ Len(e.man[k]) <= Len(e.wal[k].lines)
               /\ \A i \in 1..Len(e.man[k]) : e.man[k][i] = e.wal[k].lines[i][1]
    <3>1. CASE k # id
      BY <3>1, <1>1 DEF LogSettled, ManifestFirst
    <3>2. CASE k = id
      <4>1. PICK f : f = d.wal[id]
        OBVIOUS
      <4>2. LinesRead(f) = f.lines
        BY <4>1 DEF LinesRead
      <4>3. m = [n \in 1..Len(f.lines) |-> f.lines[n][1]]
        BY <4>1, <4>2 DEF RecordsRead
      <4>4. Len(f.lines) \in Nat
        BY <4>1, LinesReadAre
      <4>5. Len(m) = Len(f.lines)
        BY <4>1, <4>2, EndsOf, <4>3, <4>4
      <4>6. \A i \in 1..Len(m) : m[i] = f.lines[i][1]
        BY <4>3, <4>5
      <4> QED  BY <3>2, <4>1, <4>4, <4>5, <4>6, <1>1
    <3> QED  BY <3>1, <3>2
  <2> QED  BY <2>1 DEF ManifestFirst
<1> QED  BY <1>2, <1>3, <1>4, <1>5 DEF LogSettled

LEMMA TakenSettled ==
  ASSUME NEW d, NEW e, NEW W, NEW M, LogSettled(d), Taken(d, e, W, M),
         \A id \in DOMAIN e.man : \E k \in Segments(e) : id <= k,
         M \cap (Segments(d) \ W) = {}
  PROVE  LogSettled(e)
<1>1. /\ Segments(e) = Segments(d) \ W /\ DOMAIN e.man = DOMAIN d.man \ M
      /\ \A k \in Segments(e) : e.wal[k] = d.wal[k] /\ (k \in DOMAIN e.man <=> k \in DOMAIN d.man)
      /\ \A k \in DOMAIN e.man : e.man[k] = d.man[k]
  BY DEF Taken
<1>2. CorruptLast(e)
  <2>1. ASSUME NEW k \in Segments(e), ~SegmentAgrees(e, k)  PROVE Last(e, k) /\ ~Full(e, k)
    <3>1. ~SegmentAgrees(d, k)
      BY <2>1, <1>1, AgreesAlike
    <3>2. Last(d, k) /\ ~Full(d, k)
      BY <3>1, <1>1 DEF LogSettled, CorruptLast
    <3> QED  BY <3>2, <1>1 DEF Last, Full
  <2> QED  BY <2>1 DEF CorruptLast
<1>3. ManifestFirst(e)
  <2>1. ASSUME NEW k \in Segments(e) \cap DOMAIN e.man
        PROVE  /\ Len(e.man[k]) <= Len(e.wal[k].lines)
               /\ \A i \in 1..Len(e.man[k]) : e.man[k][i] = e.wal[k].lines[i][1]
    <3>1. /\ k \in Segments(d) \cap DOMAIN d.man
          /\ e.man[k] = d.man[k] /\ e.wal[k] = d.wal[k]
      BY <1>1
    <3>2. /\ Len(d.man[k]) <= Len(d.wal[k].lines)
          /\ \A i \in 1..Len(d.man[k]) : d.man[k][i] = d.wal[k].lines[i][1]
      BY <3>1 DEF LogSettled, ManifestFirst
    <3> QED  BY <3>1, <3>2
  <2> QED  BY <2>1 DEF ManifestFirst
<1> QED  BY <1>2, <1>3 DEF LogSettled, ManifestsBehind

LEMMA SettledWrite ==
  ASSUME TypeOK, Numbering, Settled, pc \in {"record", "newline"},
         NEW f \in FileOver(Record), Wrote(live, live', target, f),
         target \in Segments(live) => Extends(f, live.wal[target]),
         UNCHANGED <<arch, target>>
  PROVE  LogSettled(live') /\ ArchiveBehind' /\ TargetOpen'
<1>1. /\ target \in SegmentId /\ Last(live, target)
      /\ target \in Segments(live) \/ Continues(live, target)
  BY FileAtNumbered DEF Appending
<1>2. target \in DOMAIN live.man => target \in Segments(live) /\ ~Full(live, target)
  BY DEF Settled, TargetOpen
<1>3. LogTyped(live) /\ LogSettled(live) /\ Segments(live) \subseteq SegmentId
  BY DEF TypeOK, Settled, LogTyped
<1>4. LogSettled(live')
  BY <1>1, <1>2, <1>3, WroteSettled
<1>5. live'.man = live.man /\ Segments(live') = Segments(live) \cup {target}
  BY DEF Wrote
<1>6. ArchiveBehind'
  <2>1. ASSUME NEW id \in Segments(arch)
        PROVE  /\ id \in SegmentId /\ id \notin Segments(live')
               /\ \E k \in Segments(live') : id < k
    <3>1. id \in SegmentId /\ id \notin Segments(live)
      BY DEF Settled, ArchiveBehind
    <3>2. PICK k \in Segments(live) : id < k
      BY DEF Settled, ArchiveBehind
    <3>3. k <= target
      BY <1>1 DEF Last
    <3>4. id # target
      BY <3>2, <3>3, <1>1, <1>3 DEF SegmentId
    <3> QED  BY <3>1, <3>2, <3>4, <1>5
  <2> QED  BY <2>1 DEF ArchiveBehind
<1>7. TargetOpen'
  BY <1>2, <1>5 DEF TargetOpen, Full
<1> QED  BY <1>4, <1>6, <1>7

LEMMA BeginAppendSettled ==
  ASSUME TypeOK, Numbering, Settled, NEW w \in Write, BeginAppend(w)
  PROVE  Settled'
<1>1. UNCHANGED <<live, arch, quar>>
  BY DEF BeginAppend, dirVars
<1>2. \/ target' \in Segments(live) /\ ~Full(live, target')
      \/ target' \notin Segments(live) /\ Continues(live, target')
  BY BeginAppendNumbered
<1>3. PICK t : t = target'
  OBVIOUS
<1>4. Last(live, t) /\ t \in SegmentId
  BY <1>3, ActiveIs DEF BeginAppend, TypeOK, Numbering
<1>5. t \in DOMAIN live.man => t \in Segments(live)
  <2>1. SUFFICES ASSUME t \in DOMAIN live.man  PROVE t \in Segments(live)
    OBVIOUS
  <2>2. PICK k \in Segments(live) : t <= k
    BY <2>1 DEF Settled, LogSettled, ManifestsBehind
  <2>3. k <= t /\ k \in SegmentId
    BY <1>4 DEF Last, TypeOK, LogTyped
  <2>4. k = t
    BY <2>2, <2>3, <1>4 DEF SegmentId
  <2> QED  BY <2>4
<1>6. TargetOpen'
  BY <1>1, <1>2, <1>3, <1>5 DEF TargetOpen
<1> QED  BY <1>1, <1>6 DEF Settled, ArchiveBehind

LEMMA WriteSettled ==
  ASSUME TypeOK, Numbering, Settled, WriteRecord \/ WriteNewline
  PROVE  Settled'
<1>1. PICK f \in FileOver(Record) :
        /\ Wrote(live, live', target, f)
        /\ target \in Segments(live) => Extends(f, live.wal[target])
  BY WriteExtends
<1>2. pc \in {"record", "newline"} /\ UNCHANGED <<arch, quar, target>>
  BY DEF WriteRecord, WriteNewline
<1> QED  BY <1>1, <1>2, SettledWrite DEF Settled

LEMMA ManifestSettled ==
  ASSUME TypeOK, Numbering, Settled, RewriteManifest
  PROVE  /\ Settled'
         /\ pc' = "done" => SegmentAgrees(live', target)
<1>1. CASE pc' = "done"
  <2>1. PICK m : m = RecordsRead(live.wal[target])
    OBVIOUS
  <2>2. /\ target \in SegmentId /\ target \in Segments(live)
        /\ live.wal[target] \in FileOver(Record) /\ live.wal[target].tail = <<>>
        /\ Readable(live.wal[target], Start(target)) /\ ManifestNumbered(m, target)
        /\ Listed(live, live', target, m)
    BY <1>1, <2>1, ManifestRewritten
  <2>3. LogSettled(live') /\ SegmentAgrees(live', target)
    BY <2>1, <2>2, ListedSettled DEF TypeOK, Settled
  <2>4. Segments(live') = Segments(live) /\ UNCHANGED <<arch, quar>>
    BY <2>2 DEF Listed, Segments, RewriteManifest
  <2>5. ArchiveBehind' /\ TargetOpen'
    BY <1>1, <2>4 DEF Settled, ArchiveBehind, TargetOpen
  <2> QED  BY <2>3, <2>4, <2>5 DEF Settled
<1>2. CASE live' = live /\ pc' = "idle"
  BY <1>2 DEF Settled, ArchiveBehind, TargetOpen, RewriteManifest
<1> QED  BY <1>1, <1>2 DEF RewriteManifest

LEMMA InterruptedSettled ==
  ASSUME TypeOK, Numbering, Settled, live' \in Interrupted, UNCHANGED <<arch, quar, target>>,
         pc' \in {"idle", "down"}
  PROVE  Settled'
<1>1. CASE live' = live
  BY <1>1 DEF Settled, ArchiveBehind, TargetOpen
<1>2. CASE live' # live
  <2>1. /\ pc = "record"
        /\ \E f \in FileOver(Record) :
             /\ Wrote(live, live', target, f)
             /\ target \in Segments(live) => Extends(f, live.wal[target])
    BY <1>2, InterruptedExtends
  <2> QED  BY <2>1, SettledWrite DEF Settled
<1> QED  BY <1>1, <1>2

LEMMA ArchiveWalSettled ==
  ASSUME TypeOK, Numbering, Settled, ArchiveWal
  PROVE  Settled' /\ MinOf(todo) \notin Segments(arch)
<1>1. PICK id : id = MinOf(todo)
  OBVIOUS
<1>2. /\ id \in todo /\ id \in Segments(live)
      /\ Taken(live, live', {id}, {}) /\ Wrote(arch, arch', id, live.wal[id])
  BY <1>1, ArchiveWalTyped, Steps DEF TypeOK, LogTyped
<1>3. PICK next \in Segments(live) \ todo : id < next
  BY <1>2 DEF Numbering, TodoFirst, Archiving, ArchiveWal
<1>4. /\ Segments(live') = Segments(live) \ {id} /\ DOMAIN live'.man = DOMAIN live.man
      /\ next \in Segments(live') /\ Segments(arch') = Segments(arch) \cup {id}
  BY <1>2, <1>3 DEF Taken, Wrote
<1>5. \A k \in Segments(live) \cup DOMAIN live.man : k \in SegmentId
  BY DEF TypeOK, LogTyped
<1>6. id \notin Segments(arch)
  BY <1>2 DEF Settled, ArchiveBehind
<1>7. \A k \in DOMAIN live'.man : \E j \in Segments(live') : k <= j
  <2>1. ASSUME NEW k \in DOMAIN live.man  PROVE \E j \in Segments(live') : k <= j
    <3>1. PICK j \in Segments(live) : k <= j
      BY DEF Settled, LogSettled, ManifestsBehind
    <3>2. CASE j # id
      BY <3>1, <3>2, <1>4
    <3>3. CASE j = id
      BY <3>1, <3>3, <1>2, <1>3, <1>4, <1>5 DEF SegmentId
    <3> QED  BY <3>2, <3>3
  <2> QED  BY <2>1, <1>4
<1>8. LogSettled(live')
  BY <1>2, <1>7, TakenSettled DEF Settled
<1>9. ArchiveBehind'
  <2>1. ASSUME NEW k \in Segments(arch')
        PROVE  /\ k \in SegmentId /\ k \notin Segments(live')
               /\ \E j \in Segments(live') : k < j
    <3>1. CASE k = id
      BY <3>1, <1>2, <1>3, <1>4, <1>5
    <3>2. CASE k \in Segments(arch)
      <4>1. k \in SegmentId /\ k \notin Segments(live)
        BY <3>2 DEF Settled, ArchiveBehind
      <4>2. PICK j \in Segments(live) : k < j
        BY <3>2 DEF Settled, ArchiveBehind
      <4>3. CASE j # id
        BY <4>1, <4>2, <4>3, <1>4
      <4>4. CASE j = id
        <5>1. k < next
          <6>1. id \in Nat /\ next \in Nat
            BY <1>2, <1>3, <1>5 DEF SegmentId
          <6>2. k \in Nat /\ k < id
            BY <4>1, <4>2, <4>4 DEF SegmentId
          <6>3. id < next
            BY <1>3
          <6> QED  BY <6>1, <6>2, <6>3
        <5> QED  BY <5>1, <4>1, <1>4
      <4> QED  BY <4>3, <4>4
    <3> QED  BY <3>1, <3>2, <1>4
  <2> QED  BY <2>1 DEF ArchiveBehind
<1>10. TargetOpen' /\ quar' = quar
  BY DEF TargetOpen, ArchiveWal
<1> QED  BY <1>1, <1>6, <1>8, <1>9, <1>10 DEF Settled

LEMMA ArchiveManifestSettled ==
  ASSUME TypeOK, Numbering, Settled, ArchiveManifest
  PROVE  Settled'
<1>1. PICK id : id = MinOf(todo)
  OBVIOUS
<1>2. /\ Taken(live, live', {}, {id}) /\ Listed(arch, arch', id, live.man[id])
      /\ id \notin Segments(live)
  BY <1>1, ArchiveManifestNumbered, Steps DEF TypeOK, LogTyped
<1>3. /\ Segments(live') = Segments(live) /\ DOMAIN live'.man = DOMAIN live.man \ {id}
      /\ Segments(arch') = Segments(arch)
  BY <1>2 DEF Taken, Listed, Segments
<1>4. \A k \in DOMAIN live'.man : \E j \in Segments(live') : k <= j
  BY <1>3 DEF Settled, LogSettled, ManifestsBehind
<1>5. LogSettled(live')
  BY <1>2, <1>4, TakenSettled DEF Settled
<1>6. ArchiveBehind'
  BY <1>3 DEF Settled, ArchiveBehind
<1>7. TargetOpen' /\ quar' = quar
  BY DEF TargetOpen, ArchiveManifest
<1> QED  BY <1>5, <1>6, <1>7 DEF Settled

-----------------------------------------------------------------------------
(* The invariant of the log.                                               *)

LogInv == TypeOK /\ (moved <= 1 => Numbering) /\ (moved = 0 => Settled)

LEMMA LogInit ==
  ASSUME Init
  PROVE  LogInv
<1>1. /\ live = EmptyDir /\ arch = EmptyDir /\ quar = EmptyDir /\ pc = "idle"
      /\ snapshot = <<>> /\ mem = <<>>
  BY DEF Init
<1>2. DOMAIN EmptyDir.wal = {} /\ DOMAIN EmptyDir.man = {}
  BY DEF EmptyDir, NoFiles
<1>3. Segments(live) = {} /\ Segments(arch) = {} /\ Segments(quar) = {} /\ DOMAIN live.man = {}
  BY <1>1, <1>2 DEF Segments
<1>4. LogNumbered(live)
  BY <1>3 DEF LogNumbered, FilesNumbered, ManifestsNumbered, SegmentsRun
<1>5. TargetNext /\ TodoFirst /\ TargetOpen
  BY <1>1 DEF TargetNext, TodoFirst, TargetOpen, Appending, Archiving
<1>6. LogSettled(live) /\ ArchiveBehind
  BY <1>3 DEF LogSettled, ManifestsBehind, CorruptLast, ManifestFirst, ArchiveBehind
<1> QED  BY <1>1, <1>3, <1>4, <1>5, <1>6, TypeInit DEF LogInv, Numbering, Settled

\* What the first recovery takes away is the last segment, which is not full.
LEMMA QuarantineNumbered ==
  ASSUME TypeOK, Numbering, Settled, pc = "down", NEW W \in SUBSET Corrupt,
         NEW M \in SUBSET W, Quarantine(W, M), UNCHANGED <<pc, snapshot, mem>>
  PROVE  Numbering'
<1>1. Taken(live, live', W, M)
  BY QuarantineIs
<1>2. \A id \in W : id \in Segments(live) /\ Last(live, id)
  BY DEF Corrupt, Settled, LogSettled, CorruptLast
<1>3. ASSUME NEW k \in Segments(live'), ~Last(live', k)
      PROVE  k + 1 \notin W
  <2>1. PICK j \in Segments(live') : ~(j <= k)
    BY <1>3 DEF Last
  <2>2. j \in Segments(live) /\ j \notin W /\ k \in Segments(live)
    BY <2>1, <1>1, <1>3 DEF Taken
  <2>3. j \in Nat /\ k \in Nat
    BY <2>2 DEF TypeOK, LogTyped, SegmentId
  <2>4. k + 1 \in W => j <= k + 1
    BY <2>2, <1>2 DEF Last
  <2>5. k + 1 \in W => j = k + 1
    BY <2>1, <2>3, <2>4
  <2> QED  BY <2>2, <2>5
<1>4. M \cap (Segments(live) \ W) = {}
  OBVIOUS
<1>5. LogNumbered(live')
  BY <1>1, <1>3, <1>4, TakenNumbered DEF Numbering
<1>6. TargetNext' /\ TodoFirst'
  BY DEF TargetNext, TodoFirst, Appending, Archiving
<1> QED  BY <1>5, <1>6 DEF Numbering

\* A recovery takes at least one segment away.
LEMMA RecoveryIs ==
  ASSUME TypeOK, Recover \/ RecoveryCrashes
  PROVE  /\ pc = "down" /\ UNCHANGED <<arch, pc, current, target, todo, snapshot, mem>>
         /\ \E W \in SUBSET Corrupt : W # {} /\ \E M \in SUBSET W : Quarantine(W, M)
<1>1. CASE Recover
  BY <1>1 DEF Recover, jobVars
<1>2. CASE RecoveryCrashes
  <2>1. PICK last \in Corrupt :
          \E M \in {{id \in Corrupt : id <= last}, {id \in Corrupt : id <= last} \ {last}} :
            Quarantine({id \in Corrupt : id <= last}, M)
    BY <1>2 DEF RecoveryCrashes
  <2>2. PICK W : W = {id \in Corrupt : id <= last}
    OBVIOUS
  <2>3. W \in SUBSET Corrupt /\ \E M \in SUBSET W : Quarantine(W, M)
    BY <2>1, <2>2
  <2>4. last \in Nat
    BY <2>1 DEF Corrupt, TypeOK, LogTyped, SegmentId
  <2>5. last \in W
    BY <2>1, <2>2, <2>4
  <2> QED  BY <2>3, <2>5, <1>2 DEF RecoveryCrashes, jobVars
<1> QED  BY <1>1, <1>2

LEMMA LogNext ==
  ASSUME KeepNewest, LogInv, [Next]_vars
  PROVE  LogInv'
<1>1. TypeOK /\ TypeOK'
  BY TypeNext DEF LogInv
<1>2. CASE Recover \/ RecoveryCrashes
  <2>1. /\ pc = "down" /\ UNCHANGED <<arch, pc, current, target, todo, snapshot, mem>>
        /\ \E W \in SUBSET Corrupt : W # {} /\ \E M \in SUBSET W : Quarantine(W, M)
    BY <1>1, <1>2, RecoveryIs
  <2>2. PICK W, M : /\ W \in SUBSET Corrupt /\ M \in SUBSET W
                     /\ W # {} /\ Quarantine(W, M)
    BY <2>1
  <2>3. W \in SUBSET Segments(live)
    BY <2>2 DEF Corrupt
  <2>4. moved' >= moved + 1
    BY <1>1, <2>2, <2>3, QuarantineTyped
  <2>5. moved' <= 1 => moved = 0
    BY <1>1, <2>4 DEF TypeOK
  <2>6. moved' # 0
    BY <1>1, <2>4 DEF TypeOK
  <2>7. ASSUME moved = 0  PROVE Numbering'
    BY <1>1, <2>1, <2>2, <2>7, QuarantineNumbered DEF LogInv
  <2> QED  BY <1>1, <2>5, <2>6, <2>7 DEF LogInv
<1>3. SUFFICES ASSUME ~(Recover \/ RecoveryCrashes)
               PROVE  /\ moved' = moved
                      /\ Numbering => Numbering'
                      /\ Numbering /\ Settled => Settled'
  BY <1>1, <1>2, <1>3 DEF LogInv, TypeOK
<1>4. CASE \E w \in Write : BeginAppend(w)
  BY <1>1, <1>4, BeginAppendNumbered, BeginAppendSettled DEF BeginAppend
<1>5. CASE WriteRecord \/ WriteNewline
  BY <1>1, <1>5, WriteRecordNumbered, WriteNewlineNumbered, WriteSettled
     DEF WriteRecord, WriteNewline, ghosts
<1>6. CASE RewriteManifest
  BY <1>1, <1>6, ManifestStepNumbered, ManifestSettled DEF RewriteManifest
<1>7. CASE AppendFails \/ Crash
  <2>1. /\ live' \in Interrupted /\ pc' \in {"idle", "down"}
        /\ UNCHANGED <<arch, quar, target, snapshot, moved>>
        /\ mem' = mem \/ mem' = <<>>
    BY <1>7 DEF AppendFails, Crash
  <2>2. ASSUME Numbering  PROVE Numbering'
    <3>1. LogNumbered(live')
      BY <1>1, <2>1, <2>2, InterruptedNumbered
    <3>2. TargetNext' /\ TodoFirst'
      BY <2>1 DEF TargetNext, TodoFirst, Appending, Archiving
    <3>3. <<>> \in Seq(Write)
      OBVIOUS
    <3>4. snapshot' \in Seq(Write) /\ mem' \in Seq(Write)
      BY <2>1, <2>2, <3>3 DEF Numbering
    <3> QED  BY <3>1, <3>2, <3>4 DEF Numbering
  <2> QED  BY <1>1, <2>1, <2>2, InterruptedSettled
<1>8. CASE BeginArchive
  <2>1. UNCHANGED <<live, arch, quar, moved>> /\ pc' = "archive_wal"
    BY <1>8 DEF BeginArchive, dirVars, ghosts
  <2>2. Settled => Settled'
    BY <2>1 DEF Settled, ArchiveBehind, TargetOpen
  <2> QED  BY <1>1, <1>8, <2>1, <2>2, BeginArchiveNumbered
<1>9. CASE ArchiveWal
  BY <1>1, <1>9, ArchiveWalNumbered, ArchiveWalSettled DEF ArchiveWal, ghosts
<1>10. CASE ArchiveManifest
  BY <1>1, <1>10, ArchiveManifestNumbered, ArchiveManifestSettled DEF ArchiveManifest, ghosts
<1>11. CASE Acknowledge \/ TakeSnapshot \/ Open \/ UNCHANGED vars
  <2>1. /\ UNCHANGED <<live, arch, quar, moved>>
        /\ pc' = "idle" \/ UNCHANGED <<pc, current, target, todo>>
    BY <1>11 DEF Acknowledge, TakeSnapshot, Open, vars, dirVars, jobVars, ghosts
  <2>2. Settled => Settled'
    BY <2>1 DEF Settled, ArchiveBehind, TargetOpen
  <2>3. TargetNext /\ TodoFirst => TargetNext' /\ TodoFirst'
    BY <2>1 DEF TargetNext, TodoFirst, Appending, Archiving, Leftover
  <2>4. Numbering => snapshot' \in Seq(Write) /\ mem' \in Seq(Write)
    <3>1. CASE Acknowledge
      <4>1. Numbering => current.ev \in Write
        BY <3>1 DEF Acknowledge, Numbering, TargetNext, Appending, Numbered
      <4> QED  BY <4>1, <3>1 DEF Acknowledge, Numbering
    <3>2. CASE Open
      BY <1>1, <3>2, OpenNumbered DEF Numbering
    <3>3. CASE TakeSnapshot \/ UNCHANGED vars
      BY <3>3 DEF TakeSnapshot, vars, Numbering
    <3> QED  BY <1>11, <3>1, <3>2, <3>3
  <2> QED  BY <2>1, <2>2, <2>3, <2>4 DEF Numbering
<1> QED
  BY <1>3, <1>4, <1>5, <1>6, <1>7, <1>8, <1>9, <1>10, <1>11 DEF Next

\* The constant KeepNewest: the operator never archives up to the last sequence.
LEMMA LogIsSafe ==
  ASSUME KeepNewest
  PROVE  Spec => []LogInv
<1>1. Init => LogInv
  BY LogInit
<1>2. LogInv /\ [Next]_vars => LogInv'
  BY LogNext
<1> QED  BY <1>1, <1>2, PTL DEF Spec

(***************************************************************************)
(* When the operator never archives up to the last sequence number, what a *)
(* manifest lists are always the first records of its segment file, until  *)
(* a segment is quarantined.                                               *)
(***************************************************************************)
THEOREM ManifestNeverAhead ==
  ASSUME KeepNewest
  PROVE  Spec => []ManifestIsPrefix
<1>1. ASSUME LogInv  PROVE ManifestIsPrefix
  <2>1. SUFFICES ASSUME moved = 0, NEW id \in Segments(live) \cap DOMAIN live.man
                 PROVE  /\ Len(live.man[id]) <= Len(LinesRead(live.wal[id]))
                        /\ \A i \in 1..Len(live.man[id]) :
                             live.man[id][i] = LinesRead(live.wal[id])[i][1]
    BY DEF ManifestIsPrefix
  <2>2. PICK f, m, l : f = live.wal[id] /\ m = live.man[id] /\ l = LinesRead(live.wal[id])
    OBVIOUS
  <2>3. f \in FileOver(Record) /\ m \in Seq(Record)
    BY <1>1, <2>2 DEF LogInv, TypeOK, LogTyped, FilesTyped, ManifestsTyped
  <2>4. Len(m) <= Len(f.lines) /\ \A i \in 1..Len(m) : m[i] = f.lines[i][1]
    BY <1>1, <2>1, <2>2 DEF LogInv, Settled, LogSettled, ManifestFirst
  <2>5. /\ Len(f.lines) <= Len(l) /\ Len(l) \in Nat /\ Len(f.lines) \in Nat
        /\ \A i \in 1..Len(f.lines) : l[i] = f.lines[i]
    BY <2>2, <2>3, LinesReadAre
  <2>6. Len(m) \in Nat
    BY <2>3
  <2>7. \A i \in 1..Len(m) : i \in 1..Len(f.lines)
    BY <2>4, <2>5, <2>6
  <2>8. Len(m) <= Len(l) /\ \A i \in 1..Len(m) : m[i] = l[i][1]
    BY <2>4, <2>5, <2>6, <2>7
  <2> QED  BY <2>2, <2>8
<1>2. LogInv => ManifestIsPrefix
  BY <1>1
<1> QED  BY <1>2, LogIsSafe, PTL

(***************************************************************************)
(* The readers' check for gaps never refuses a log this process wrote: the *)
(* numbers of its records run on, each given once, through every crash,    *)
(* failed append, archive job and the first recovery.                      *)
(***************************************************************************)
THEOREM NumbersRunOn ==
  ASSUME KeepNewest
  PROVE  Spec => []ReadIsContiguous
<1>1. ASSUME LogInv  PROVE ReadIsContiguous
  <2>1. SUFFICES ASSUME moved <= 1, AllManifested(live)
                 PROVE  LET seqs == {r.seq : r \in RecordsOf(live)} IN
                        /\ Cardinality(seqs) = Cardinality(RecordsOf(live))
                        /\ seqs # {} => seqs = MinOf(seqs)..MaxOf(seqs)
    BY DEF ReadIsContiguous
  <2>2. PICK S : S = Numbers(RecordsOf(live))
    OBVIOUS
  <2>3. LogTyped(live) /\ LogNumbered(live)
    BY <1>1, <2>1 DEF LogInv, TypeOK, Numbering
  <2>4. /\ Cardinality(S) = Cardinality(RecordsOf(live))
        /\ S # {} => S = MinOf(S)..MaxOf(S)
    BY <2>1, <2>2, <2>3, NumbersContiguous
  <2> QED  BY <2>2, <2>4 DEF Numbers
<1>2. LogInv => ReadIsContiguous
  BY <1>1
<1> QED  BY <1>2, LogIsSafe, PTL

(***************************************************************************)
(* Compaction adds: until a segment is quarantined, no step replaces or    *)
(* removes a segment file of the archive.                                  *)
(***************************************************************************)
THEOREM ArchiveStands ==
  ASSUME KeepNewest
  PROVE  Spec => ArchiveIsFinal
<1> DEFINE Stands == moved = 0 => \A id \in Segments(arch) :
                       id \in Segments(arch') /\ arch'.wal[id] = arch.wal[id]
<1>1. ASSUME LogInv, [Next]_vars, moved = 0
      PROVE  \A id \in Segments(arch) :
               id \in Segments(arch') /\ arch'.wal[id] = arch.wal[id]
  <2>1. TypeOK /\ Numbering /\ Settled
    BY <1>1 DEF LogInv
  <2>2. CASE ArchiveWal
    <3>1. MinOf(todo) \notin Segments(arch)
      BY <2>1, <2>2, ArchiveWalSettled
    <3>2. Wrote(arch, arch', MinOf(todo), live.wal[MinOf(todo)])
      BY <2>1, <2>2, Steps DEF TypeOK, LogTyped
    <3> QED  BY <3>1, <3>2 DEF Wrote
  <2>3. CASE ArchiveManifest
    <3>1. arch'.wal = arch.wal
      BY <2>1, <2>3, Steps DEF TypeOK, LogTyped, Listed
    <3> QED  BY <3>1 DEF Segments
  <2>4. CASE ~(ArchiveWal \/ ArchiveManifest)
    <3>1. arch' = arch
      BY <1>1, <2>4
         DEF Next, BeginAppend, WriteRecord, WriteNewline, RewriteManifest, Acknowledge,
             AppendFails, TakeSnapshot, BeginArchive, Crash, Recover, RecoveryCrashes,
             Open, vars, dirVars
    <3> QED  BY <3>1
  <2> QED  BY <2>2, <2>3, <2>4
<1>2. LogInv /\ [Next]_vars => [Stands]_vars
  BY <1>1
<1> QED  BY <1>2, LogIsSafe, PTL DEF Spec, ArchiveIsFinal

-----------------------------------------------------------------------------
(* What a step does to the events that the directories hold.               *)

LEMMA EventsAre ==
  ASSUME NEW d
  PROVE  \A t : t \in EventsIn(d) <=> \E id \in Segments(d) : InLines(d.wal[id], t)
<1>1. ASSUME NEW t, t \in EventsIn(d)
      PROVE  \E id \in Segments(d) : InLines(d.wal[id], t)
  <2>1. PICK id \in Segments(d) :
          t \in UNION {{d.wal[id].lines[n][i] : i \in 1..Len(d.wal[id].lines[n])} :
                         n \in 1..Len(d.wal[id].lines)}
    BY <1>1 DEF EventsIn
  <2>2. PICK n \in 1..Len(d.wal[id].lines) :
          t \in {d.wal[id].lines[n][i] : i \in 1..Len(d.wal[id].lines[n])}
    BY <2>1
  <2> QED  BY <2>1, <2>2 DEF InLines, HasToken
<1>2. ASSUME NEW t, NEW id \in Segments(d), InLines(d.wal[id], t)
      PROVE  t \in EventsIn(d)
  <2>1. PICK n \in 1..Len(d.wal[id].lines) : HasToken(d.wal[id].lines[n], t)
    BY <1>2 DEF InLines
  <2>2. t \in {d.wal[id].lines[n][i] : i \in 1..Len(d.wal[id].lines[n])}
    BY <2>1 DEF HasToken
  <2>3. t \in UNION {{d.wal[id].lines[k][i] : i \in 1..Len(d.wal[id].lines[k])} :
                       k \in 1..Len(d.wal[id].lines)}
    BY <2>1, <2>2
  <2> QED  BY <2>3 DEF EventsIn
<1> QED  BY <1>1, <1>2

\* The files of e are those of d, with the lines of one of them gone on.
LEMMA WroteKeeps ==
  ASSUME NEW d, NEW e, NEW id, NEW f, Wrote(d, e, id, f),
         id \in Segments(d) => Extends(f, d.wal[id])
                                 /\ Len(f.lines) \in Nat /\ Len(d.wal[id].lines) \in Nat
  PROVE  EventsIn(d) \subseteq EventsIn(e)
<1>1. ASSUME NEW t, NEW k \in Segments(d), InLines(d.wal[k], t)
      PROVE  k \in Segments(e) /\ InLines(e.wal[k], t)
  <2>1. CASE k # id
    BY <1>1, <2>1 DEF Wrote
  <2>2. CASE k = id
    <3>1. PICK n \in 1..Len(d.wal[k].lines) : HasToken(d.wal[k].lines[n], t)
      BY <1>1 DEF InLines
    <3>2. e.wal[k] = f /\ f.lines[n] = d.wal[k].lines[n] /\ n \in 1..Len(f.lines)
      BY <2>2, <3>1 DEF Wrote, Extends
    <3>3. InLines(e.wal[k], t)
      BY <3>1, <3>2 DEF InLines
    <3> QED  BY <2>2, <3>3 DEF Wrote
  <2> QED  BY <2>1, <2>2
<1> QED  BY <1>1, EventsAre

\* A file taken from d is in the directory r that it was moved into.
LEMMA TakenKeeps ==
  ASSUME NEW d, NEW e, NEW W, NEW M, Taken(d, e, W, M), NEW r,
         \A k \in Segments(d) \cap W : k \in Segments(r) /\ r.wal[k] = d.wal[k]
  PROVE  EventsIn(d) \subseteq EventsIn(e) \cup EventsIn(r)
<1>1. ASSUME NEW t, NEW k \in Segments(d), InLines(d.wal[k], t)
      PROVE  t \in EventsIn(e) \cup EventsIn(r)
  <2>1. CASE k \in W
    <3>1. k \in Segments(r) /\ InLines(r.wal[k], t)
      BY <1>1, <2>1
    <3> QED  BY <3>1, EventsAre
  <2>2. CASE k \notin W
    <3>1. k \in Segments(e) /\ InLines(e.wal[k], t)
      BY <1>1, <2>2 DEF Taken
    <3> QED  BY <3>1, EventsAre
  <2> QED  BY <2>1, <2>2
<1> QED  BY <1>1, EventsAre

LEMMA SameFilesKeep ==
  ASSUME NEW d, NEW e, \A k \in Segments(d) : k \in Segments(e) /\ e.wal[k] = d.wal[k]
  PROVE  EventsIn(d) \subseteq EventsIn(e)
<1>1. ASSUME NEW t, NEW k \in Segments(d), InLines(d.wal[k], t)
      PROVE  k \in Segments(e) /\ InLines(e.wal[k], t)
  BY <1>1
<1> QED  BY <1>1, EventsAre

\* Every step keeps the events, when it replaces no file that was moved away.
LEMMA KeptStays ==
  ASSUME TypeOK, NumbersUnused, [Next]_vars
  PROVE  Kept \subseteq Kept'
<1>1. ASSUME EventsIn(live) \subseteq EventsIn(live'), UNCHANGED <<arch, quar>>
      PROVE  Kept \subseteq Kept'
  BY <1>1 DEF Kept
<1>2. ASSUME NEW f \in FileOver(Record), Wrote(live, live', target, f),
             target \in Segments(live) => Extends(f, live.wal[target])
      PROVE  EventsIn(live) \subseteq EventsIn(live')
  <2>1. target \in Segments(live) => live.wal[target] \in FileOver(Record)
    BY DEF TypeOK, LogTyped, FilesTyped
  <2>2. /\ Len(f.lines) \in Nat
        /\ target \in Segments(live) => Len(live.wal[target].lines) \in Nat
    BY <2>1, LinesReadAre
  <2> QED  BY <1>2, <2>2, WroteKeeps
<1>3. CASE WriteRecord \/ WriteNewline
  <2>1. UNCHANGED <<arch, quar>>
    BY <1>3 DEF WriteRecord, WriteNewline
  <2> QED  BY <1>1, <1>2, <1>3, <2>1, WriteExtends
<1>4. CASE AppendFails \/ Crash
  <2>1. live' \in Interrupted /\ UNCHANGED <<arch, quar>>
    BY <1>4 DEF AppendFails, Crash
  <2> QED  BY <1>1, <1>2, <2>1, InterruptedExtends
<1>5. CASE RewriteManifest \/ ArchiveManifest
  <2>1. EventsIn(live) \subseteq EventsIn(live')
    <3>1. CASE live' = live
      BY <3>1
    <3>2. CASE RewriteManifest /\ pc' = "done"
      <4>1. live'.wal = live.wal
        BY <3>2, Steps DEF TypeOK, LogTyped, Listed
      <4> QED  BY <4>1, SameFilesKeep DEF Segments
    <3>3. CASE ArchiveManifest
      <4>1. Taken(live, live', {}, {MinOf(todo)})
        BY <3>3, Steps DEF TypeOK, LogTyped
      <4> QED  BY <4>1, SameFilesKeep DEF Taken
    <3> QED  BY <1>5, <3>1, <3>2, <3>3 DEF RewriteManifest
  <2>2. EventsIn(arch) \subseteq EventsIn(arch')
    <3>1. CASE ArchiveManifest
      <4>1. arch'.wal = arch.wal
        BY <3>1, Steps DEF TypeOK, LogTyped, Listed
      <4> QED  BY <4>1, SameFilesKeep DEF Segments
    <3>2. CASE RewriteManifest
      BY <3>2 DEF RewriteManifest
    <3> QED  BY <1>5, <3>1, <3>2
  <2>3. quar' = quar
    BY <1>5 DEF RewriteManifest, ArchiveManifest
  <2> QED  BY <2>1, <2>2, <2>3 DEF Kept
<1>6. CASE ArchiveWal
  <2>1. PICK id : id = MinOf(todo)
    OBVIOUS
  <2>2. /\ Taken(live, live', {id}, {}) /\ Wrote(arch, arch', id, live.wal[id])
        /\ id \in Segments(live) /\ quar' = quar
    BY <1>6, <2>1, ArchiveWalTyped, Steps DEF TypeOK, LogTyped, ArchiveWal
  <2>3. EventsIn(live) \subseteq EventsIn(live') \cup EventsIn(arch')
    BY <2>2, TakenKeeps DEF Wrote
  <2>4. id \notin Segments(arch)
    BY <2>2 DEF NumbersUnused
  <2>5. EventsIn(arch) \subseteq EventsIn(arch')
    BY <2>2, <2>4, SameFilesKeep DEF Wrote
  <2> QED  BY <2>2, <2>3, <2>5 DEF Kept
<1>7. CASE Recover \/ RecoveryCrashes
  <2>1. PICK W, M : W \in SUBSET Corrupt /\ Quarantine(W, M)
    BY <1>7, RecoveryIs
  <2>2. /\ Taken(live, live', W, M) /\ Joined(quar, quar', live, W) /\ arch' = arch
    BY <1>7, <2>1, QuarantineIs DEF Recover, RecoveryCrashes
  <2>3. EventsIn(live) \subseteq EventsIn(live') \cup EventsIn(quar')
    BY <2>2, TakenKeeps DEF Joined
  <2>4. EventsIn(quar) \subseteq EventsIn(quar')
    BY <2>2, SameFilesKeep DEF Joined, NumbersUnused
  <2> QED  BY <2>2, <2>3, <2>4 DEF Kept
<1>8. CASE UNCHANGED dirVars
  BY <1>8 DEF dirVars, Kept
<1> QED
  BY <1>3, <1>4, <1>5, <1>6, <1>7, <1>8
     DEF Next, BeginAppend, Acknowledge, TakeSnapshot, BeginArchive, Open, vars

\* An append answers Ok when its record is in the segment file.
LEMMA AckedIsKept ==
  ASSUME TypeOK, [Next]_vars
  PROVE  acked' \ acked \subseteq {t.ev : t \in Kept'}
<1>1. CASE Acknowledge
  <2>1. acked' = acked \cup {current.ev} /\ UNCHANGED <<live, arch, quar>>
    BY <1>1 DEF Acknowledge, dirVars
  <2>2. target \in Segments(live) /\ InLines(live.wal[target], current) /\ current \in Record
    BY <1>1 DEF Acknowledge, TypeOK, AppendTyped, Appending
  <2>3. current \in EventsIn(live)
    BY <2>2, EventsAre
  <2>4. current # Torn
    BY <2>2, SegmentAssumption DEF Record
  <2>5. current \in Kept'
    BY <2>1, <2>3, <2>4 DEF Kept
  <2> QED  BY <2>1, <2>5
<1>2. CASE ~Acknowledge
  <2>1. acked' = acked
    BY <1>2
       DEF Next, BeginAppend, WriteRecord, WriteNewline, RewriteManifest, AppendFails,
           TakeSnapshot, BeginArchive, ArchiveWal, ArchiveManifest, Crash, Recover,
           RecoveryCrashes, Open, vars, ghosts
  <2> QED  BY <2>1
<1> QED  BY <1>1, <1>2

(***************************************************************************)
(* No event is lost: until and through the first recovery, and after that  *)
(* as long as the numbers in use are not those of segments moved away, what *)
(* the log, the archive or the quarantine holds stays in one of them, and  *)
(* an append is answered Ok only when its event is there.                  *)
(***************************************************************************)
THEOREM EventsStayOnFile ==
  ASSUME KeepNewest
  PROVE  Spec => NothingDestroyed
<1> DEFINE Stays == moved = 0 \/ NumbersUnused =>
                      /\ Kept \subseteq Kept'
                      /\ acked' \ acked \subseteq {t.ev : t \in Kept'}
<1>1. ASSUME LogInv, [Next]_vars, moved = 0 \/ NumbersUnused
      PROVE  /\ Kept \subseteq Kept'
             /\ acked' \ acked \subseteq {t.ev : t \in Kept'}
  <2>1. NumbersUnused
    <3>1. CASE moved = 0
      BY <1>1, <3>1 DEF LogInv, Settled, ArchiveBehind, NumbersUnused
    <3> QED  BY <1>1, <3>1
  <2> QED  BY <1>1, <2>1, KeptStays, AckedIsKept DEF LogInv
<1>2. LogInv /\ [Next]_vars => [Stays]_vars
  BY <1>1
<1> QED  BY <1>2, LogIsSafe, PTL DEF Spec, NothingDestroyed

-----------------------------------------------------------------------------
(* The events that the log, with the snapshot s, holds.                    *)

Has(d, r) ==
  \E id \in Segments(d) \cap DOMAIN d.man : \E i \in 1..Len(d.man[id]) : r = d.man[id][i]

\* The events m are those of the snapshot and of the records after it, and
\* the last of them has its record in the log.
Tracks(d, s, m) ==
  /\ Len(s) <= Len(m) /\ \A i \in 1..Len(s) : s[i] = m[i]
  /\ \A r : Has(d, r) => r.seq \in 1..Len(m) /\ r.ev = m[r.seq]
  /\ \A n \in 1..Len(m) : n > Len(s) \/ n = Len(m) => \E r : Has(d, r) /\ r.seq = n

LEMMA HasRecord ==
  ASSUME NEW d, AllManifested(d)
  PROVE  \A r : Has(d, r) <=> r \in RecordsOf(d)
<1>1. Segments(d) \cap DOMAIN d.man = Segments(d)
  BY DEF AllManifested
<1> QED  BY <1>1, RecordIn DEF Has

LEMMA WroteHas ==
  ASSUME NEW d, NEW e, NEW id, NEW f, Wrote(d, e, id, f),
         id \in DOMAIN d.man => id \in Segments(d)
  PROVE  \A r : Has(e, r) <=> Has(d, r)
<1>1. e.man = d.man /\ Segments(e) \cap DOMAIN d.man = Segments(d) \cap DOMAIN d.man
  BY DEF Wrote
<1> QED  BY <1>1 DEF Has

LEMMA ListedHas ==
  ASSUME NEW d, NEW e, NEW id \in Segments(d), NEW m \in Seq(Record), NEW c \in Record,
         id \in DOMAIN d.man => m = d.man[id], id \notin DOMAIN d.man => m = <<>>,
         NEW n, n = Append(m, c), Listed(d, e, id, n)
  PROVE  \A r : Has(e, r) <=> Has(d, r) \/ r = c
<1>1. n = Append(m, c)
  OBVIOUS
<1>2. /\ Len(n) = Len(m) + 1 /\ Len(m) \in Nat /\ n[Len(m) + 1] = c
      /\ \A i \in 1..Len(m) : n[i] = m[i]
  BY <1>1, Appended
<1>3. /\ Segments(e) = Segments(d) /\ DOMAIN e.man = DOMAIN d.man \cup {id} /\ e.man[id] = n
      /\ \A k \in DOMAIN d.man : k # id => e.man[k] = d.man[k]
  BY <1>1 DEF Listed, Segments
<1>4. ASSUME NEW r, Has(d, r)  PROVE Has(e, r)
  <2>1. PICK k, i : k \in Segments(d) \cap DOMAIN d.man /\ i \in 1..Len(d.man[k]) /\ r = d.man[k][i]
    BY <1>4 DEF Has
  <2>2. CASE k = id
    <3>1. i \in 1..Len(n) /\ r = n[i]
      BY <2>1, <2>2, <1>2
    <3> QED  BY <3>1, <2>2, <1>3 DEF Has
  <2>3. CASE k # id
    <3>1. e.man[k] = d.man[k]
      BY <2>1, <2>3, <1>3
    <3> QED  BY <3>1, <2>1, <1>3 DEF Has
  <2> QED  BY <2>2, <2>3
<1>5. Has(e, c)
  <2>1. Len(m) + 1 \in 1..Len(n)
    BY <1>2
  <2> QED  BY <2>1, <1>2, <1>3 DEF Has
<1>6. ASSUME NEW r, Has(e, r)  PROVE Has(d, r) \/ r = c
  <2>1. PICK k, i : k \in Segments(e) \cap DOMAIN e.man /\ i \in 1..Len(e.man[k]) /\ r = e.man[k][i]
    BY <1>6 DEF Has
  <2>2. CASE k = id
    <3>1. i \in 1..Len(n) /\ r = n[i]
      BY <2>1, <2>2, <1>3
    <3>2. CASE i = Len(m) + 1
      BY <3>1, <3>2, <1>2
    <3>3. CASE i # Len(m) + 1
      <4>1. i \in 1..Len(m) /\ r = m[i]
        BY <3>1, <3>3, <1>2
      <4>2. id \in DOMAIN d.man
        <5>1. id \notin DOMAIN d.man => Len(m) = 0
          OBVIOUS
        <5> QED  BY <5>1, <4>1
      <4> QED  BY <4>1, <4>2 DEF Has
    <3> QED  BY <3>2, <3>3
  <2>3. CASE k # id
    <3>1. k \in Segments(d) \cap DOMAIN d.man /\ e.man[k] = d.man[k]
      BY <2>1, <2>3, <1>3
    <3> QED  BY <3>1, <2>1 DEF Has
  <2> QED  BY <2>2, <2>3
<1> QED  BY <1>4, <1>5, <1>6

LEMMA TracksAlike ==
  ASSUME NEW d, NEW e, NEW s, NEW m, \A r : Has(e, r) <=> Has(d, r), Tracks(d, s, m)
  PROVE  Tracks(e, s, m)
BY DEF Tracks

\* One more record, numbered next, is one more event.
LEMMA TracksMore ==
  ASSUME NEW d, NEW e, NEW s \in Seq(Write), NEW m \in Seq(Write), NEW c \in Record,
         c.seq = Len(m) + 1, \A r : Has(e, r) <=> Has(d, r) \/ r = c, Tracks(d, s, m)
  PROVE  Tracks(e, s, Append(m, c.ev))
<1>1. PICK n : n = Append(m, c.ev)
  OBVIOUS
<1>2. c.ev \in Write
  BY DEF Record
<1>3. /\ Len(n) = Len(m) + 1 /\ Len(m) \in Nat /\ n[Len(m) + 1] = c.ev
      /\ \A i \in 1..Len(m) : n[i] = m[i]
  BY <1>1, <1>2, Appended
<1>4. Len(s) \in Nat
  OBVIOUS
<1>5. Len(s) <= Len(n) /\ \A i \in 1..Len(s) : s[i] = n[i]
  BY <1>3, <1>4 DEF Tracks
<1>6. ASSUME NEW r, Has(e, r)  PROVE r.seq \in 1..Len(n) /\ r.ev = n[r.seq]
  <2>1. CASE r = c
    BY <2>1, <1>3
  <2>2. CASE r # c
    <3>1. r.seq \in 1..Len(m) /\ r.ev = m[r.seq]
      BY <1>6, <2>2 DEF Tracks
    <3> QED  BY <3>1, <1>3
  <2> QED  BY <2>1, <2>2
<1>7. ASSUME NEW i \in 1..Len(n), i > Len(s) \/ i = Len(n)
      PROVE  \E r : Has(e, r) /\ r.seq = i
  <2>1. CASE i = Len(m) + 1
    BY <2>1
  <2>2. CASE i # Len(m) + 1
    <3>1. i \in 1..Len(m) /\ i > Len(s)
      BY <1>3, <1>7, <2>2
    <3>2. \E r : Has(d, r) /\ r.seq = i
      BY <3>1 DEF Tracks
    <3> QED  BY <3>2
  <2> QED  BY <2>1, <2>2
<1> QED  BY <1>1, <1>5, <1>6, <1>7 DEF Tracks

\* The number that the next append gives is that of the next event.
LEMMA LastIsLength ==
  ASSUME NEW d, LogTyped(d), LogNumbered(d), AllManifested(d),
         NEW s \in Seq(Write), NEW m \in Seq(Write), Tracks(d, s, m)
  PROVE  LastSequence(d) = Len(m)
<1>1. Len(m) \in Nat
  OBVIOUS
<1>2. Len(m) # 0 => \E r \in RecordsOf(d) : r.seq = Len(m)
  BY <1>1, HasRecord DEF Tracks
<1>3. \A r \in RecordsOf(d) : r.seq \in 1..Len(m)
  BY HasRecord DEF Tracks
<1>4. CASE Segments(d) = {}
  <2>1. RecordsOf(d) = {}
    BY <1>4, RecordIn
  <2> QED  BY <2>1, <1>2, <1>4 DEF LastSequence
<1>5. CASE Segments(d) # {}
  <2>1. /\ LastSequence(d) \in Nat
        /\ \A r \in RecordsOf(d) : r.seq <= LastSequence(d)
        /\ \E r \in RecordsOf(d) : r.seq = LastSequence(d)
    BY <1>5, GreatestNumber
  <2>2. LastSequence(d) \in 1..Len(m)
    BY <2>1, <1>3
  <2> QED  BY <1>1, <1>2, <2>1, <2>2
<1> QED  BY <1>4, <1>5

LEMMA RestoredIs ==
  ASSUME LogTyped(live), LogNumbered(live), AllManifested(live), snapshot \in Seq(Write),
         NEW m \in Seq(Write), Tracks(live, snapshot, m)
  PROVE  Restored = m
<1>1. PICK b \in Nat : b = Len(snapshot)
  OBVIOUS
<1>2. PICK t : t = TailAfter(live, b)
  OBVIOUS
<1>3. t \in Seq(Write) /\ Len(t) \in Nat
  BY <1>2, TailIs
<1>4. PICK a \in Nat :
        /\ a >= b
        /\ \A i \in 1..Len(t) : [seq |-> a + i, ev |-> t[i]] \in RecordsOf(live)
        /\ \A r \in RecordsOf(live) : r.seq > b => r.seq > a /\ r.seq <= a + Len(t)
  BY <1>2, TailIs
<1>5. \A r \in RecordsOf(live) : r.seq \in 1..Len(m) /\ r.ev = m[r.seq]
  BY HasRecord DEF Tracks
<1>6. /\ b <= Len(m) /\ \A i \in 1..b : snapshot[i] = m[i]
      /\ \A n \in 1..Len(m) : n > b => \E r \in RecordsOf(live) : r.seq = n
  BY <1>1, HasRecord DEF Tracks
<1>7. \A i \in 1..Len(t) : a + i \in 1..Len(m) /\ t[i] = m[a + i]
  <2>1. ASSUME NEW i \in 1..Len(t)  PROVE a + i \in 1..Len(m) /\ t[i] = m[a + i]
    <3>1. PICK r \in RecordsOf(live) : r = [seq |-> a + i, ev |-> t[i]]
      BY <1>4
    <3>2. r.seq = a + i /\ r.ev = t[i]
      BY <3>1
    <3> QED  BY <3>1, <3>2, <1>5
  <2> QED  BY <2>1
<1>8. PICK k \in Nat : k = Len(m)
  OBVIOUS
<1>9. Len(t) = k - b /\ (b < k => a = b)
  <2>1. CASE b = k
    <3>1. ASSUME Len(t) # 0  PROVE FALSE
      <4>1. 1 \in 1..Len(t)
        BY <3>1, <1>3
      <4>2. a + 1 \in 1..k
        BY <4>1, <1>7, <1>8
      <4> QED  BY <4>2, <2>1, <1>4
    <3> QED  BY <3>1, <2>1
  <2>2. CASE b < k
    <3>1. b + 1 \in 1..k /\ k \in 1..k
      BY <2>2
    <3>2. b + 1 > a
      <4>1. PICK r \in RecordsOf(live) : r.seq = b + 1
        BY <3>1, <1>6, <1>8
      <4> QED  BY <4>1, <1>4
    <3>3. a = b
      BY <3>2, <1>4
    <3>4. k <= a + Len(t)
      <4>1. PICK r \in RecordsOf(live) : r.seq = k
        BY <3>1, <2>2, <1>6, <1>8
      <4> QED  BY <4>1, <2>2, <1>4
    <3>5. Len(t) \in 1..Len(t)
      BY <3>3, <3>4, <2>2, <1>3
    <3>6. a + Len(t) \in 1..k
      BY <3>5, <1>7, <1>8
    <3> QED  BY <3>3, <3>4, <3>6, <1>3
  <2> QED  BY <2>1, <2>2, <1>6, <1>8
<1>10. \A i \in 1..Len(t) : t[i] = m[b + i]
  <2>1. b <= k /\ b \in Nat /\ k \in Nat
    BY <1>1, <1>6, <1>8
  <2>2. CASE b < k
    BY <2>2, <1>7, <1>9
  <2>3. CASE b = k
    <3>1. Len(t) = 0
      BY <2>1, <2>3, <1>9
    <3> QED  BY <3>1
  <2> QED  BY <2>1, <2>2, <2>3
<1>11. Restored = snapshot \o t
  BY <1>1, <1>2 DEF Restored
<1>12. PICK q : q = snapshot \o t
  OBVIOUS
<1>13. \A i \in 1..k : q[i] = m[i]
  <2>1. ASSUME NEW i \in 1..k  PROVE q[i] = m[i]
    <3>1. CASE i <= b
      <4>1. q[i] = snapshot[i]
        BY <3>1, <1>1, <1>3, <1>12
      <4> QED  BY <4>1, <3>1, <1>6
    <3>2. CASE i > b
      <4>1. PICK j \in 1..Len(t) : i = b + j
        <5>1. i - b \in 1..Len(t) /\ i = b + (i - b)
          BY <3>2, <1>9
        <5> QED  BY <5>1
      <4>2. q[i] = t[j]
        BY <4>1, <1>1, <1>3, <1>12
      <4> QED  BY <4>1, <4>2, <1>10
    <3>3. i \in Int /\ b \in Int
      BY <1>1
    <3> QED  BY <3>1, <3>2, <3>3
  <2> QED  BY <2>1
<1>14. q \in Seq(Write) /\ Len(q) = k
  <2>1. q \in Seq(Write) /\ Len(q) = Len(snapshot) + Len(t)
    BY <1>3, <1>12
  <2>2. b + Len(t) = k
    BY <1>3, <1>8, <1>9
  <2> QED  BY <1>1, <2>1, <2>2
<1>15. q = [i \in 1..k |-> q[i]] /\ m = [i \in 1..k |-> m[i]]
  BY <1>8, <1>14
<1>16. q = m
  BY <1>13, <1>15
<1> QED  BY <1>11, <1>12, <1>16

LEMMA AgreedReads ==
  ASSUME NEW d, LogTyped(d), LogNumbered(d), \A id \in Segments(d) : SegmentAgrees(d, id)
  PROVE  AllManifested(d) /\ ReadOk(d)
<1>1. AllManifested(d)
  BY DEF AllManifested, SegmentAgrees
<1>2. \A k \in Segments(d) : k \in SegmentId /\ ManifestNumbered(d.man[k], k)
  BY <1>1 DEF LogTyped, LogNumbered, ManifestsNumbered, AllManifested
<1>3. ASSUME NEW id \in Segments(d), Before(d, id) # {}
      PROVE  FirstSeq(d.man[id]) = LastSeq(d.man[MaxOf(Before(d, id))]) + 1
  <2>1. PICK B : B = Before(d, id)
    OBVIOUS
  <2>2. B \in SUBSET Nat /\ B # {} /\ id \in Nat /\ \A k \in B : k <= id
    BY <2>1, <1>2, <1>3 DEF Before, SegmentId
  <2>3. MaxOf(B) \in B /\ \A k \in B : k <= MaxOf(B)
    BY <2>2, MaxIsGreatest
  <2>4. PICK k : k = MaxOf(B)
    OBVIOUS
  <2>5. k \in Segments(d) /\ k < id /\ k \in SegmentId /\ id \in SegmentId
    BY <2>1, <2>3, <2>4, <1>2 DEF Before
  <2>6. ~Last(d, k)
    BY <2>5 DEF Last, SegmentId
  <2>7. Full(d, k) /\ k + 1 \in Segments(d)
    BY <2>5, <2>6 DEF LogNumbered, SegmentsRun
  <2>8. k + 1 \notin B
    BY <2>3, <2>4, <2>5 DEF SegmentId
  <2>9. id = k + 1
    BY <2>1, <2>5, <2>7, <2>8 DEF Before, SegmentId
  <2>10. PICK m, n : m = d.man[k] /\ n = d.man[id]
    OBVIOUS
  <2>11. ManifestNumbered(m, k) /\ ManifestNumbered(n, id) /\ Len(m) = MaxSegment
    BY <2>5, <2>7, <2>10, <1>2 DEF Full
  <2>12. FirstSeq(n) = Start(id) /\ LastSeq(m) = Start(k) + Len(m) - 1 /\ Start(k) \in Nat
    BY <2>5, <2>11, EndsOf
  <2>13. Start(id) = Start(k) + MaxSegment
    BY <2>5, <2>9, StartIs
  <2>14. FirstSeq(n) = LastSeq(m) + 1
    BY <2>11, <2>12, <2>13, SegmentAssumption
  <2> QED  BY <2>1, <2>4, <2>10, <2>14
<1> QED  BY <1>1, <1>3 DEF ReadOk

\* The first segments are taken away, once the snapshot has their events.
LEMMA TracksTaken ==
  ASSUME NEW d, NEW e, NEW id \in Segments(d), Taken(d, e, {id}, {}), LogTyped(d),
         LogNumbered(d), AllManifested(d), NEW k \in Segments(d), id < k,
         NEW s \in Seq(Write), NEW m \in Seq(Write), Tracks(d, s, m),
         LastSeq(d.man[id]) <= Len(s)
  PROVE  Tracks(e, s, m)
<1>1. /\ Segments(e) = Segments(d) \ {id} /\ DOMAIN e.man = DOMAIN d.man
      /\ \A j \in DOMAIN d.man : e.man[j] = d.man[j]
  BY DEF Taken
<1>2. /\ id \in SegmentId /\ k \in SegmentId
      /\ ManifestNumbered(d.man[id], id) /\ ManifestNumbered(d.man[k], k)
  BY DEF LogTyped, LogNumbered, ManifestsNumbered, AllManifested
<1>3. \A r : Has(e, r) => Has(d, r)
  BY <1>1 DEF Has
<1>4. Len(s) \in Nat /\ Len(m) \in Nat
  OBVIOUS
<1>5. PICK w, v : w = d.man[id] /\ v = d.man[k]
  OBVIOUS
<1>6. /\ LastSeq(w) = Start(id) + Len(w) - 1 /\ Len(w) \in 1..MaxSegment /\ Start(id) \in Nat
      /\ Start(k) \in Nat /\ v[1].seq = Start(k) /\ Len(v) \in 1..MaxSegment
  BY <1>2, <1>5, EndsOf DEF FirstSeq
<1>7. Start(k) \in 1..Len(m)
  <2>1. Has(d, v[1])
    BY <1>5, <1>6 DEF Has, AllManifested
  <2> QED  BY <2>1, <1>6 DEF Tracks
<1>8. ASSUME NEW r, Has(d, r), r.seq > Len(s) \/ r.seq = Len(m)
      PROVE  Has(e, r)
  <2>1. PICK j, i : j \in Segments(d) \cap DOMAIN d.man /\ i \in 1..Len(d.man[j]) /\ r = d.man[j][i]
    BY <1>8 DEF Has
  <2>2. j # id
    <3>1. SUFFICES ASSUME j = id  PROVE FALSE
      OBVIOUS
    <3>2. i \in 1..Len(w) /\ r = w[i]
      BY <2>1, <3>1, <1>5
    <3>3. r.seq = Start(id) + i - 1
      BY <3>2, <1>2, <1>5 DEF ManifestNumbered
    <3>4. r.seq <= LastSeq(w) /\ LastSeq(w) <= Len(s)
      BY <3>2, <3>3, <1>5, <1>6, SegmentAssumption
    <3>5. r.seq < Start(k)
      <4>1. Start(id) + MaxSegment <= Start(k)
        BY <1>2, StartIs
      <4> QED  BY <4>1, <3>2, <3>3, <1>6, SegmentAssumption
    <3> QED  BY <3>2, <3>3, <3>4, <3>5, <1>4, <1>6, <1>7, <1>8
  <2> QED  BY <2>1, <2>2, <1>1 DEF Has
<1>9. /\ Len(s) <= Len(m) /\ \A i \in 1..Len(s) : s[i] = m[i]
      /\ \A r : Has(e, r) => r.seq \in 1..Len(m) /\ r.ev = m[r.seq]
  BY <1>3 DEF Tracks
<1>10. ASSUME NEW n \in 1..Len(m), n > Len(s) \/ n = Len(m)
       PROVE  \E r : Has(e, r) /\ r.seq = n
  <2>1. PICK r : Has(d, r) /\ r.seq = n
    BY <1>10 DEF Tracks
  <2> QED  BY <2>1, <1>8, <1>10
<1> QED  BY <1>9, <1>10 DEF Tracks

-----------------------------------------------------------------------------
(* While no append failed and nothing was quarantined, the log and the     *)
(* snapshot hold the events of the storage.                                *)

OldManifest == IF target \in DOMAIN live.man THEN live.man[target] ELSE <<>>

\* Only the segment of an append under way is ahead of its manifest, by one.
Agreed ==
  /\ pc # "down" => \A id \in Segments(live) :
       SegmentAgrees(live, id) \/ (id = target /\ pc \in {"newline", "manifest"})
  /\ pc \in {"newline", "manifest"} =>
       RecordsRead(live.wal[target]) = Append(OldManifest, current)

Tracked ==
  /\ pc \notin {"down", "done"} => Tracks(live, snapshot, mem)
  /\ pc = "done" => Tracks(live, snapshot, Append(mem, current.ev))
  /\ pc = "down" => \E m \in Seq(Write) : Tracks(live, snapshot, m)

Exact ==
  /\ Agreed /\ Tracked
  /\ pc \in Appending => current.seq = Len(mem) + 1
  /\ pc \in Archiving => \A id \in todo : LastSeq(live.man[id]) <= Len(snapshot)

LEMMA ExactInit ==
  ASSUME Init
  PROVE  Exact
<1>1. /\ live = EmptyDir /\ pc = "idle" /\ snapshot = <<>> /\ mem = <<>>
  BY DEF Init
<1>2. Segments(live) = {}
  BY <1>1 DEF EmptyDir, NoFiles, Segments
<1>3. Agreed
  BY <1>1, <1>2 DEF Agreed
<1>4. Tracks(live, snapshot, mem)
  <2>1. \A r : ~Has(live, r)
    BY <1>2 DEF Has
  <2>2. Len(snapshot) = 0 /\ Len(mem) = 0
    BY <1>1
  <2> QED  BY <2>1, <2>2 DEF Tracks
<1> QED  BY <1>1, <1>3, <1>4 DEF Exact, Tracked, Appending, Archiving

\* The last line of a segment that agrees with its manifest was ended.
LEMMA AgreedEnds ==
  ASSUME TypeOK, Settled, NEW id \in Segments(live), SegmentAgrees(live, id)
  PROVE  live.wal[id].tail = <<>> /\ id \in DOMAIN live.man /\ RecordsRead(live.wal[id]) = live.man[id]
<1>1. id \in DOMAIN live.man /\ RecordsRead(live.wal[id]) = live.man[id]
  BY DEF SegmentAgrees
<1>2. PICK f, m : f = live.wal[id] /\ m = live.man[id]
  OBVIOUS
<1>3. f \in FileOver(Record)
  BY <1>2 DEF TypeOK, LogTyped, FilesTyped
<1>4. Len(m) <= Len(f.lines)
  BY <1>1, <1>2 DEF Settled, LogSettled, ManifestFirst
<1>5. /\ Len(LinesRead(f)) = IF f.tail = <<>> THEN Len(f.lines) ELSE Len(f.lines) + 1
      /\ Len(f.lines) \in Nat
  BY <1>3, LinesReadAre
<1>6. Len(m) = Len(LinesRead(f))
  <2>1. PICK n \in Nat : n = Len(LinesRead(f))
    BY <1>3, LinesReadAre
  <2>2. PICK g : g = LinesRead(f)
    OBVIOUS
  <2>3. m = [i \in 1..n |-> g[i][1]]
    BY <1>1, <1>2, <2>1, <2>2 DEF RecordsRead
  <2>4. Len(m) = n
    BY <2>3
  <2> QED  BY <2>1, <2>4
<1>7. f.tail = <<>>
  BY <1>4, <1>5, <1>6
<1> QED  BY <1>1, <1>2, <1>7

\* What a reader finds after a record is written at the end of whole lines.
LEMMA TokenRead ==
  ASSUME NEW R, NEW f \in FileOver(R), f.tail = <<>>, NEW c \in Token(R)
  PROVE  RecordsRead(WriteToken(f, c)) = Append(RecordsRead(f), c)
<1>1. PICK g, l, n : g = WriteToken(f, c) /\ l = f.lines /\ n = Len(f.lines)
  OBVIOUS
<1>2. g.lines = l /\ g.tail = <<c>> /\ g.tail # <<>>
  BY <1>1, TokenWritten
<1>3. PICK A, t : A = Line(R) /\ t = <<c>>
  OBVIOUS
<1>4. l \in Seq(A) /\ n \in Nat /\ t \in A
  <2>1. <<c>> \in Seq(Token(R)) /\ <<c>> # <<>>
    OBVIOUS
  <2>2. l \in Seq(A)
    BY <1>1, <1>3, FileParts
  <2> QED  BY <2>1, <2>2, <1>1, <1>3 DEF Line
<1>5. PICK k : k = Append(l, t)
  OBVIOUS
<1>6. LinesRead(g) = k /\ LinesRead(f) = l
  BY <1>1, <1>2, <1>3, <1>5 DEF LinesRead
<1>7. /\ k \in Seq(A) /\ Len(k) = n + 1 /\ k[n + 1] = t
      /\ \A i \in 1..n : k[i] = l[i]
  BY <1>1, <1>4, <1>5, Appended
<1>8. PICK p, q : p = RecordsRead(f) /\ q = RecordsRead(g)
  OBVIOUS
<1>9. p = [i \in 1..n |-> l[i][1]] /\ q = [i \in 1..(n + 1) |-> k[i][1]]
  BY <1>1, <1>6, <1>7, <1>8 DEF RecordsRead
<1>10. q[n + 1] = c /\ \A i \in 1..n : q[i] = p[i]
  BY <1>3, <1>4, <1>7, <1>9
<1>11. PICK T : T = {l[i][1] : i \in 1..n} \cup {c}
  OBVIOUS
<1>12. p \in Seq(T) /\ Len(p) = n /\ c \in T
  <2>1. p \in [1..n -> T]
    BY <1>9, <1>11
  <2> QED  BY <2>1, <1>4, <1>11
<1>13. PICK b : b = Append(p, c)
  OBVIOUS
<1>14. Len(b) = n + 1 /\ b \in Seq(T) /\ b[n + 1] = c /\ \A i \in 1..n : b[i] = p[i]
  BY <1>12, <1>13, Appended
<1>15. b = [i \in 1..(n + 1) |-> b[i]]
  BY <1>4, <1>14
<1>16. q = [i \in 1..(n + 1) |-> q[i]]
  BY <1>9
<1>17. \A i \in 1..(n + 1) : b[i] = q[i]
  BY <1>4, <1>10, <1>14
<1>18. b = q
  BY <1>15, <1>16, <1>17
<1> QED  BY <1>1, <1>8, <1>13, <1>18

\* Ending the last line changes nothing for a reader.
LEMMA EndedRead ==
  ASSUME NEW R, NEW f \in FileOver(R), f.tail # <<>>
  PROVE  RecordsRead(EndLine(f)) = RecordsRead(f)
<1>1. LinesRead(EndLine(f)) = LinesRead(f)
  BY LineEnded DEF LinesRead
<1> QED  BY <1>1 DEF RecordsRead

LEMMA EmptyRead == RecordsRead(EmptyFile) = <<>>
<1>1. LinesRead(EmptyFile) = <<>>
  BY EmptyFileIs DEF LinesRead
<1>2. Len(LinesRead(EmptyFile)) = 0
  BY <1>1
<1> QED  BY <1>1, <1>2 DEF RecordsRead

\* The other segments stay as they agree when one file is written.
LEMMA WroteAgrees ==
  ASSUME NEW d, NEW e, NEW id, NEW f, Wrote(d, e, id, f), NEW k \in Segments(d), k # id,
         SegmentAgrees(d, k)
  PROVE  SegmentAgrees(e, k)
<1>1. e.man = d.man /\ e.wal[k] = d.wal[k]
  BY DEF Wrote
<1> QED  BY <1>1, AgreesAlike

LEMMA RecordExact ==
  ASSUME TypeOK, Numbering, Settled, Exact, WriteRecord
  PROVE  Exact'
<1>1. /\ pc = "record" /\ pc' = "newline"
      /\ UNCHANGED <<target, current, snapshot, mem>>
  BY DEF WriteRecord
<1>2. PICK g, f : g = FileAt(target) /\ f = WriteToken(g, current)
  OBVIOUS
<1>3. Wrote(live, live', target, f)
  BY <1>2, Steps DEF TypeOK, LogTyped
<1>4. g \in FileOver(Record) /\ current \in Record /\ current \in Token(Record)
  BY <1>1, <1>2, FileAtNumbered DEF Appending, TypeOK, AppendTyped, Token
<1>5. target \in DOMAIN live.man => target \in Segments(live)
  BY <1>1 DEF Settled, TargetOpen
<1>6. g.tail = <<>> /\ RecordsRead(g) = OldManifest
  <2>1. CASE target \in Segments(live)
    <3>1. SegmentAgrees(live, target) /\ g = live.wal[target]
      BY <1>1, <1>2, <2>1 DEF Exact, Agreed, FileAt
    <3> QED  BY <2>1, <3>1, AgreedEnds DEF OldManifest
  <2>2. CASE target \notin Segments(live)
    BY <1>2, <1>5, <2>2, EmptyFileIs, EmptyRead DEF FileAt, OldManifest
  <2> QED  BY <2>1, <2>2
<1>7. RecordsRead(f) = Append(OldManifest, current)
  BY <1>2, <1>4, <1>6, TokenRead
<1>8. OldManifest' = OldManifest /\ live'.wal[target] = f
  BY <1>1, <1>3 DEF Wrote, OldManifest
<1>9. ASSUME NEW id \in Segments(live'), id # target  PROVE SegmentAgrees(live', id)
  <2>1. id \in Segments(live) /\ SegmentAgrees(live, id)
    BY <1>1, <1>3, <1>9 DEF Wrote, Exact, Agreed
  <2> QED  BY <2>1, <1>3, <1>9, WroteAgrees
<1>10. Agreed'
  BY <1>1, <1>7, <1>8, <1>9 DEF Agreed
<1>11. \A r : Has(live', r) <=> Has(live, r)
  BY <1>3, <1>5, WroteHas
<1>12. Tracks(live', snapshot, mem)
  BY <1>1, <1>11, TracksAlike DEF Exact, Tracked
<1>13. Tracked'
  BY <1>1, <1>12 DEF Tracked
<1> QED  BY <1>1, <1>10, <1>13 DEF Exact, Appending, Archiving

LEMMA NewlineExact ==
  ASSUME TypeOK, Numbering, Settled, Exact, WriteNewline
  PROVE  Exact'
<1>1. /\ pc = "newline" /\ pc' = "manifest"
      /\ UNCHANGED <<target, current, snapshot, mem>>
  BY DEF WriteNewline
<1>2. PICK g, f : g = FileAt(target) /\ f = EndLine(g)
  OBVIOUS
<1>3. Wrote(live, live', target, f)
  BY <1>2, Steps DEF TypeOK, LogTyped
<1>4. g \in FileOver(Record) /\ g = live.wal[target] /\ g.tail # <<>> /\ target \in Segments(live)
  BY <1>1, <1>2, FileAtNumbered, NewlineTyped DEF Appending
<1>5. RecordsRead(f) = Append(OldManifest, current)
  BY <1>1, <1>2, <1>4, EndedRead DEF Exact, Agreed
<1>6. OldManifest' = OldManifest /\ live'.wal[target] = f
  BY <1>1, <1>3 DEF Wrote, OldManifest
<1>7. ASSUME NEW id \in Segments(live'), id # target  PROVE SegmentAgrees(live', id)
  <2>1. id \in Segments(live) /\ SegmentAgrees(live, id)
    BY <1>1, <1>3, <1>7 DEF Wrote, Exact, Agreed
  <2> QED  BY <2>1, <1>3, <1>7, WroteAgrees
<1>8. Agreed'
  BY <1>1, <1>5, <1>6, <1>7 DEF Agreed
<1>9. \A r : Has(live', r) <=> Has(live, r)
  BY <1>3, <1>4, WroteHas
<1>10. Tracks(live', snapshot, mem)
  BY <1>1, <1>9, TracksAlike DEF Exact, Tracked
<1>11. Tracked'
  BY <1>1, <1>10 DEF Tracked
<1> QED  BY <1>1, <1>8, <1>11 DEF Exact, Appending, Archiving

LEMMA ManifestExact ==
  ASSUME TypeOK, Numbering, Settled, Exact, RewriteManifest, pc' = "done"
  PROVE  Exact'
<1>1. /\ pc = "manifest" /\ UNCHANGED <<target, current, snapshot, mem>>
      /\ target \in Segments(live)
      /\ Listed(live, live', target, RecordsRead(live.wal[target]))
  BY ManifestRewritten DEF RewriteManifest
<1>2. RecordsRead(live.wal[target]) = Append(OldManifest, current)
  BY <1>1 DEF Exact, Agreed
<1>3. OldManifest \in Seq(Record) /\ current \in Record
  <2>1. target \in DOMAIN live.man => live.man[target] \in Seq(Record)
    BY DEF TypeOK, LogTyped, ManifestsTyped
  <2>2. <<>> \in Seq(Record)
    OBVIOUS
  <2> QED  BY <2>1, <2>2, <1>1 DEF OldManifest, TypeOK, AppendTyped, Appending
<1>4. SegmentAgrees(live', target)
  BY ManifestSettled
<1>5. ASSUME NEW id \in Segments(live'), id # target  PROVE SegmentAgrees(live', id)
  <2>1. id \in Segments(live) /\ SegmentAgrees(live, id)
    BY <1>1, <1>5 DEF Listed, Segments, Exact, Agreed
  <2>2. /\ id \in DOMAIN live'.man <=> id \in DOMAIN live.man
        /\ id \in DOMAIN live.man => live'.man[id] = live.man[id]
        /\ live'.wal[id] = live.wal[id]
    BY <1>1, <1>5 DEF Listed
  <2> QED  BY <2>1, <2>2, AgreesAlike
<1>6. Agreed'
  BY <1>4, <1>5 DEF Agreed
<1>7. PICK m : m = OldManifest
  OBVIOUS
<1>8. \A r : Has(live', r) <=> Has(live, r) \/ r = current
  <2>1. /\ target \in DOMAIN live.man => m = live.man[target]
        /\ target \notin DOMAIN live.man => m = <<>>
    BY <1>7 DEF OldManifest
  <2>2. PICK n : n = Append(m, current)
    OBVIOUS
  <2>3. Listed(live, live', target, n) /\ m \in Seq(Record)
    BY <1>1, <1>2, <1>3, <1>7, <2>2
  <2> QED  BY <1>1, <1>3, <2>1, <2>2, <2>3, ListedHas
<1>9. Tracks(live, snapshot, mem) /\ current.seq = Len(mem) + 1
  BY <1>1 DEF Exact, Tracked, Appending
<1>10. snapshot \in Seq(Write) /\ mem \in Seq(Write)
  BY DEF Numbering
<1>11. Tracks(live', snapshot, Append(mem, current.ev))
  BY <1>3, <1>8, <1>9, <1>10, TracksMore
<1>12. Tracked'
  BY <1>1, <1>11 DEF Tracked
<1> QED  BY <1>1, <1>6, <1>9, <1>12 DEF Exact, Archiving

LEMMA BeginAppendExact ==
  ASSUME TypeOK, Numbering, Exact, NEW w \in Write, BeginAppend(w)
  PROVE  Exact'
<1>1. /\ pc = "idle" /\ pc' = "record" /\ AllManifested(live)
      /\ current'.seq = LastSequence(live) + 1
      /\ UNCHANGED <<live, snapshot, mem>>
  BY DEF BeginAppend, dirVars
<1>2. /\ LogTyped(live) /\ LogNumbered(live) /\ Tracks(live, snapshot, mem)
      /\ snapshot \in Seq(Write) /\ mem \in Seq(Write)
  BY <1>1 DEF TypeOK, Numbering, Exact, Tracked
<1>3. LastSequence(live) = Len(mem)
  BY <1>1, <1>2, LastIsLength
<1>4. Agreed' /\ Tracked'
  BY <1>1, <1>2 DEF Agreed, Tracked, Exact
<1> QED  BY <1>1, <1>3, <1>4 DEF Exact, Archiving

LEMMA AcknowledgeExact ==
  ASSUME Exact, Acknowledge
  PROVE  Exact'
<1>1. /\ pc = "done" /\ pc' = "idle" /\ mem' = Append(mem, current.ev)
      /\ UNCHANGED <<live, snapshot>>
  BY DEF Acknowledge, dirVars
<1>2. Agreed' /\ Tracked'
  BY <1>1 DEF Agreed, Tracked, Exact
<1> QED  BY <1>1, <1>2 DEF Exact, Appending, Archiving

LEMMA TakeSnapshotExact ==
  ASSUME Numbering, Exact, TakeSnapshot
  PROVE  Exact'
<1>1. /\ pc = "idle" /\ snapshot' = mem /\ UNCHANGED <<live, pc, target, current, todo, mem>>
  BY DEF TakeSnapshot, dirVars, jobVars
<1>2. Len(mem) \in Nat
  BY DEF Numbering
<1>3. Tracks(live, snapshot, mem)
  BY <1>1 DEF Exact, Tracked
<1>4. Len(snapshot) <= Len(mem) /\ Len(snapshot) \in Nat
  BY <1>3 DEF Tracks, Numbering
<1>5. Tracks(live, mem, mem)
  BY <1>2, <1>3, <1>4 DEF Tracks
<1>6. Agreed' /\ Tracked'
  BY <1>1, <1>5 DEF Agreed, Tracked, Exact
<1> QED  BY <1>1, <1>6 DEF Exact, Appending, Archiving

LEMMA BeginArchiveExact ==
  ASSUME TypeOK, Numbering, Exact, BeginArchive
  PROVE  Exact'
<1>1. /\ pc = "idle" /\ pc' = "archive_wal" /\ UNCHANGED <<live, snapshot, mem>>
      /\ AllManifested(live)
  BY DEF BeginArchive, dirVars
<1>2. PICK upTo \in 1..Len(snapshot) :
        todo' = {id \in Segments(live) : LastSeq(live.man[id]) <= upTo}
  BY DEF BeginArchive
<1>3. ASSUME NEW id \in todo'  PROVE LastSeq(live.man[id]) <= Len(snapshot)
  <2>1. id \in Segments(live) /\ LastSeq(live.man[id]) <= upTo
    BY <1>2
  <2>2. PICK m : m = live.man[id]
    OBVIOUS
  <2>3. id \in SegmentId /\ ManifestNumbered(m, id)
    BY <2>1, <2>2, <1>1
       DEF TypeOK, LogTyped, Numbering, LogNumbered, ManifestsNumbered, AllManifested
  <2>4. LastSeq(m) \in Int
    BY <2>3, EndsOf
  <2>5. Len(snapshot) \in Nat /\ upTo <= Len(snapshot) /\ upTo \in Nat
    BY <1>2 DEF Numbering
  <2> QED  BY <2>1, <2>2, <2>4, <2>5
<1>4. Agreed' /\ Tracked'
  BY <1>1 DEF Agreed, Tracked, Exact
<1> QED  BY <1>1, <1>3, <1>4 DEF Exact, Appending

LEMMA ArchiveWalExact ==
  ASSUME TypeOK, Numbering, Settled, Exact, ArchiveWal
  PROVE  Exact'
<1>1. PICK id : id = MinOf(todo)
  OBVIOUS
<1>2. /\ id \in todo /\ id \in Segments(live) /\ Taken(live, live', {id}, {})
  BY <1>1, ArchiveWalTyped, Steps DEF TypeOK, LogTyped
<1>3. /\ pc = "archive_wal" /\ pc' = "archive_manifest" /\ UNCHANGED <<todo, snapshot, mem>>
  BY DEF ArchiveWal
<1>4. PICK next \in Segments(live) : id < next
  BY <1>2, <1>3 DEF Numbering, TodoFirst, Archiving
<1>5. /\ LogTyped(live) /\ LogNumbered(live) /\ AllManifested(live)
      /\ Tracks(live, snapshot, mem) /\ LastSeq(live.man[id]) <= Len(snapshot)
      /\ snapshot \in Seq(Write) /\ mem \in Seq(Write)
  BY <1>2, <1>3 DEF TypeOK, Numbering, TodoFirst, Exact, Tracked, Archiving
<1>6. Tracks(live', snapshot, mem)
  BY <1>2, <1>4, <1>5, TracksTaken
<1>7. ASSUME NEW k \in Segments(live')  PROVE SegmentAgrees(live', k)
  <2>1. k \in Segments(live) /\ SegmentAgrees(live, k)
    BY <1>2, <1>3 DEF Taken, Exact, Agreed
  <2>2. /\ k \in DOMAIN live'.man <=> k \in DOMAIN live.man
        /\ k \in DOMAIN live.man => live'.man[k] = live.man[k]
        /\ live'.wal[k] = live.wal[k]
    BY <1>2 DEF Taken
  <2> QED  BY <2>1, <2>2, AgreesAlike
<1>8. Agreed' /\ Tracked'
  BY <1>3, <1>6, <1>7 DEF Agreed, Tracked
<1>9. ASSUME NEW k \in todo  PROVE LastSeq(live'.man[k]) <= Len(snapshot)
  <2>1. k \in DOMAIN live.man /\ LastSeq(live.man[k]) <= Len(snapshot)
    BY <1>3 DEF TypeOK, ArchiveTyped, Archiving, Exact
  <2> QED  BY <2>1, <1>2 DEF Taken
<1> QED  BY <1>3, <1>8, <1>9 DEF Exact, Appending

LEMMA ArchiveManifestExact ==
  ASSUME TypeOK, Numbering, Settled, Exact, ArchiveManifest
  PROVE  Exact'
<1>1. PICK id : id = MinOf(todo)
  OBVIOUS
<1>2. Taken(live, live', {}, {id}) /\ id \notin Segments(live)
  BY <1>1, ArchiveManifestNumbered, Steps DEF TypeOK, LogTyped
<1>3. /\ pc = "archive_manifest" /\ pc' \in {"idle", "archive_wal"}
      /\ todo' = todo \ {id} /\ UNCHANGED <<snapshot, mem>>
  BY <1>1 DEF ArchiveManifest
<1>4. /\ Segments(live') = Segments(live) /\ DOMAIN live'.man = DOMAIN live.man \ {id}
      /\ \A k \in DOMAIN live.man \ {id} : live'.man[k] = live.man[k]
      /\ \A k \in Segments(live) : live'.wal[k] = live.wal[k]
  BY <1>2 DEF Taken
<1>5. \A r : Has(live', r) <=> Has(live, r)
  <2>1. Segments(live') \cap DOMAIN live'.man = Segments(live) \cap DOMAIN live.man
    BY <1>2, <1>4
  <2>2. \A k \in Segments(live) \cap DOMAIN live.man : live'.man[k] = live.man[k]
    BY <1>2, <1>4
  <2> QED  BY <2>1, <2>2 DEF Has
<1>6. Tracks(live', snapshot, mem)
  BY <1>3, <1>5, TracksAlike DEF Exact, Tracked
<1>7. ASSUME NEW k \in Segments(live')  PROVE SegmentAgrees(live', k)
  <2>1. k \in Segments(live) /\ k # id /\ SegmentAgrees(live, k)
    BY <1>2, <1>3, <1>4 DEF Exact, Agreed
  <2> QED  BY <2>1, <1>4, AgreesAlike
<1>8. Agreed' /\ Tracked'
  BY <1>3, <1>6, <1>7 DEF Agreed, Tracked
<1>9. ASSUME NEW k \in todo'  PROVE LastSeq(live'.man[k]) <= Len(snapshot)
  <2>1. k \in DOMAIN live.man /\ k # id /\ LastSeq(live.man[k]) <= Len(snapshot)
    BY <1>3 DEF TypeOK, ArchiveTyped, Archiving, Exact
  <2> QED  BY <2>1, <1>4
<1> QED  BY <1>3, <1>8, <1>9 DEF Exact, Appending

LEMMA CrashExact ==
  ASSUME TypeOK, Numbering, Settled, Exact, Crash
  PROVE  Exact'
<1>1. /\ pc # "down" /\ pc' = "down" /\ live' \in Interrupted /\ snapshot' = snapshot
  BY DEF Crash
<1>2. \A r : Has(live', r) <=> Has(live, r)
  <2>1. CASE live' = live
    BY <2>1
  <2>2. CASE live' # live
    <3>1. pc = "record" /\ \E f \in FileOver(Record) : Wrote(live, live', target, f)
      BY <1>1, <2>2, InterruptedExtends
    <3>2. target \in DOMAIN live.man => target \in Segments(live)
      BY <3>1 DEF Settled, TargetOpen
    <3> QED  BY <3>1, <3>2, WroteHas
  <2> QED  BY <2>1, <2>2
<1>3. mem \in Seq(Write) /\ (pc = "done" => Append(mem, current.ev) \in Seq(Write))
  <2>1. pc = "done" => current.ev \in Write
    BY DEF TypeOK, AppendTyped, Appending, Record
  <2> QED  BY <2>1, Appended DEF Numbering
<1>4. \E m \in Seq(Write) : Tracks(live, snapshot, m)
  BY <1>1, <1>3 DEF Exact, Tracked
<1>5. \E m \in Seq(Write) : Tracks(live', snapshot, m)
  BY <1>2, <1>4, TracksAlike
<1>6. Agreed' /\ Tracked'
  BY <1>1, <1>5 DEF Agreed, Tracked
<1> QED  BY <1>1, <1>6 DEF Exact, Appending, Archiving

LEMMA OpenExact ==
  ASSUME TypeOK, Numbering, Exact, Open
  PROVE  Exact'
<1>1. /\ pc = "down" /\ pc' = "idle" /\ ReadOk(live) /\ mem' = Restored
      /\ UNCHANGED <<live, snapshot>>
  BY DEF Open, dirVars
<1>2. \A id \in Segments(live) : SegmentAgrees(live, id)
  BY <1>1 DEF ReadOk
<1>3. PICK m \in Seq(Write) : Tracks(live, snapshot, m)
  BY <1>1 DEF Exact, Tracked
<1>4. LogTyped(live) /\ LogNumbered(live) /\ AllManifested(live) /\ snapshot \in Seq(Write)
  BY <1>2, AgreedReads DEF TypeOK, Numbering
<1>5. Restored = m
  BY <1>3, <1>4, RestoredIs
<1>6. Agreed' /\ Tracked'
  BY <1>1, <1>2, <1>3, <1>5 DEF Agreed, Tracked
<1> QED  BY <1>1, <1>6 DEF Exact, Appending, Archiving

ExactInv == ~failed /\ moved = 0 => Exact

LEMMA ExactNext ==
  ASSUME KeepNewest, LogInv, ExactInv, [Next]_vars
  PROVE  ExactInv'
<1> SUFFICES ASSUME ~failed', moved' = 0  PROVE Exact'
  BY DEF ExactInv
<1>1. TypeOK
  BY DEF LogInv
<1>2. ~(Recover \/ RecoveryCrashes)
  <2>1. ASSUME Recover \/ RecoveryCrashes  PROVE FALSE
    <3>1. PICK W, M : W \in SUBSET Corrupt /\ W # {} /\ Quarantine(W, M)
      BY <1>1, <2>1, RecoveryIs
    <3>2. W \in SUBSET Segments(live)
      BY <3>1 DEF Corrupt
    <3>3. moved' >= moved + 1
      BY <1>1, <3>1, <3>2, QuarantineTyped
    <3> QED  BY <1>1, <3>3 DEF TypeOK
  <2> QED  BY <2>1
<1>3. ~AppendFails /\ (RewriteManifest => pc' = "done")
  BY DEF AppendFails, RewriteManifest
<1>4. failed' = failed
  <2>1. RewriteManifest => failed' = failed
    BY Zenon DEF RewriteManifest
  <2> QED
    BY <1>2, <1>3, <2>1, Zenon
       DEF Next, BeginAppend, WriteRecord, WriteNewline, Acknowledge, TakeSnapshot,
           BeginArchive, ArchiveWal, ArchiveManifest, Crash, Open, vars, ghosts
<1>5. ~failed
  BY <1>4
<1>6. moved = 0
  <2>1. moved' = moved
    BY <1>2
       DEF Next, BeginAppend, WriteRecord, WriteNewline, RewriteManifest, Acknowledge,
           AppendFails, TakeSnapshot, BeginArchive, ArchiveWal, ArchiveManifest, Crash,
           Open, vars, ghosts
  <2> QED  BY <2>1
<1>7. TypeOK /\ Numbering /\ Settled /\ Exact
  BY <1>1, <1>5, <1>6 DEF LogInv, ExactInv
<1>8. CASE \E w \in Write : BeginAppend(w)
  BY <1>7, <1>8, BeginAppendExact
<1>9. CASE WriteRecord \/ WriteNewline \/ RewriteManifest
  BY <1>3, <1>7, <1>9, RecordExact, NewlineExact, ManifestExact
<1>10. CASE Acknowledge \/ TakeSnapshot \/ Crash \/ Open
  BY <1>7, <1>10, AcknowledgeExact, TakeSnapshotExact, CrashExact, OpenExact
<1>11. CASE BeginArchive \/ ArchiveWal \/ ArchiveManifest
  BY <1>7, <1>11, BeginArchiveExact, ArchiveWalExact, ArchiveManifestExact
<1>12. CASE UNCHANGED vars
  <2>1. UNCHANGED <<live, pc, current, target, todo, snapshot, mem>>
    BY <1>12 DEF vars, dirVars, jobVars
  <2>2. Agreed' /\ Tracked'
    BY <1>7, <2>1 DEF Exact, Agreed, Tracked, OldManifest
  <2> QED  BY <1>7, <2>1, <2>2 DEF Exact
<1> QED  BY <1>2, <1>3, <1>8, <1>9, <1>10, <1>11, <1>12 DEF Next

(***************************************************************************)
(* A snapshot and the tail of the log give back what a full replay would:  *)
(* between two operations a restore yields exactly the events of the       *)
(* storage, whatever was snapshotted and archived and whenever the process *)
(* crashed, as long as no append failed halfway and nothing was moved to   *)
(* quarantine.                                                             *)
(***************************************************************************)
THEOREM RestoreGivesAll ==
  ASSUME KeepNewest
  PROVE  Spec => []RestoreIsExact
<1>1. Init => ExactInv
  BY ExactInit DEF ExactInv
<1>2. LogInv /\ ExactInv /\ [Next]_vars => ExactInv'
  BY ExactNext
<1>3. ASSUME LogInv, ExactInv  PROVE RestoreIsExact
  <2>1. SUFFICES ASSUME pc \in {"idle", "archive_wal", "archive_manifest"}, ~failed, moved = 0
                 PROVE  ReadOk(live) /\ Restored = mem
    BY DEF RestoreIsExact
  <2>2. TypeOK /\ Numbering /\ Exact
    BY <1>3, <2>1 DEF LogInv, ExactInv
  <2>3. \A id \in Segments(live) : SegmentAgrees(live, id)
    BY <2>1, <2>2 DEF Exact, Agreed
  <2>4. Tracks(live, snapshot, mem) /\ snapshot \in Seq(Write) /\ mem \in Seq(Write)
    BY <2>1, <2>2 DEF Exact, Tracked, Numbering
  <2>5. LogTyped(live) /\ LogNumbered(live)
    BY <2>2 DEF TypeOK, Numbering
  <2>6. AllManifested(live) /\ ReadOk(live)
    BY <2>3, <2>5, AgreedReads
  <2> QED  BY <2>4, <2>5, <2>6, RestoredIs
<1>4. LogInv /\ ExactInv => RestoreIsExact
  BY <1>3
<1> QED  BY <1>1, <1>2, <1>4, LogIsSafe, PTL DEF Spec
=============================================================================
