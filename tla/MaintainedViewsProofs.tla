------------------------ MODULE MaintainedViewsProofs ------------------------
(***************************************************************************)
(* What holds of the kernel and its maintained views for every set of      *)
(* atoms, claims and conflicts and every number of events: their types,    *)
(* the order of the belief revisions, that past beliefs are kept, that the *)
(* views agree with the kernel, that the traversal of the dependency graph *)
(* finds all there is, that summaries go stale and that deltas name what   *)
(* changed.                                                                *)
(***************************************************************************)
EXTENDS MaintainedViews, TLAPS, FiniteSetTheorems, WellFoundedInduction

-----------------------------------------------------------------------------
(***************************************************************************)
(* Lists of revisions.                                                     *)
(***************************************************************************)
InOrder(recs) == \A i, j \in DOMAIN recs : i <= j => recs[i].at <= recs[j].at

(* A set of natural numbers that is not empty has a least element.         *)
LEMMA LeastExists ==
  ASSUME NEW T \in SUBSET Nat, T # {}
  PROVE  \E x \in T : \A y \in T : x <= y
  <1>1. PICK x \in T : \A y \in T : ~ (<<y, x>> \in OpToRel(<, Nat))
    BY NatLessThanWellFounded, WFMin
  <1>2. \A y \in T : ~ (y < x)
    BY <1>1 DEF OpToRel
  <1> QED BY <1>2

(* Each record of a list of revisions is one, at a natural time.           *)
LEMMA RevisionAt ==
  ASSUME NEW recs \in Seq(Revision), NEW i \in DOMAIN recs
  PROVE  recs[i] \in Revision /\ recs[i].at \in Nat /\ i \in Nat /\ i >= 1
  <1>1. recs[i] \in Revision /\ i \in Nat /\ i >= 1
    OBVIOUS
  <1> QED BY <1>1 DEF Revision

(* Sorting revisions that are in order already leaves them alone.          *)
LEMMA SortedAlready ==
  ASSUME NEW recs \in Seq(Revision), InOrder(recs)
  PROVE  SortedByTime(recs) = recs
  <1> DEFINE Before(i) == {j \in DOMAIN recs :
                             \/ recs[j].at < recs[i].at
                             \/ recs[j].at = recs[i].at /\ j <= i}
  <1>1. ASSUME NEW i \in DOMAIN recs  PROVE Cardinality(Before(i)) = i
    <2>1. \A j \in DOMAIN recs : recs[j].at \in Nat /\ j \in Nat /\ j >= 1
      BY RevisionAt
    <2>2. DOMAIN recs = 1..Len(recs) /\ Len(recs) \in Nat
      OBVIOUS
    <2>3. Before(i) = 1..i
      BY <2>1, <2>2 DEF InOrder
    <2> HIDE DEF Before
    <2> QED BY <2>1, <2>3, FS_Interval
  <1> HIDE DEF Before
  <1>2. ASSUME NEW r \in DOMAIN recs
        PROVE  (CHOOSE i \in DOMAIN recs : Cardinality(Before(i)) = r) = r
    BY <1>1
  <1>3. SortedByTime(recs) =
          [r \in DOMAIN recs |->
             recs[CHOOSE i \in DOMAIN recs : Cardinality(Before(i)) = r]]
    BY DEF SortedByTime, Before
  <1>4. recs = [r \in DOMAIN recs |-> recs[r]]
    OBVIOUS
  <1> QED BY <1>2, <1>3, <1>4

(* A later revision put behind revisions in order keeps them in order.     *)
LEMMA AppendInOrder ==
  ASSUME NEW recs \in Seq(Revision), InOrder(recs), NEW rec \in Revision,
         \A i \in DOMAIN recs : recs[i].at <= rec.at
  PROVE  /\ Append(recs, rec) \in Seq(Revision)
         /\ InOrder(Append(recs, rec))
         /\ SortedByTime(Append(recs, rec)) = Append(recs, rec)
         /\ \A i \in DOMAIN Append(recs, rec) :
              Append(recs, rec)[i] = rec \/ (i \in DOMAIN recs /\ Append(recs, rec)[i] = recs[i])
  <1> DEFINE longer == Append(recs, rec)
  <1>1. longer \in Seq(Revision)
    OBVIOUS
  <1>2. /\ DOMAIN longer = 1..(Len(recs) + 1)
        /\ longer[Len(recs) + 1] = rec
        /\ \A i \in 1..Len(recs) : longer[i] = recs[i]
        /\ DOMAIN recs = 1..Len(recs)
        /\ Len(recs) \in Nat
    OBVIOUS
  <1>3. \A i \in DOMAIN longer : longer[i].at \in Nat
    BY <1>1, RevisionAt
  <1> HIDE DEF longer
  <1>4. ASSUME NEW i \in DOMAIN longer, NEW j \in DOMAIN longer, i <= j
        PROVE  longer[i].at <= longer[j].at
    <2>1. CASE j = Len(recs) + 1
      <3>1. CASE i = Len(recs) + 1  BY <2>1, <3>1, <1>2, <1>3
      <3>2. CASE i # Len(recs) + 1
        <4>1. i \in DOMAIN recs  BY <3>2, <1>2
        <4> QED BY <4>1, <2>1, <1>2
      <3> QED BY <3>1, <3>2
    <2>2. CASE j # Len(recs) + 1
      <3>1. i \in DOMAIN recs /\ j \in DOMAIN recs  BY <2>2, <1>2, <1>4
      <3> QED BY <3>1, <1>2, <1>4 DEF InOrder
    <2> QED BY <2>1, <2>2
  <1>5. InOrder(longer)  BY <1>4 DEF InOrder
  <1>6. SortedByTime(longer) = longer  BY <1>1, <1>5, SortedAlready
  <1> QED BY <1>1, <1>2, <1>5, <1>6 DEF longer

-----------------------------------------------------------------------------
(***************************************************************************)
(* The kernel's own invariant: its types, and that the revisions of every  *)
(* atom are in order and not later than the last event.                    *)
(***************************************************************************)
RevisionsInOrder ==
  \A a \in AtomId :
    /\ InOrder(revisions[a])
    /\ \A i \in DOMAIN revisions[a] : revisions[a][i].at <= now

KernelInv ==
  /\ KernelTypeOK
  /\ now \in Nat
  /\ RevisionsInOrder

(* A revision that is stamped no earlier than the last event fits behind   *)
(* the revisions of its atom, and sorting them changes nothing.            *)
LEMMA StampedRevision ==
  ASSUME KernelInv, NEW a \in DOMAIN atoms, NEW next \in BeliefState,
         NEW time \in Nat, now <= time
  PROVE  LET longer == Append(revisions[a], Revise(time, atoms[a].belief, next)) IN
         /\ longer \in Seq(Revision)
         /\ InOrder(longer)
         /\ SortedByTime(longer) = longer
         /\ \A i \in DOMAIN longer : longer[i].at <= time
  <1> DEFINE rec == Revise(time, atoms[a].belief, next)
             longer == Append(revisions[a], rec)
  <1>1. a \in AtomId /\ atoms[a].belief \in BeliefState
    BY DEF KernelInv, KernelTypeOK, Atom
  <1>2. rec \in Revision /\ rec.at = time
    BY <1>1 DEF Revise, Revision
  <1>3. /\ revisions[a] \in Seq(Revision)
        /\ InOrder(revisions[a])
        /\ \A i \in DOMAIN revisions[a] :
             revisions[a][i].at \in Nat /\ revisions[a][i].at <= now
    BY <1>1, RevisionAt DEF KernelInv, KernelTypeOK, RevisionsInOrder
  <1>4. \A i \in DOMAIN revisions[a] : revisions[a][i].at <= rec.at
    BY <1>2, <1>3 DEF KernelInv
  <1> HIDE DEF rec
  <1>5. /\ longer \in Seq(Revision)
        /\ InOrder(longer)
        /\ SortedByTime(longer) = longer
        /\ \A i \in DOMAIN longer :
             longer[i] = rec \/ (i \in DOMAIN revisions[a] /\ longer[i] = revisions[a][i])
    BY <1>2, <1>3, <1>4, AppendInOrder
  <1>6. \A i \in DOMAIN longer : longer[i].at <= time
    BY <1>2, <1>4, <1>5
  <1> QED BY <1>5, <1>6 DEF rec

(* Inserting an atom keeps the kernel's invariant.                         *)
LEMMA InsertKeeps ==
  ASSUME KernelInv, NEW atom \in Claims, NEW time \in Nat, now <= time,
         now' = time, InsertAtom(atom, time)
  PROVE  KernelInv'
  <1>1. atom \in Atom /\ atom.id \in AtomId /\ atom.id \notin atom.contradicts
    BY KernelAssumption DEF Atom
  <1>2. /\ DOMAIN atoms' = DOMAIN atoms \cup {atom.id}
        /\ atoms'[atom.id] = atom
        /\ \A a \in DOMAIN atoms : a # atom.id =>
             atoms'[a] = IF a \in atom.supersedes
                         THEN [atoms[a] EXCEPT !.belief = "Superseded"] ELSE atoms[a]
        /\ atoms' \in [DOMAIN atoms' -> {atoms'[a] : a \in DOMAIN atoms'}]
    BY DEF InsertAtom, Put
  <1>3. ASSUME NEW a \in DOMAIN atoms'
        PROVE  atoms'[a] \in Atom /\ atoms'[a].id = a /\ a \notin atoms'[a].contradicts
    <2>1. CASE a = atom.id  BY <2>1, <1>1, <1>2
    <2>2. CASE a # atom.id
      <3>1. a \in DOMAIN atoms /\ atoms[a] \in Atom /\ atoms[a].id = a
            /\ a \notin atoms[a].contradicts
        BY <2>2, <1>2 DEF KernelInv, KernelTypeOK
      <3> QED BY <3>1, <2>2, <1>2 DEF Atom, BeliefState
    <2> QED BY <2>1, <2>2
  <1>4. DOMAIN atoms' \subseteq AtomId /\ atoms' \in [DOMAIN atoms' -> Atom]
    BY <1>1, <1>2, <1>3 DEF KernelInv, KernelTypeOK
  <1>5. ASSUME NEW a \in AtomId
        PROVE  /\ revisions'[a] \in Seq(Revision)
               /\ InOrder(revisions'[a])
               /\ \A i \in DOMAIN revisions'[a] : revisions'[a][i].at <= now'
    <2>1. CASE a \in atom.supersedes \cap DOMAIN atoms
      <3>1. revisions'[a] = Append(revisions[a],
                                   Revise(time, atoms[a].belief, "Superseded"))
        BY <2>1 DEF InsertAtom
      <3>2. "Superseded" \in BeliefState  BY DEF BeliefState
      <3> QED BY <2>1, <3>1, <3>2, StampedRevision
    <2>2. CASE a \notin atom.supersedes \cap DOMAIN atoms
      <3>1. revisions'[a] = revisions[a]  BY <2>2 DEF InsertAtom
      <3>2. \A i \in DOMAIN revisions[a] : revisions[a][i].at \in Nat
        BY RevisionAt DEF KernelInv, KernelTypeOK
      <3> QED BY <3>1, <3>2 DEF KernelInv, KernelTypeOK, RevisionsInOrder
    <2> QED BY <2>1, <2>2
  <1>6. revisions' \in [AtomId -> Seq(Revision)]
    BY <1>5 DEF InsertAtom
  <1>7. edges' \subseteq AtomId \X AtomId
    BY <1>1 DEF InsertAtom, KernelInv, KernelTypeOK, Atom
  <1> QED BY <1>3, <1>4, <1>5, <1>6, <1>7
      DEF KernelInv, KernelTypeOK, RevisionsInOrder, InsertAtom

(* Revising a belief keeps the kernel's invariant.                         *)
LEMMA ReviseKeeps ==
  ASSUME KernelInv, NEW b \in AtomId, NEW next \in Revised, NEW time \in Nat,
         now <= time, now' = time, ReviseBelief(b, next, time)
  PROVE  KernelInv'
  <1>1. b \in DOMAIN atoms /\ next \in BeliefState
    BY KernelAssumption DEF ReviseBelief
  <1>2. /\ DOMAIN atoms' = DOMAIN atoms
        /\ atoms' = [atoms EXCEPT ![b].belief = next]
    BY DEF ReviseBelief
  <1>3. ASSUME NEW a \in DOMAIN atoms
        PROVE  atoms'[a] \in Atom /\ atoms'[a].id = a /\ a \notin atoms'[a].contradicts
    <2>1. atoms[a] \in Atom /\ atoms[a].id = a /\ a \notin atoms[a].contradicts
      BY DEF KernelInv, KernelTypeOK
    <2>2. atoms'[a] = IF a = b THEN [atoms[a] EXCEPT !.belief = next] ELSE atoms[a]
      BY <1>1, <1>2
    <2> QED BY <1>1, <2>1, <2>2 DEF Atom
  <1>4. atoms' \in [DOMAIN atoms' -> Atom]
    BY <1>2, <1>3
  <1>5. ASSUME NEW a \in AtomId
        PROVE  /\ revisions'[a] \in Seq(Revision)
               /\ InOrder(revisions'[a])
               /\ \A i \in DOMAIN revisions'[a] : revisions'[a][i].at <= now'
    <2>1. CASE a = b
      <3>1. revisions'[a] = SortedByTime(
              Append(revisions[a], Revise(time, atoms[a].belief, next)))
        BY <2>1 DEF ReviseBelief, KernelInv, KernelTypeOK
      <3> QED BY <2>1, <1>1, <3>1, StampedRevision
    <2>2. CASE a # b
      <3>1. revisions'[a] = revisions[a]
        BY <2>2 DEF ReviseBelief, KernelInv, KernelTypeOK
      <3>2. \A i \in DOMAIN revisions[a] : revisions[a][i].at \in Nat
        BY RevisionAt DEF KernelInv, KernelTypeOK
      <3> QED BY <3>1, <3>2 DEF KernelInv, KernelTypeOK, RevisionsInOrder
    <2> QED BY <2>1, <2>2
  <1>6. revisions' \in [AtomId -> Seq(Revision)]
    <2>1. DOMAIN revisions' = AtomId /\ revisions' = [x \in AtomId |-> revisions'[x]]
      BY DEF ReviseBelief, KernelInv, KernelTypeOK
    <2> QED BY <1>5, <2>1
  <1> QED BY <1>2, <1>3, <1>4, <1>5, <1>6
      DEF KernelInv, KernelTypeOK, RevisionsInOrder, ReviseBelief

(* Adding a conflict keeps the kernel's invariant.                         *)
LEMMA ConflictKeeps ==
  ASSUME KernelInv, NEW conflict \in Conflicts, AddConflict(conflict), now' = now
  PROVE  KernelInv'
  <1>1. conflict \subseteq AtomId  BY KernelAssumption
  <1>2. /\ DOMAIN atoms' = DOMAIN atoms
        /\ \A a \in DOMAIN atoms :
             atoms'[a] = IF a \in conflict THEN Contested(atoms[a], conflict)
                         ELSE atoms[a]
    BY DEF AddConflict
  <1>3. ASSUME NEW a \in DOMAIN atoms
        PROVE  atoms'[a] \in Atom /\ atoms'[a].id = a /\ a \notin atoms'[a].contradicts
    <2>1. atoms[a] \in Atom /\ atoms[a].id = a /\ a \notin atoms[a].contradicts
      BY DEF KernelInv, KernelTypeOK
    <2>2. Contested(atoms[a], conflict) \in Atom
      BY <1>1, <2>1 DEF Contested, Atom, BeliefState
    <2>3. /\ Contested(atoms[a], conflict).id = a
          /\ a \notin Contested(atoms[a], conflict).contradicts
      BY <2>1 DEF Contested, Atom
    <2> QED BY <1>2, <2>1, <2>2, <2>3
  <1>4. atoms' \in [DOMAIN atoms' -> Atom]
    BY <1>3 DEF AddConflict
  <1>5. edges' \subseteq AtomId \X AtomId /\ conflicts' \subseteq SUBSET AtomId
    BY <1>1 DEF AddConflict, KernelInv, KernelTypeOK
  <1> QED BY <1>2, <1>3, <1>4, <1>5
      DEF KernelInv, KernelTypeOK, RevisionsInOrder, AddConflict

(* The kernel's invariant holds at first and is kept by every event.       *)
LEMMA KernelInvInductive ==
  /\ ViewsInit => KernelInv
  /\ KernelInv /\ [ViewsNext]_vars => KernelInv'
  <1>1. ViewsInit => KernelInv
    BY DEF ViewsInit, KernelInit, KernelInv, KernelTypeOK, RevisionsInOrder, InOrder
  <1>2. ASSUME KernelInv, [ViewsNext]_vars  PROVE KernelInv'
    <2>1. ASSUME NEW atom \in Claims, NEW time \in 1..MaxTime,
                 AtomInserted(atom, time)
          PROVE  KernelInv'
      BY <1>2, <2>1, InsertKeeps, ViewAssumption DEF AtomInserted, Stamp
    <2>2. ASSUME NEW a \in AtomId, NEW next \in Revised, NEW time \in 1..MaxTime,
                 BeliefRevised(a, next, time)
          PROVE  KernelInv'
      BY <1>2, <2>2, ReviseKeeps, ViewAssumption DEF BeliefRevised, Stamp
    <2>3. ASSUME NEW conflict \in Conflicts, ConflictAdded(conflict)
          PROVE  KernelInv'
      BY <1>2, <2>3, ConflictKeeps DEF ConflictAdded
    <2>4. ASSUME NEW link \in Links, DependencyAdded(link[1], link[2])
          PROVE  KernelInv'
      BY <1>2, <2>4, ViewAssumption
      DEF DependencyAdded, AddDependency, KernelInv, KernelTypeOK, RevisionsInOrder
    <2>5. ASSUME NEW link \in Causes, CausalAtomInserted(link[1], link[2])
          PROVE  KernelInv'
      BY <1>2, <2>5, ViewAssumption
      DEF CausalAtomInserted, InsertCause, KernelInv, KernelTypeOK, RevisionsInOrder
    <2>6. ASSUME NEW source \in SourceId, NEW score \in Trust,
                 SourceTrustUpdated(source, score)
          PROVE  KernelInv'
      BY <1>2, <2>6
      DEF SourceTrustUpdated, kernelVars, KernelInv, KernelTypeOK, RevisionsInOrder
    <2>7. CASE UNCHANGED vars
      BY <1>2, <2>7 DEF vars, kernelVars, KernelInv, KernelTypeOK, RevisionsInOrder
    <2> QED BY <1>2, <2>1, <2>2, <2>3, <2>4, <2>5, <2>6, <2>7 DEF ViewsNext
  <1> QED BY <1>1, <1>2

-----------------------------------------------------------------------------
(***************************************************************************)
(* Past beliefs.                                                           *)
(***************************************************************************)
\* belief_at over any list of revisions and any current belief.
BeliefIn(recs, current, time) ==
  LET later == {i \in DOMAIN recs : time < recs[i].at}
  IN IF later = {} THEN current
     ELSE recs[CHOOSE i \in later : \A j \in later : i <= j].previous

(* A revision later than the time asked about, which records the current   *)
(* belief as the previous one, changes no answer for that time.            *)
LEMMA LaterRevision ==
  ASSUME NEW recs \in Seq(Revision), NEW current, NEW after, NEW rec,
         rec.at \in Nat, rec.previous = current, NEW time \in Nat, time < rec.at
  PROVE  BeliefIn(Append(recs, rec), after, time) = BeliefIn(recs, current, time)
  <1> DEFINE longer == Append(recs, rec)
             later == {i \in DOMAIN recs : time < recs[i].at}
             laterNow == {i \in DOMAIN longer : time < longer[i].at}
             last == Len(recs) + 1
  <1>1. /\ DOMAIN recs = 1..Len(recs)
        /\ Len(recs) \in Nat
        /\ DOMAIN longer = DOMAIN recs \cup {last}
        /\ longer[last] = rec
        /\ \A i \in DOMAIN recs : longer[i] = recs[i]
    OBVIOUS
  <1> HIDE DEF longer
  <1>2. laterNow = later \cup {last}
    BY <1>1
  <1>3. CASE later = {}
    <2>1. laterNow = {last} /\ last \in Nat
      BY <1>1, <1>2, <1>3
    <2>2. (CHOOSE i \in laterNow : \A j \in laterNow : i <= j) = last
      BY <2>1
    <2>3. laterNow # {}  BY <2>1
    <2>4. BeliefIn(longer, after, time) = longer[last].previous
      BY <2>2, <2>3 DEF BeliefIn
    <2>5. BeliefIn(recs, current, time) = current
      BY <1>3 DEF BeliefIn
    <2> QED BY <1>1, <2>4, <2>5 DEF longer
  <1>4. CASE later # {}
    <2>1. later \subseteq Nat  BY <1>1
    <2>2. PICK least \in later : \A j \in later : least <= j
      BY <1>4, <2>1, LeastExists
    <2>3. least \in laterNow /\ \A j \in laterNow : least <= j
      BY <1>1, <1>2, <2>2
    <2>4. laterNow \subseteq Nat  BY <1>1, <1>2, <2>1
    <2>5. (CHOOSE i \in later : \A j \in later : i <= j) = least
      BY <2>1, <2>2
    <2>6. (CHOOSE i \in laterNow : \A j \in laterNow : i <= j) = least
      BY <2>3, <2>4
    <2>7. laterNow # {}  BY <2>3
    <2>8. BeliefIn(recs, current, time) = recs[least].previous
      BY <1>4, <2>5 DEF BeliefIn
    <2>9. BeliefIn(longer, after, time) = longer[least].previous
      BY <2>6, <2>7 DEF BeliefIn
    <2> QED BY <1>1, <2>2, <2>8, <2>9 DEF longer
  <1> QED BY <1>3, <1>4

(* PastBeliefKept: later events do not change what was believed earlier,   *)
(* but for disputes and atoms inserted again.                              *)
THEOREM PastBeliefsStay == ViewsSpec => PastBeliefKept
  <1> DEFINE Kept(a, t) == \/ BeliefAt(a, t)' = BeliefAt(a, t)
                           \/ BeliefAt(a, t) = "Accepted" /\ BeliefAt(a, t)' = "Disputed"
                           \/ Replaced(a)
             AllKept == \A a \in DOMAIN atoms, t \in 0..(now - 1) : Kept(a, t)
  <1>1. KernelInv /\ [ViewsNext]_vars => [AllKept]_vars
    <2> SUFFICES ASSUME KernelInv, ViewsNext, NEW a \in DOMAIN atoms,
                        NEW t \in 0..(now - 1)
                 PROVE  Kept(a, t)
      OBVIOUS
    <2>1. /\ BeliefAt(a, t) = BeliefIn(revisions[a], atoms[a].belief, t)
          /\ BeliefAt(a, t)' = BeliefIn(revisions'[a], atoms'[a].belief, t)
      BY DEF BeliefAt, BeliefIn
    <2>2. a \in AtomId /\ revisions[a] \in Seq(Revision) /\ t \in Nat /\ t < now
          /\ now \in Nat
      BY DEF KernelInv, KernelTypeOK
    <2>3. ASSUME NEW atom \in Claims, NEW time \in 1..MaxTime,
                 AtomInserted(atom, time)
          PROVE  Kept(a, t)
      <3>1. InsertAtom(atom, time) /\ time \in Nat /\ t < time
        BY <2>2, <2>3, ViewAssumption DEF AtomInserted, Stamp
      <3>2. CASE atom.id = a
        BY <3>1, <3>2 DEF Replaced
      <3>3. CASE atom.id # a /\ a \in atom.supersedes
        <4> DEFINE rec == Revise(time, atoms[a].belief, "Superseded")
        <4>1. revisions'[a] = Append(revisions[a], rec)
          BY <2>2, <3>1, <3>3 DEF InsertAtom
        <4>2. rec.at = time /\ rec.previous = atoms[a].belief
          BY DEF Revise
        <4> HIDE DEF rec
        <4> QED BY <2>1, <2>2, <3>1, <4>1, <4>2, LaterRevision
      <3>4. CASE atom.id # a /\ a \notin atom.supersedes
        <4>1. revisions'[a] = revisions[a] /\ atoms'[a] = atoms[a]
          BY <2>2, <3>1, <3>4 DEF InsertAtom, Put
        <4> QED BY <2>1, <4>1
      <3> QED BY <3>2, <3>3, <3>4
    <2>4. ASSUME NEW b \in AtomId, NEW next \in Revised, NEW time \in 1..MaxTime,
                 BeliefRevised(b, next, time)
          PROVE  Kept(a, t)
      <3>1. ReviseBelief(b, next, time) /\ time \in Nat /\ t < time /\ now <= time
        BY <2>2, <2>4, ViewAssumption DEF BeliefRevised, Stamp
      <3>2. CASE a = b
        <4> DEFINE rec == Revise(time, atoms[a].belief, next)
        <4>1. revisions'[a] = SortedByTime(Append(revisions[a], rec))
          BY <3>1, <3>2 DEF ReviseBelief, KernelInv, KernelTypeOK
        <4>2. SortedByTime(Append(revisions[a], rec)) = Append(revisions[a], rec)
          BY <3>1, StampedRevision, KernelAssumption
        <4>3. rec.at = time /\ rec.previous = atoms[a].belief
          BY DEF Revise
        <4> HIDE DEF rec
        <4> QED BY <2>1, <2>2, <3>1, <4>1, <4>2, <4>3, LaterRevision
      <3>3. CASE a # b
        <4>1. revisions'[a] = revisions[a] /\ atoms'[a] = atoms[a]
          BY <2>2, <3>1, <3>3 DEF ReviseBelief, KernelInv, KernelTypeOK
        <4> QED BY <2>1, <4>1
      <3> QED BY <3>2, <3>3
    <2>5. ASSUME NEW conflict \in Conflicts, ConflictAdded(conflict)
          PROVE  Kept(a, t)
      <3>1. AddConflict(conflict) /\ revisions' = revisions
        BY <2>5 DEF ConflictAdded, AddConflict
      <3>2. \/ atoms'[a].belief = atoms[a].belief
            \/ atoms[a].belief = "Accepted" /\ atoms'[a].belief = "Disputed"
        <4>1. atoms[a] \in Atom  BY DEF KernelInv, KernelTypeOK
        <4>2. atoms'[a] = IF a \in conflict THEN Contested(atoms[a], conflict)
                          ELSE atoms[a]
          BY <3>1 DEF AddConflict
        <4> QED BY <4>1, <4>2 DEF Contested, Atom
      <3> QED BY <2>1, <3>1, <3>2 DEF BeliefIn
    <2>6. ASSUME atoms' = atoms, revisions' = revisions
          PROVE  Kept(a, t)
      BY <2>1, <2>6
    <2> QED BY <2>3, <2>4, <2>5, <2>6
        DEF ViewsNext, DependencyAdded, AddDependency, CausalAtomInserted,
            InsertCause, SourceTrustUpdated, kernelVars
  <1> QED BY <1>1, KernelInvInductive, PTL DEF ViewsSpec, PastBeliefKept

-----------------------------------------------------------------------------
(***************************************************************************)
(* The views.                                                              *)
(***************************************************************************)
Field == {"found", "beliefs", "disputes", "trust", "summaries", "dependents"}

(* Indexing an atom keeps the views well formed and enters the atom.       *)
LEMMA IndexAtomViews ==
  ASSUME NEW v, IsViews(v), NEW atom \in Atom
  PROVE  LET w == IndexAtom(v, atom) IN
         /\ IsViews(w)
         /\ w.versions = v.versions
         /\ w.disputes = v.disputes
         /\ w.beliefs = Put(v.beliefs, atom.id, atom.belief)
         /\ v.found \subseteq w.found
         /\ ({atom.subject} \cup atom.sources \cup ({atom.agent} \ {NoAgent}))
              \X {atom.id} \subseteq w.found
         /\ DOMAIN w.trust = DOMAIN v.trust \cup atom.sources
         /\ v.dependents \subseteq w.dependents
         /\ atom.summary => /\ atom.deps \X {atom.id} \subseteq w.dependents
                            /\ w.summaries = Put(v.summaries, atom.id,
                                 [deps |-> atom.deps, stale |-> FALSE])
         /\ ~atom.summary => w.summaries = v.summaries
  <1> DEFINE keys == {atom.subject} \cup atom.sources \cup ({atom.agent} \ {NoAgent})
             rated == DOMAIN v.trust
             trust == [s \in rated \cup atom.sources |->
                         IF s \in rated THEN v.trust[s] ELSE FullTrust]
             beliefs == Put(v.beliefs, atom.id, atom.belief)
             status == [deps |-> atom.deps, stale |-> FALSE]
             indexed == [v EXCEPT !.found = @ \cup (keys \X {atom.id}),
                                  !.beliefs = beliefs, !.trust = trust]
             full == [indexed EXCEPT !.dependents = @ \cup (atom.deps \X {atom.id}),
                                     !.summaries = Put(@, atom.id, status)]
  <1>1. /\ keys \X {atom.id} \subseteq (Entity \cup SourceId \cup Agent) \X AtomId
        /\ atom.deps \X {atom.id} \subseteq AtomId \X AtomId
        /\ atom.belief \in BeliefState
        /\ status \in [deps : SUBSET AtomId, stale : BOOLEAN]
    BY DEF Atom
  <1>2. trust \in [DOMAIN trust -> Trust] /\ DOMAIN trust = rated \cup atom.sources
    BY ViewAssumption DEF IsViews
  <1>3. beliefs \in [DOMAIN beliefs -> BeliefState]
    BY <1>1 DEF IsViews, Put
  <1>4. Put(v.summaries, atom.id, status)
          \in [DOMAIN Put(v.summaries, atom.id, status) ->
                 [deps : SUBSET AtomId, stale : BOOLEAN]]
    BY <1>1 DEF IsViews, Put
  <1>5. IndexAtom(v, atom) = IF ~atom.summary THEN indexed ELSE full
    BY DEF IndexAtom
  <1> HIDE DEF keys, trust, beliefs, status
  <1>6. /\ IsViews(indexed)
        /\ indexed.versions = v.versions /\ indexed.disputes = v.disputes
        /\ indexed.beliefs = beliefs /\ indexed.trust = trust
        /\ indexed.found = v.found \cup (keys \X {atom.id})
        /\ indexed.dependents = v.dependents /\ indexed.summaries = v.summaries
    BY <1>1, <1>2, <1>3 DEF IsViews
  <1>7. /\ IsViews(full)
        /\ full.versions = indexed.versions /\ full.disputes = indexed.disputes
        /\ full.beliefs = indexed.beliefs /\ full.trust = indexed.trust
        /\ full.found = indexed.found
        /\ full.dependents = indexed.dependents \cup (atom.deps \X {atom.id})
        /\ full.summaries = Put(indexed.summaries, atom.id, status)
    <2> HIDE DEF indexed
    <2>1. Put(indexed.summaries, atom.id, status)
            \in [DOMAIN Put(indexed.summaries, atom.id, status) ->
                   [deps : SUBSET AtomId, stale : BOOLEAN]]
      BY <1>4, <1>6
    <2> QED BY <1>1, <1>6, <2>1 DEF IsViews
  <1> HIDE DEF indexed, full
  <1> QED BY <1>2, <1>5, <1>6, <1>7, atom.summary \in BOOLEAN DEF keys, beliefs, status, Atom

(* Marking summaries stale changes nothing but the marks.                  *)
LEMMA MarkStaleViews ==
  ASSUME NEW v, IsViews(v), NEW roots
  PROVE  LET w == MarkSummariesStale(v, roots) IN
         /\ IsViews(w)
         /\ w.versions = v.versions
         /\ w.found = v.found /\ w.beliefs = v.beliefs /\ w.disputes = v.disputes
         /\ w.trust = v.trust /\ w.dependents = v.dependents
         /\ DOMAIN w.summaries = DOMAIN v.summaries
         /\ \A s \in DOMAIN v.summaries : w.summaries[s].deps = v.summaries[s].deps
  <1> DEFINE Marked(s) == IF s \in StaleBy(v, roots)
                          THEN [v.summaries[s] EXCEPT !.stale = TRUE]
                          ELSE v.summaries[s]
             marks == [s \in DOMAIN v.summaries |-> Marked(s)]
  <1>1. ASSUME NEW s \in DOMAIN v.summaries
        PROVE  /\ Marked(s) \in [deps : SUBSET AtomId, stale : BOOLEAN]
               /\ Marked(s).deps = v.summaries[s].deps
    <2>1. v.summaries[s] \in [deps : SUBSET AtomId, stale : BOOLEAN]
      BY DEF IsViews
    <2> QED BY <2>1
  <1>2. /\ marks \in [DOMAIN marks -> [deps : SUBSET AtomId, stale : BOOLEAN]]
        /\ DOMAIN marks = DOMAIN v.summaries
        /\ \A s \in DOMAIN v.summaries : marks[s].deps = v.summaries[s].deps
    BY <1>1
  <1>3. MarkSummariesStale(v, roots) = [v EXCEPT !.summaries = marks]
    BY DEF MarkSummariesStale
  <1> HIDE DEF marks
  <1> QED BY <1>2, <1>3 DEF IsViews

(* Copying beliefs from the kernel sets exactly the beliefs copied.        *)
LEMMA RefreshBeliefsViews ==
  ASSUME NEW v, IsViews(v), NEW ids, KernelTypeOK'
  PROVE  LET w == RefreshBeliefs(v, ids)
             known == ids \cap DOMAIN atoms' IN
         /\ IsViews(w)
         /\ w.versions = v.versions
         /\ w.found = v.found /\ w.disputes = v.disputes /\ w.trust = v.trust
         /\ w.dependents = v.dependents /\ w.summaries = v.summaries
         /\ DOMAIN w.beliefs = DOMAIN v.beliefs \cup known
         /\ \A a \in DOMAIN w.beliefs :
              w.beliefs[a] = IF a \in known THEN atoms'[a].belief ELSE v.beliefs[a]
  <1> DEFINE known == ids \cap DOMAIN atoms'
             beliefs == [a \in DOMAIN v.beliefs \cup known |->
                           IF a \in known THEN atoms'[a].belief ELSE v.beliefs[a]]
  <1>1. \A a \in DOMAIN atoms' : atoms'[a].belief \in BeliefState
    BY DEF KernelTypeOK, Atom
  <1>2. beliefs \in [DOMAIN beliefs -> BeliefState]
    BY <1>1 DEF IsViews
  <1>3. RefreshBeliefs(v, ids) = [v EXCEPT !.beliefs = beliefs]
    BY DEF RefreshBeliefs
  <1> HIDE DEF beliefs
  <1>4. LET w == RefreshBeliefs(v, ids) IN
         /\ IsViews(w)
         /\ w.versions = v.versions
         /\ w.found = v.found /\ w.disputes = v.disputes /\ w.trust = v.trust
         /\ w.dependents = v.dependents /\ w.summaries = v.summaries
         /\ w.beliefs = beliefs
    BY <1>2, <1>3 DEF IsViews
  <1> QED BY <1>4 DEF beliefs

(* Publishing changes the versions only, to the number of the event.       *)
LEMMA PublishViews ==
  ASSUME NEW v, IsViews(v), NEW d, Publish(v, d), sequence \in Nat,
         \A n \in ViewName : v.versions[n] <= sequence
  PROVE  /\ IsViews(views')
         /\ sequence' \in Nat
         /\ \A n \in ViewName : views'.versions[n] <= sequence'
         /\ \A f \in Field : views'[f] = v[f]
         /\ delta' = d
  <1> DEFINE versions == [n \in ViewName |-> IF n \in d.views THEN sequence'
                                             ELSE v.versions[n]]
  <1>1. sequence' = sequence + 1 /\ sequence' \in Nat /\ delta' = d
    BY DEF Publish
  <1>2. v.versions \in [ViewName -> Nat]  BY DEF IsViews
  <1>3. /\ versions \in [ViewName -> Nat]
        /\ \A n \in ViewName : versions[n] <= sequence'
    BY <1>1, <1>2
  <1>4. views' = [v EXCEPT !.versions = versions]  BY DEF Publish
  <1> HIDE DEF versions
  <1> QED BY <1>1, <1>3, <1>4 DEF IsViews, Field

(* What each event publishes: well-formed views that differ from the ones  *)
(* before it only as its own update says.                                  *)
LEMMA AtomViews ==
  ASSUME KernelInv, KernelInv', ViewsTypeOK, NEW atom \in Claims,
         NEW time \in 1..MaxTime, AtomInserted(atom, time)
  PROVE  /\ ViewsTypeOK'
         /\ ViewsMatchKernel => ViewsMatchKernel'
  <1> DEFINE indexed == IndexAtom(views, atom)
             replaced == RefreshBeliefs(indexed, atom.supersedes)
             marked == MarkSummariesStale(replaced, atom.supersedes)
             known == atom.supersedes \cap DOMAIN atoms'
  <1>1. atom \in Atom /\ atom.id \in AtomId /\ atom.supersedes \subseteq AtomId
        /\ atom.summary \in BOOLEAN
    BY KernelAssumption DEF Atom
  <1>2. IsViews(views) /\ KernelTypeOK' /\ sequence \in Nat
        /\ \A n \in ViewName : views.versions[n] <= sequence
    BY DEF ViewsTypeOK, KernelInv
  <1>3. /\ IsViews(indexed)
        /\ indexed.versions = views.versions
        /\ indexed.disputes = views.disputes
        /\ indexed.beliefs = Put(views.beliefs, atom.id, atom.belief)
        /\ views.found \subseteq indexed.found
        /\ ({atom.subject} \cup atom.sources \cup ({atom.agent} \ {NoAgent}))
             \X {atom.id} \subseteq indexed.found
        /\ DOMAIN indexed.trust = DOMAIN views.trust \cup atom.sources
        /\ views.dependents \subseteq indexed.dependents
        /\ atom.summary => /\ atom.deps \X {atom.id} \subseteq indexed.dependents
                           /\ indexed.summaries = Put(views.summaries, atom.id,
                                [deps |-> atom.deps, stale |-> FALSE])
        /\ ~atom.summary => indexed.summaries = views.summaries
    BY <1>1, <1>2, IndexAtomViews
  <1> HIDE DEF indexed
  <1>4. /\ IsViews(replaced)
        /\ replaced.versions = indexed.versions
        /\ replaced.found = indexed.found /\ replaced.disputes = indexed.disputes
        /\ replaced.trust = indexed.trust /\ replaced.dependents = indexed.dependents
        /\ replaced.summaries = indexed.summaries
        /\ DOMAIN replaced.beliefs = DOMAIN indexed.beliefs \cup known
        /\ \A a \in DOMAIN replaced.beliefs :
             replaced.beliefs[a] = IF a \in known THEN atoms'[a].belief
                                   ELSE indexed.beliefs[a]
    BY <1>2, <1>3, RefreshBeliefsViews
  <1> HIDE DEF replaced
  <1>5. /\ IsViews(marked)
        /\ marked.versions = replaced.versions
        /\ marked.found = replaced.found /\ marked.disputes = replaced.disputes
        /\ marked.trust = replaced.trust /\ marked.dependents = replaced.dependents
        /\ marked.beliefs = replaced.beliefs
        /\ DOMAIN marked.summaries = DOMAIN replaced.summaries
        /\ \A s \in DOMAIN replaced.summaries :
             marked.summaries[s].deps = replaced.summaries[s].deps
    BY <1>4, MarkStaleViews
  <1>6. marked.versions = views.versions
    BY <1>3, <1>4, <1>5
  <1>7. PICK d : /\ Publish(marked, d)
                 /\ d = [NoDelta EXCEPT
                      !.kind = "AtomInserted",
                      !.atoms = {atom.id} \cup atom.supersedes,
                      !.stale = StaleBy(indexed, atom.supersedes),
                      !.views = {"Graph", "Beliefs"}
                         \cup (IF atom.sources # {} THEN {"SourceTrust"} ELSE {})
                         \cup (IF atom.agent # NoAgent THEN {"AgentMemory"} ELSE {})
                         \cup SummariesIf(atom.summary
                                \/ StaleBy(indexed, atom.supersedes) # {})]
    BY DEF AtomInserted, indexed, replaced, marked
  <1> HIDE DEF marked
  <1>8. /\ IsViews(views') /\ sequence' \in Nat
        /\ \A n \in ViewName : views'.versions[n] <= sequence'
        /\ \A f \in Field : views'[f] = marked[f]
        /\ delta' = d
    BY <1>2, <1>5, <1>6, <1>7, PublishViews
  <1>9. delta'.atoms \cup delta'.stale \cup delta'.risky \subseteq AtomId
    BY <1>1, <1>7, <1>8 DEF NoDelta, StaleBy
  <1>10. ViewsTypeOK'
    BY <1>2, <1>8, <1>9 DEF ViewsTypeOK, KernelInv
  <1>11. /\ views'.found = marked.found /\ views'.beliefs = marked.beliefs
         /\ views'.disputes = marked.disputes /\ views'.trust = marked.trust
         /\ views'.summaries = marked.summaries
         /\ views'.dependents = marked.dependents
    BY <1>8 DEF Field
  <1>12. /\ DOMAIN views'.beliefs = DOMAIN views.beliefs \cup {atom.id} \cup known
         /\ \A a \in DOMAIN views'.beliefs :
              views'.beliefs[a] = IF a \in known THEN atoms'[a].belief
                                  ELSE IF a = atom.id THEN atom.belief
                                  ELSE views.beliefs[a]
         /\ views'.beliefs \in [DOMAIN views'.beliefs -> BeliefState]
    <2>1. IsViews(views')  BY <1>8
    <2>2. views'.beliefs \in [DOMAIN views'.beliefs -> BeliefState]
      BY <2>1 DEF IsViews
    <2>3. /\ DOMAIN indexed.beliefs = DOMAIN views.beliefs \cup {atom.id}
          /\ \A a \in DOMAIN indexed.beliefs :
               indexed.beliefs[a] = IF a = atom.id THEN atom.belief
                                    ELSE views.beliefs[a]
      <3>1. indexed.beliefs = Put(views.beliefs, atom.id, atom.belief)  BY <1>3
      <3> QED BY <3>1 DEF Put
    <2>4. views'.beliefs = replaced.beliefs  BY <1>5, <1>11
    <2>5. DOMAIN views'.beliefs = DOMAIN views.beliefs \cup {atom.id} \cup known
      BY <1>4, <2>3, <2>4
    <2>6. ASSUME NEW a \in DOMAIN views'.beliefs
          PROVE  views'.beliefs[a] = IF a \in known THEN atoms'[a].belief
                                     ELSE IF a = atom.id THEN atom.belief
                                     ELSE views.beliefs[a]
      <3>1. CASE a \in known  BY <3>1, <2>4, <2>6, <1>4
      <3>2. CASE a \notin known
        <4>1. a \in DOMAIN indexed.beliefs  BY <3>2, <2>3, <2>5, <2>6
        <4>2. views'.beliefs[a] = indexed.beliefs[a]  BY <3>2, <2>4, <2>6, <1>4
        <4> QED BY <3>2, <4>1, <4>2, <2>3
      <3> QED BY <3>1, <3>2
    <2> QED BY <2>2, <2>5, <2>6
  <1>13. /\ views'.disputes = views.disputes
         /\ views'.found = indexed.found
         /\ views'.trust = indexed.trust
         /\ views'.dependents = indexed.dependents
         /\ DOMAIN views'.summaries = DOMAIN indexed.summaries
         /\ \A s \in DOMAIN indexed.summaries :
              views'.summaries[s].deps = indexed.summaries[s].deps
    BY <1>3, <1>4, <1>5, <1>11
  <1>15. /\ DOMAIN atoms' = DOMAIN atoms \cup {atom.id}
         /\ atoms'[atom.id] = atom
         /\ \A a \in DOMAIN atoms : a # atom.id =>
              atoms'[a] = IF a \in atom.supersedes
                          THEN [atoms[a] EXCEPT !.belief = "Superseded"] ELSE atoms[a]
         /\ conflicts' = conflicts
    BY DEF AtomInserted, InsertAtom, Put
  <1>16. \A a \in DOMAIN atoms : atoms[a] \in Atom
    BY DEF KernelInv, KernelTypeOK
  <1>17. ASSUME ViewsMatchKernel  PROVE ViewsMatchKernel'
    <2>1. views'.beliefs = [a \in DOMAIN atoms' |-> atoms'[a].belief]
      <3>1. views.beliefs = [a \in DOMAIN atoms |-> atoms[a].belief]
        BY <1>17 DEF ViewsMatchKernel
      <3>2. DOMAIN views'.beliefs = DOMAIN atoms'
        BY <1>12, <1>15, <3>1 DEF Put
      <3>3. ASSUME NEW a \in DOMAIN atoms'
            PROVE  views'.beliefs[a] = atoms'[a].belief
        <4>1. a \in DOMAIN views'.beliefs  BY <3>2, <3>3
        <4>2. CASE a \in known  BY <4>1, <4>2, <1>12
        <4>3. CASE a = atom.id /\ a \notin known
          BY <4>1, <4>3, <1>12, <1>15
        <4>4. CASE a # atom.id /\ a \notin known
          <5>1. a \in DOMAIN atoms /\ a \notin atom.supersedes
            BY <4>4, <3>3, <1>15
          <5>2. atoms'[a] = atoms[a]  BY <4>4, <5>1, <1>15
          <5> QED BY <4>1, <4>4, <5>1, <5>2, <3>1, <1>12
        <4> QED BY <4>2, <4>3, <4>4
      <3> QED BY <1>12, <3>2, <3>3
    <2>2. views'.disputes = {p \in AtomId \X conflicts' : p[1] \in p[2]}
      BY <1>13, <1>15, <1>17 DEF ViewsMatchKernel
    <2>3. ASSUME NEW a \in DOMAIN atoms'
          PROVE  /\ ({atoms'[a].subject} \cup atoms'[a].sources
                       \cup ({atoms'[a].agent} \ {NoAgent})) \X {a} \subseteq views'.found
                 /\ atoms'[a].sources \subseteq DOMAIN views'.trust
                 /\ atoms'[a].summary =>
                      /\ a \in DOMAIN views'.summaries
                      /\ views'.summaries[a].deps = atoms'[a].deps
                      /\ atoms'[a].deps \X {a} \subseteq views'.dependents
      <3>1. CASE a = atom.id
        BY <3>1, <1>1, <1>3, <1>13, <1>15 DEF Put
      <3>2. CASE a # atom.id
        <4>1. a \in DOMAIN atoms /\ atoms[a] \in Atom
          BY <3>2, <1>15, <1>16
        <4>2. /\ atoms'[a].subject = atoms[a].subject
              /\ atoms'[a].sources = atoms[a].sources
              /\ atoms'[a].agent = atoms[a].agent
              /\ atoms'[a].summary = atoms[a].summary
              /\ atoms'[a].deps = atoms[a].deps
          BY <3>2, <4>1, <1>15 DEF Atom
        <4>3. /\ ({atoms[a].subject} \cup atoms[a].sources
                    \cup ({atoms[a].agent} \ {NoAgent})) \X {a} \subseteq views.found
              /\ atoms[a].sources \subseteq DOMAIN views.trust
              /\ atoms[a].summary =>
                   /\ a \in DOMAIN views.summaries
                   /\ views.summaries[a].deps = atoms[a].deps
                   /\ atoms[a].deps \X {a} \subseteq views.dependents
          BY <4>1, <1>17 DEF ViewsMatchKernel
        <4>4. a \in DOMAIN views.summaries =>
                 a \in DOMAIN views'.summaries
                 /\ views'.summaries[a].deps = views.summaries[a].deps
          BY <3>2, <1>1, <1>3, <1>13 DEF Put
        <4> QED BY <4>2, <4>3, <4>4, <1>3, <1>13
      <3> QED BY <3>1, <3>2
    <2> QED BY <2>1, <2>2, <2>3 DEF ViewsMatchKernel
  <1> QED BY <1>10, <1>17

(* The other events leave what the lookups are built from as it is.        *)
KeptAtoms ==
  /\ DOMAIN atoms' = DOMAIN atoms
  /\ \A a \in DOMAIN atoms :
       /\ atoms'[a].subject = atoms[a].subject
       /\ atoms'[a].sources = atoms[a].sources
       /\ atoms'[a].agent = atoms[a].agent
       /\ atoms'[a].summary = atoms[a].summary
       /\ atoms'[a].deps = atoms[a].deps

KeptLookups ==
  /\ views'.found = views.found
  /\ DOMAIN views.trust \subseteq DOMAIN views'.trust
  /\ views'.dependents = views.dependents
  /\ DOMAIN views'.summaries = DOMAIN views.summaries
  /\ \A s \in DOMAIN views.summaries : views'.summaries[s].deps = views.summaries[s].deps

LEMMA LookupsKept ==
  ASSUME KeptAtoms, KeptLookups, ViewsMatchKernel,
         views'.beliefs = [a \in DOMAIN atoms' |-> atoms'[a].belief],
         views'.disputes = {p \in AtomId \X conflicts' : p[1] \in p[2]}
  PROVE  ViewsMatchKernel'
  <1>1. ASSUME NEW a \in DOMAIN atoms'
        PROVE  /\ ({atoms'[a].subject} \cup atoms'[a].sources
                     \cup ({atoms'[a].agent} \ {NoAgent})) \X {a} \subseteq views'.found
               /\ atoms'[a].sources \subseteq DOMAIN views'.trust
               /\ atoms'[a].summary =>
                    /\ a \in DOMAIN views'.summaries
                    /\ views'.summaries[a].deps = atoms'[a].deps
                    /\ atoms'[a].deps \X {a} \subseteq views'.dependents
    <2>1. /\ ({atoms[a].subject} \cup atoms[a].sources
                \cup ({atoms[a].agent} \ {NoAgent})) \X {a} \subseteq views.found
          /\ atoms[a].sources \subseteq DOMAIN views.trust
          /\ atoms[a].summary =>
               /\ a \in DOMAIN views.summaries
               /\ views.summaries[a].deps = atoms[a].deps
               /\ atoms[a].deps \X {a} \subseteq views.dependents
      BY <1>1 DEF ViewsMatchKernel, KeptAtoms
    <2> QED BY <1>1, <2>1 DEF KeptAtoms, KeptLookups
  <1> QED BY <1>1 DEF ViewsMatchKernel

LEMMA RevisedViews ==
  ASSUME KernelInv, KernelInv', ViewsTypeOK, NEW b \in AtomId,
         NEW next \in Revised, NEW time \in 1..MaxTime, BeliefRevised(b, next, time)
  PROVE  /\ ViewsTypeOK'
         /\ ViewsMatchKernel => ViewsMatchKernel'
  <1> DEFINE beliefs == [views.beliefs EXCEPT ![b] = next]
             revised == [views EXCEPT !.beliefs = beliefs]
             marked == MarkSummariesStale(revised, Affected(b))
  <1>1. IsViews(views) /\ sequence \in Nat
        /\ \A n \in ViewName : views.versions[n] <= sequence
    BY DEF ViewsTypeOK
  <1>2. beliefs \in [DOMAIN beliefs -> BeliefState]
        /\ DOMAIN beliefs = DOMAIN views.beliefs
        /\ \A a \in DOMAIN beliefs :
             beliefs[a] = IF a = b THEN next ELSE views.beliefs[a]
    <2>1. views.beliefs \in [DOMAIN views.beliefs -> BeliefState]  BY <1>1 DEF IsViews
    <2>2. next \in BeliefState  BY KernelAssumption
    <2> QED BY <2>1, <2>2
  <1>3. PICK d : /\ Publish(marked, d)
                 /\ d.atoms = {b}
                 /\ d.stale = StaleBy(views, Affected(b))
                 /\ d.risky \subseteq DOMAIN atoms
    <2> DEFINE impacted == TransitiveDependents(b)
               risky == {p \in impacted \cap DOMAIN atoms : atoms[p].plan}
               stale == StaleBy(views, Affected(b))
               named == {"Beliefs"} \cup SummariesIf(stale # {} \/ risky # {})
               d == [NoDelta EXCEPT !.kind = "BeliefRevised", !.atoms = {b},
                                    !.impacted = impacted, !.risky = risky,
                                    !.stale = stale, !.views = named]
    <2>1. Publish(marked, d)  BY DEF BeliefRevised
    <2>2. risky \subseteq DOMAIN atoms  OBVIOUS
    <2> HIDE DEF impacted, risky, stale, named
    <2>3. d.atoms = {b} /\ d.stale = stale /\ d.risky = risky  BY DEF NoDelta
    <2> QED BY <2>1, <2>2, <2>3 DEF stale
  <1> HIDE DEF beliefs
  <1>4. /\ IsViews(revised)
        /\ revised.versions = views.versions /\ revised.beliefs = beliefs
        /\ revised.found = views.found /\ revised.disputes = views.disputes
        /\ revised.trust = views.trust /\ revised.dependents = views.dependents
        /\ revised.summaries = views.summaries
    BY <1>1, <1>2 DEF IsViews
  <1> HIDE DEF revised
  <1>5. /\ IsViews(marked)
        /\ marked.versions = revised.versions /\ marked.beliefs = revised.beliefs
        /\ marked.found = revised.found /\ marked.disputes = revised.disputes
        /\ marked.trust = revised.trust /\ marked.dependents = revised.dependents
        /\ DOMAIN marked.summaries = DOMAIN revised.summaries
        /\ \A s \in DOMAIN revised.summaries :
             marked.summaries[s].deps = revised.summaries[s].deps
    BY <1>4, MarkStaleViews
  <1> HIDE DEF marked
  <1>6. \A n \in ViewName : marked.versions[n] <= sequence
    BY <1>1, <1>4, <1>5
  <1>7. /\ IsViews(views') /\ sequence' \in Nat
        /\ \A n \in ViewName : views'.versions[n] <= sequence'
        /\ \A f \in Field : views'[f] = marked[f]
        /\ delta' = d
    BY <1>1, <1>3, <1>5, <1>6, PublishViews
  <1>8. ViewsTypeOK'
    <2>1. delta'.atoms \cup delta'.stale \cup delta'.risky \subseteq AtomId
      BY <1>3, <1>7 DEF StaleBy, KernelInv, KernelTypeOK
    <2> QED BY <1>7, <2>1 DEF ViewsTypeOK, KernelInv
  <1>9. /\ views'.beliefs = beliefs /\ views'.disputes = views.disputes
        /\ KeptLookups
    <2>1. /\ views'.found = marked.found /\ views'.beliefs = marked.beliefs
          /\ views'.disputes = marked.disputes /\ views'.trust = marked.trust
          /\ views'.summaries = marked.summaries
          /\ views'.dependents = marked.dependents
      BY <1>7 DEF Field
    <2> QED BY <2>1, <1>4, <1>5 DEF KeptLookups
  <1>10. ASSUME ViewsMatchKernel  PROVE ViewsMatchKernel'
    <2>1. /\ b \in DOMAIN atoms /\ conflicts' = conflicts
          /\ atoms' = [atoms EXCEPT ![b].belief = next]
      BY DEF BeliefRevised, ReviseBelief
    <2>2. \A a \in DOMAIN atoms : atoms[a] \in Atom
      BY DEF KernelInv, KernelTypeOK
    <2>3. /\ KeptAtoms
          /\ \A a \in DOMAIN atoms :
               atoms'[a].belief = IF a = b THEN next ELSE atoms[a].belief
      BY <2>1, <2>2 DEF KeptAtoms, Atom
    <2>4. views'.beliefs = [a \in DOMAIN atoms' |-> atoms'[a].belief]
      <3>1. views.beliefs = [a \in DOMAIN atoms |-> atoms[a].belief]
        BY <1>10 DEF ViewsMatchKernel
      <3>2. DOMAIN beliefs = DOMAIN atoms'
        BY <1>2, <2>3, <3>1 DEF KeptAtoms
      <3>3. \A a \in DOMAIN atoms' : beliefs[a] = atoms'[a].belief
        BY <1>2, <2>3, <3>1 DEF KeptAtoms
      <3> QED BY <1>2, <1>9, <3>2, <3>3
    <2>5. views'.disputes = {p \in AtomId \X conflicts' : p[1] \in p[2]}
      BY <1>9, <1>10, <2>1 DEF ViewsMatchKernel
    <2> QED BY <1>9, <1>10, <2>3, <2>4, <2>5, LookupsKept
  <1> QED BY <1>8, <1>10

LEMMA DisputedViews ==
  ASSUME KernelInv, KernelInv', ViewsTypeOK, NEW conflict \in Conflicts,
         ConflictAdded(conflict)
  PROVE  /\ ViewsTypeOK'
         /\ ViewsMatchKernel => ViewsMatchKernel'
  <1> DEFINE pairs == {<<a, conflict>> : a \in conflict}
             disputed == [views EXCEPT !.disputes = @ \cup pairs]
             refreshed == RefreshBeliefs(disputed, conflict)
             marked == MarkSummariesStale(refreshed, conflict)
             known == conflict \cap DOMAIN atoms'
  <1>1. /\ IsViews(views) /\ KernelTypeOK' /\ sequence \in Nat
        /\ \A n \in ViewName : views.versions[n] <= sequence
        /\ conflict \subseteq AtomId
    BY KernelAssumption DEF ViewsTypeOK, KernelInv
  <1>2. PICK d : /\ Publish(marked, d)
                 /\ d.atoms = conflict
                 /\ d.stale = StaleBy(views, conflict)
                 /\ d.risky = {}
    <2> DEFINE stale == StaleBy(views, conflict)
               named == {"Contradictions", "Beliefs"} \cup SummariesIf(stale # {})
               d == [NoDelta EXCEPT !.kind = "ConflictAdded", !.atoms = conflict,
                                    !.stale = stale, !.views = named]
    <2>1. Publish(marked, d)  BY DEF ConflictAdded
    <2> HIDE DEF stale, named
    <2>2. d.atoms = conflict /\ d.stale = stale /\ d.risky = {}  BY DEF NoDelta
    <2> QED BY <2>1, <2>2 DEF stale
  <1>3. pairs \subseteq AtomId \X SUBSET AtomId  BY <1>1
  <1>4. /\ \A p \in pairs : p[1] \in p[2] /\ p[2] = conflict
        /\ \A p \in AtomId \X SUBSET AtomId :
             p[1] \in p[2] /\ p[2] = conflict => p \in pairs
    OBVIOUS
  <1> HIDE DEF pairs
  <1>5. /\ IsViews(disputed)
        /\ disputed.versions = views.versions
        /\ disputed.beliefs = views.beliefs
        /\ disputed.disputes = views.disputes \cup pairs
        /\ disputed.found = views.found /\ disputed.trust = views.trust
        /\ disputed.dependents = views.dependents
        /\ disputed.summaries = views.summaries
    BY <1>1, <1>3 DEF IsViews
  <1> HIDE DEF disputed
  <1>6. /\ IsViews(refreshed)
        /\ refreshed.versions = disputed.versions
        /\ refreshed.found = disputed.found
        /\ refreshed.disputes = disputed.disputes
        /\ refreshed.trust = disputed.trust
        /\ refreshed.dependents = disputed.dependents
        /\ refreshed.summaries = disputed.summaries
        /\ DOMAIN refreshed.beliefs = DOMAIN disputed.beliefs \cup known
        /\ \A a \in DOMAIN refreshed.beliefs :
             refreshed.beliefs[a] = IF a \in known THEN atoms'[a].belief
                                    ELSE disputed.beliefs[a]
    BY <1>1, <1>5, RefreshBeliefsViews
  <1> HIDE DEF refreshed
  <1>7. /\ IsViews(marked)
        /\ marked.versions = refreshed.versions
        /\ marked.found = refreshed.found /\ marked.disputes = refreshed.disputes
        /\ marked.trust = refreshed.trust
        /\ marked.dependents = refreshed.dependents
        /\ marked.beliefs = refreshed.beliefs
        /\ DOMAIN marked.summaries = DOMAIN refreshed.summaries
        /\ \A s \in DOMAIN refreshed.summaries :
             marked.summaries[s].deps = refreshed.summaries[s].deps
    BY <1>6, MarkStaleViews
  <1> HIDE DEF marked
  <1>8. \A n \in ViewName : marked.versions[n] <= sequence
    BY <1>1, <1>5, <1>6, <1>7
  <1>9. /\ IsViews(views') /\ sequence' \in Nat
        /\ \A n \in ViewName : views'.versions[n] <= sequence'
        /\ \A f \in Field : views'[f] = marked[f]
        /\ delta' = d
    BY <1>1, <1>2, <1>7, <1>8, PublishViews
  <1>10. ViewsTypeOK'
    <2>1. delta'.atoms \cup delta'.stale \cup delta'.risky \subseteq AtomId
      BY <1>1, <1>2, <1>9 DEF StaleBy
    <2> QED BY <1>1, <1>9, <2>1 DEF ViewsTypeOK, KernelInv
  <1>11. /\ views'.disputes = views.disputes \cup pairs
         /\ views'.beliefs = refreshed.beliefs
         /\ KeptLookups
    <2>1. /\ views'.found = marked.found /\ views'.beliefs = marked.beliefs
          /\ views'.disputes = marked.disputes /\ views'.trust = marked.trust
          /\ views'.summaries = marked.summaries
          /\ views'.dependents = marked.dependents
      BY <1>9 DEF Field
    <2> QED BY <2>1, <1>5, <1>6, <1>7 DEF KeptLookups
  <1>12. ASSUME ViewsMatchKernel  PROVE ViewsMatchKernel'
    <2>1. /\ conflicts' = conflicts \cup {conflict}
          /\ conflicts' \subseteq SUBSET AtomId
          /\ DOMAIN atoms' = DOMAIN atoms
          /\ \A a \in DOMAIN atoms :
               atoms'[a] = IF a \in conflict THEN Contested(atoms[a], conflict)
                           ELSE atoms[a]
      BY <1>1 DEF ConflictAdded, AddConflict, KernelTypeOK
    <2>2. \A a \in DOMAIN atoms : atoms[a] \in Atom
      BY DEF KernelInv, KernelTypeOK
    <2>3. KeptAtoms  BY <2>1, <2>2 DEF KeptAtoms, Contested, Atom
    <2>4. views'.beliefs = [a \in DOMAIN atoms' |-> atoms'[a].belief]
      <3>1. views.beliefs = [a \in DOMAIN atoms |-> atoms[a].belief]
        BY <1>12 DEF ViewsMatchKernel
      <3>2. DOMAIN views'.beliefs = DOMAIN atoms'
        BY <1>5, <1>6, <1>11, <2>1, <3>1
      <3>3. ASSUME NEW a \in DOMAIN atoms'
            PROVE  views'.beliefs[a] = atoms'[a].belief
        <4>1. CASE a \in conflict
          BY <3>2, <3>3, <4>1, <1>6, <1>11
        <4>2. CASE a \notin conflict
          <5>1. atoms'[a] = atoms[a] /\ a \in DOMAIN atoms  BY <3>3, <4>2, <2>1
          <5> QED BY <3>1, <3>2, <3>3, <4>2, <5>1, <1>5, <1>6, <1>11
        <4> QED BY <4>1, <4>2
      <3>4. views'.beliefs \in [DOMAIN views'.beliefs -> BeliefState]
        BY <1>9 DEF IsViews
      <3> QED BY <3>2, <3>3, <3>4
    <2>5. views'.disputes = {p \in AtomId \X conflicts' : p[1] \in p[2]}
      <3>1. views.disputes = {p \in AtomId \X conflicts : p[1] \in p[2]}
        BY <1>12 DEF ViewsMatchKernel
      <3>2. \A p \in pairs : p \in AtomId \X conflicts' /\ p[1] \in p[2]
        BY <1>3, <1>4, <2>1
      <3>3. \A p \in AtomId \X conflicts' :
              p[1] \in p[2] => p \in views.disputes \cup pairs
        BY <1>4, <2>1, <3>1
      <3> QED BY <1>11, <2>1, <3>1, <3>2, <3>3
    <2> QED BY <1>11, <1>12, <2>3, <2>4, <2>5, LookupsKept
  <1> QED BY <1>10, <1>12

(* The events that leave atoms and conflicts alone: dependencies, causal   *)
(* links, source trust.                                                    *)
LEMMA OtherViews ==
  ASSUME KernelInv, KernelInv', ViewsTypeOK, NEW v, NEW d, IsViews(v),
         Publish(v, d), atoms' = atoms, conflicts' = conflicts,
         d.atoms \cup d.stale \cup d.risky \subseteq AtomId,
         v.versions = views.versions, v.beliefs = views.beliefs,
         v.found = views.found, v.disputes = views.disputes,
         v.dependents = views.dependents, v.summaries = views.summaries,
         DOMAIN views.trust \subseteq DOMAIN v.trust
  PROVE  /\ ViewsTypeOK'
         /\ ViewsMatchKernel => ViewsMatchKernel'
  <1>1. sequence \in Nat /\ \A n \in ViewName : v.versions[n] <= sequence
    BY DEF ViewsTypeOK
  <1>2. /\ IsViews(views') /\ sequence' \in Nat
        /\ \A n \in ViewName : views'.versions[n] <= sequence'
        /\ \A f \in Field : views'[f] = v[f]
        /\ delta' = d
    BY <1>1, PublishViews
  <1>3. ViewsTypeOK'
    BY <1>2 DEF ViewsTypeOK, KernelInv
  <1>4. /\ views'.beliefs = views.beliefs /\ views'.disputes = views.disputes
        /\ KeptLookups
    <2>1. /\ views'.found = v.found /\ views'.beliefs = v.beliefs
          /\ views'.disputes = v.disputes /\ views'.trust = v.trust
          /\ views'.summaries = v.summaries /\ views'.dependents = v.dependents
      BY <1>2 DEF Field
    <2> QED BY <2>1 DEF KeptLookups
  <1>5. KeptAtoms  BY DEF KeptAtoms
  <1>6. ASSUME ViewsMatchKernel  PROVE ViewsMatchKernel'
    <2>1. /\ views'.beliefs = [a \in DOMAIN atoms' |-> atoms'[a].belief]
          /\ views'.disputes = {p \in AtomId \X conflicts' : p[1] \in p[2]}
      BY <1>4, <1>6 DEF ViewsMatchKernel
    <2> QED BY <1>4, <1>5, <1>6, <2>1, LookupsKept
  <1> QED BY <1>3, <1>6

(* Every step of the system keeps the views well formed and in step with   *)
(* the kernel.                                                             *)
LEMMA ViewsInvInductive ==
  ASSUME KernelInv, KernelInv', ViewsTypeOK, [ViewsNext]_vars
  PROVE  /\ ViewsTypeOK'
         /\ ViewsMatchKernel => ViewsMatchKernel'
  <1>1. ASSUME NEW atom \in Claims, NEW time \in 1..MaxTime, AtomInserted(atom, time)
        PROVE  ViewsTypeOK' /\ (ViewsMatchKernel => ViewsMatchKernel')
    BY <1>1, AtomViews
  <1>2. ASSUME NEW a \in AtomId, NEW next \in Revised, NEW time \in 1..MaxTime,
               BeliefRevised(a, next, time)
        PROVE  ViewsTypeOK' /\ (ViewsMatchKernel => ViewsMatchKernel')
    BY <1>2, RevisedViews
  <1>3. ASSUME NEW conflict \in Conflicts, ConflictAdded(conflict)
        PROVE  ViewsTypeOK' /\ (ViewsMatchKernel => ViewsMatchKernel')
    BY <1>3, DisputedViews
  <1>4. IsViews(views)  BY DEF ViewsTypeOK
  <1>5. ASSUME NEW link \in Links, DependencyAdded(link[1], link[2])
        PROVE  ViewsTypeOK' /\ (ViewsMatchKernel => ViewsMatchKernel')
    <2> DEFINE d == [NoDelta EXCEPT !.kind = "DependencyAdded",
                                    !.atoms = {link[1], link[2]},
                                    !.views = {"Dependencies"}]
    <2>1. Publish(views, d) /\ atoms' = atoms /\ conflicts' = conflicts
      BY <1>5 DEF DependencyAdded, AddDependency
    <2>2. link \in AtomId \X AtomId  BY ViewAssumption
    <2>3. d.atoms \cup d.stale \cup d.risky \subseteq AtomId
      BY <2>2 DEF NoDelta
    <2> HIDE DEF d
    <2> QED BY <1>4, <2>1, <2>3, OtherViews
  <1>6. ASSUME NEW link \in Causes, CausalAtomInserted(link[1], link[2])
        PROVE  ViewsTypeOK' /\ (ViewsMatchKernel => ViewsMatchKernel')
    <2> DEFINE d == [NoDelta EXCEPT !.kind = "CausalAtomInserted",
                                    !.views = {"Causality"}]
    <2>1. Publish(views, d) /\ atoms' = atoms /\ conflicts' = conflicts
      BY <1>6 DEF CausalAtomInserted, InsertCause
    <2>2. d.atoms \cup d.stale \cup d.risky \subseteq AtomId
      BY DEF NoDelta
    <2> HIDE DEF d
    <2> QED BY <1>4, <2>1, <2>2, OtherViews
  <1>7. ASSUME NEW source \in SourceId, NEW score \in Trust,
               SourceTrustUpdated(source, score)
        PROVE  ViewsTypeOK' /\ (ViewsMatchKernel => ViewsMatchKernel')
    <2> DEFINE d == [NoDelta EXCEPT !.kind = "SourceTrustUpdated",
                                    !.views = {"SourceTrust"}]
               trust == Put(views.trust, source, score)
               rated == [views EXCEPT !.trust = trust]
    <2>1. Publish(rated, d) /\ atoms' = atoms /\ conflicts' = conflicts
      BY <1>7 DEF SourceTrustUpdated, kernelVars
    <2>2. d.atoms \cup d.stale \cup d.risky \subseteq AtomId
      BY DEF NoDelta
    <2>3. trust \in [DOMAIN trust -> Trust] /\ DOMAIN views.trust \subseteq DOMAIN trust
      BY <1>4 DEF IsViews, Put
    <2> HIDE DEF d, trust
    <2>4. /\ IsViews(rated)
          /\ rated.versions = views.versions /\ rated.beliefs = views.beliefs
          /\ rated.found = views.found /\ rated.disputes = views.disputes
          /\ rated.dependents = views.dependents
          /\ rated.summaries = views.summaries
          /\ DOMAIN views.trust \subseteq DOMAIN rated.trust
      BY <1>4, <2>3 DEF IsViews
    <2> HIDE DEF rated
    <2> QED BY <2>1, <2>2, <2>4, OtherViews
  <1>8. ASSUME UNCHANGED vars
        PROVE  ViewsTypeOK' /\ (ViewsMatchKernel => ViewsMatchKernel')
    BY <1>8 DEF vars, kernelVars, ViewsTypeOK, KernelTypeOK, ViewsMatchKernel
  <1> QED BY <1>1, <1>2, <1>3, <1>5, <1>6, <1>7, <1>8 DEF ViewsNext

LEMMA ViewsInitially ==
  ASSUME ViewsInit
  PROVE  ViewsTypeOK /\ ViewsMatchKernel
  <1>1. KernelTypeOK
    BY DEF ViewsInit, KernelInit, KernelTypeOK
  <1>2. IsViews(views) /\ \A n \in ViewName : views.versions[n] = 0
    BY DEF ViewsInit, IsViews
  <1>3. delta.atoms \cup delta.stale \cup delta.risky \subseteq AtomId
    BY DEF ViewsInit, NoDelta
  <1>4. sequence = 0 /\ now = 0  BY DEF ViewsInit
  <1>5. ViewsMatchKernel
    BY DEF ViewsInit, KernelInit, ViewsMatchKernel
  <1> QED BY <1>1, <1>2, <1>3, <1>4, <1>5 DEF ViewsTypeOK

(* The kernel, the views and what an event returns are well formed after   *)
(* any sequence of events, and no view is newer than the last event.       *)
THEOREM ViewsTypeCorrect == ViewsSpec => []ViewsTypeOK
  <1>1. ViewsInit => ViewsTypeOK  BY ViewsInitially
  <1>2. KernelInv /\ KernelInv' /\ ViewsTypeOK /\ [ViewsNext]_vars => ViewsTypeOK'
    BY ViewsInvInductive
  <1> QED BY <1>1, <1>2, KernelInvInductive, PTL DEF ViewsSpec

(* The views answer what the kernel holds: the current belief and the      *)
(* conflicts of every atom, and no atom is missing from a lookup.          *)
THEOREM ViewsAgree == ViewsSpec => []ViewsMatchKernel
  <1>1. ViewsInit => ViewsMatchKernel  BY ViewsInitially
  <1>2. KernelInv /\ KernelInv' /\ ViewsTypeOK /\ ViewsMatchKernel /\ [ViewsNext]_vars
          => ViewsMatchKernel'
    BY ViewsInvInductive
  <1> QED BY <1>1, <1>2, KernelInvInductive, ViewsTypeCorrect, PTL DEF ViewsSpec

-----------------------------------------------------------------------------
(***************************************************************************)
(* Induction, and the values of a sequence.                                *)
(***************************************************************************)

(* A set with 0 and the successor of each of its members is all of Nat.    *)
LEMMA InductionOnSets ==
  ASSUME NEW S \in SUBSET Nat, 0 \in S, \A n \in S : n + 1 \in S
  PROVE  S = Nat
  <1> SUFFICES ASSUME NEW x \in Nat, x \notin S PROVE FALSE
    OBVIOUS
  <1> DEFINE Rest == Nat \ S
  <1>1. Rest \in SUBSET Nat /\ Rest # {}
    OBVIOUS
  <1>2. PICK m \in Rest : \A k \in Rest : m <= k
    <2> HIDE DEF Rest
    <2> QED BY <1>1, LeastExists
  <1>3. m \in Nat /\ m # 0 /\ m - 1 \in Nat
    BY <1>2
  <1>4. m - 1 \in S
    BY <1>2, <1>3
  <1>5. (m - 1) + 1 \in S
    BY <1>4
  <1> QED BY <1>2, <1>3, <1>5

(* Taking the head off a queue leaves its other values.                    *)
LEMMA RangeOfTail ==
  ASSUME NEW X, NEW q \in Seq(X), q # <<>>
  PROVE  /\ Head(q) \in X /\ Tail(q) \in Seq(X)
         /\ Len(Tail(q)) = Len(q) - 1 /\ Len(q) \in Nat /\ Len(q) > 0
         /\ Range(q) = {Head(q)} \cup Range(Tail(q))
  <1>1. /\ Head(q) = q[1] /\ Len(q) \in Nat /\ Len(q) > 0 /\ DOMAIN q = 1..Len(q)
        /\ Tail(q) \in Seq(X) /\ Len(Tail(q)) = Len(q) - 1
        /\ DOMAIN Tail(q) = 1..(Len(q) - 1)
        /\ \A i \in 1..(Len(q) - 1) : Tail(q)[i] = q[i + 1]
    OBVIOUS
  <1>2. ASSUME NEW i \in 1..Len(q)  PROVE q[i] \in {Head(q)} \cup Range(Tail(q))
    <2>1. CASE i = 1
      BY <1>1, <2>1
    <2>2. CASE i # 1
      <3>1. i - 1 \in DOMAIN Tail(q) /\ Tail(q)[i - 1] = q[(i - 1) + 1] /\ (i - 1) + 1 = i
        BY <1>1, <2>2
      <3> QED BY <3>1 DEF Range
    <2> QED BY <2>1, <2>2
  <1>3. ASSUME NEW i \in 1..(Len(q) - 1)  PROVE Tail(q)[i] \in Range(q)
    BY <1>1 DEF Range
  <1>4. Head(q) \in Range(q) /\ Head(q) \in X
    BY <1>1 DEF Range
  <1> QED BY <1>1, <1>2, <1>3, <1>4 DEF Range

(* Joining two sequences joins their values.                               *)
LEMMA RangeOfJoin ==
  ASSUME NEW X, NEW q \in Seq(X), NEW r \in Seq(X)
  PROVE  /\ q \o r \in Seq(X) /\ Len(q \o r) = Len(q) + Len(r)
         /\ Len(q) \in Nat /\ Len(r) \in Nat
         /\ Range(q \o r) = Range(q) \cup Range(r)
  <1>1. /\ q \o r \in Seq(X) /\ Len(q \o r) = Len(q) + Len(r)
        /\ Len(q) \in Nat /\ Len(r) \in Nat
        /\ DOMAIN q = 1..Len(q) /\ DOMAIN r = 1..Len(r)
        /\ DOMAIN (q \o r) = 1..(Len(q) + Len(r))
    OBVIOUS
  <1>2. ASSUME NEW i \in 1..Len(q)  PROVE i \in DOMAIN (q \o r) /\ (q \o r)[i] = q[i]
    BY <1>1
  <1>3. ASSUME NEW i \in 1..Len(r)
        PROVE  Len(q) + i \in DOMAIN (q \o r) /\ (q \o r)[Len(q) + i] = r[i]
    BY <1>1
  <1>4. ASSUME NEW i \in 1..(Len(q) + Len(r))
        PROVE  (q \o r)[i] \in Range(q) \cup Range(r)
    <2>1. CASE i <= Len(q)
      BY <1>1, <1>2, <2>1 DEF Range
    <2>2. CASE i > Len(q)
      <3>1. i - Len(q) \in 1..Len(r) /\ Len(q) + (i - Len(q)) = i
        BY <1>1, <2>2
      <3> QED BY <1>1, <1>3, <3>1 DEF Range
    <2> QED BY <1>1, <2>1, <2>2
  <1>5. Range(q) \subseteq Range(q \o r)
    BY <1>1, <1>2 DEF Range
  <1>6. Range(r) \subseteq Range(q \o r)
    BY <1>1, <1>3 DEF Range
  <1>7. Range(q \o r) \subseteq Range(q) \cup Range(r)
    BY <1>1, <1>4 DEF Range
  <1> QED BY <1>1, <1>5, <1>6, <1>7

LEMMA RangeOfAppend ==
  ASSUME NEW X, NEW q \in Seq(X), NEW x \in X
  PROVE  Append(q, x) \in Seq(X) /\ Range(Append(q, x)) = Range(q) \cup {x}
  <1>1. /\ Append(q, x) \in Seq(X) /\ Len(q) \in Nat
        /\ DOMAIN q = 1..Len(q) /\ DOMAIN Append(q, x) = 1..(Len(q) + 1)
        /\ \A i \in 1..Len(q) : Append(q, x)[i] = q[i]
        /\ Append(q, x)[Len(q) + 1] = x
    OBVIOUS
  <1>2. \A i \in 1..(Len(q) + 1) : i \in 1..Len(q) \/ i = Len(q) + 1
    BY <1>1
  <1>3. 1..Len(q) \subseteq 1..(Len(q) + 1) /\ Len(q) + 1 \in 1..(Len(q) + 1)
    BY <1>1
  <1> QED BY <1>1, <1>2, <1>3 DEF Range

-----------------------------------------------------------------------------
(***************************************************************************)
(* The traversal of the dependency graph.                                  *)
(***************************************************************************)
Succ(x) == {to \in AtomId : <<x, to>> \in edges}
From(x) == {e \in edges : e[1] = x}

FiniteGraph == edges \subseteq AtomId \X AtomId /\ IsFiniteSet(edges)

(* The successors of a node are as many as the edges from it, and Keys     *)
(* lists them.                                                             *)
LEMMA KeysListed ==
  ASSUME FiniteGraph, NEW x
  PROVE  /\ Keys(x) \in Seq(AtomId) /\ Range(Keys(x)) = Succ(x)
         /\ IsFiniteSet(From(x)) /\ Len(Keys(x)) = Cardinality(From(x))
  <1> DEFINE to == [e \in From(x) |-> e[2]]
  <1>1. IsFiniteSet(From(x))
    <2>1. From(x) \in SUBSET edges
      BY DEF From
    <2> QED BY <2>1, FS_Subset DEF FiniteGraph
  <1>2. to \in Bijection(From(x), Succ(x))
    <2>1. \A e \in From(x) : e = <<x, e[2]>> /\ e[2] \in Succ(x)
      BY DEF From, Succ, FiniteGraph
    <2>2. \A y \in Succ(x) : <<x, y>> \in From(x) /\ to[<<x, y>>] = y
      BY DEF From, Succ
    <2>3. to \in [From(x) -> Succ(x)]
      BY <2>1
    <2>4. IsInjective(to)
      BY <2>1 DEF IsInjective
    <2> HIDE DEF to
    <2> QED BY <2>2, <2>3, <2>4 DEF Bijection, Injection, Surjection
  <1>3. ExistsBijection(From(x), Succ(x))
    BY <1>2 DEF ExistsBijection
  <1>4. IsFiniteSet(Succ(x)) /\ Cardinality(Succ(x)) = Cardinality(From(x))
    BY <1>1, <1>3, FS_Bijection
  <1>5. Cardinality(Succ(x)) \in Nat /\ ExistsBijection(1..Cardinality(Succ(x)), Succ(x))
    BY <1>4, FS_CardinalityType
  <1>6. \E keys \in [1..Cardinality(Succ(x)) -> Succ(x)] : Range(keys) = Succ(x)
    <2>1. PICK listed \in Bijection(1..Cardinality(Succ(x)), Succ(x)) : TRUE
      BY <1>5 DEF ExistsBijection
    <2>2. listed \in [1..Cardinality(Succ(x)) -> Succ(x)] /\ Range(listed) = Succ(x)
      BY <2>1 DEF Bijection, Injection, Surjection, Range
    <2> QED BY <2>2
  <1>7. Keys(x) = CHOOSE keys \in [1..Cardinality(Succ(x)) -> Succ(x)] : Range(keys) = Succ(x)
    BY DEF Keys, Succ
  <1>8. Keys(x) \in [1..Cardinality(Succ(x)) -> Succ(x)] /\ Range(Keys(x)) = Succ(x)
    BY <1>6, <1>7
  <1>9. Succ(x) \subseteq AtomId
    BY DEF Succ
  <1> QED BY <1>1, <1>4, <1>5, <1>8, <1>9

Start(root) == [queue |-> Keys(root), found |-> <<>>]

IsWalk(f, root) ==
  f = [n \in Nat |-> IF n = 0 THEN Start(root) ELSE Visit(f[n - 1])]

\* Its first k visits.
IsWalkTo(f, root, k) ==
  f = [n \in 0..k |-> IF n = 0 THEN Start(root) ELSE Visit(f[n - 1])]

LEMMA WalkPoints ==
  ASSUME NEW f, NEW root, NEW k \in Nat, IsWalkTo(f, root, k)
  PROVE  f[0] = Start(root) /\ \A n \in 1..k : f[n] = Visit(f[n - 1])
  <1> DEFINE G(n) == IF n = 0 THEN Start(root) ELSE Visit(f[n - 1])
  <1>1. f = [n \in 0..k |-> G(n)]
    BY DEF IsWalkTo
  <1>2. \A n \in 0..k : f[n] = G(n)
    <2> HIDE DEF G
    <2> QED BY <1>1
  <1> QED BY <1>2

LEMMA WalkUnique ==
  ASSUME NEW root, NEW f, NEW g, NEW k \in Nat, NEW m \in Nat, k <= m,
         IsWalkTo(f, root, k), IsWalkTo(g, root, m)
  PROVE  f[k] = g[k]
  <1>1. /\ f[0] = Start(root) /\ \A n \in 1..k : f[n] = Visit(f[n - 1])
        /\ g[0] = Start(root) /\ \A n \in 1..m : g[n] = Visit(g[n - 1])
    BY WalkPoints
  <1> DEFINE S == {n \in Nat : n <= k => f[n] = g[n]}
  <1>2. 0 \in S
    BY <1>1
  <1>3. ASSUME NEW n \in S PROVE n + 1 \in S
    <2> SUFFICES ASSUME n + 1 <= k PROVE f[n + 1] = g[n + 1]
      OBVIOUS
    <2>1. n \in Nat /\ n + 1 \in 1..k /\ n + 1 \in 1..m /\ (n + 1) - 1 = n /\ f[n] = g[n]
      OBVIOUS
    <2>2. f[n + 1] = Visit(f[n])
      BY <1>1, <2>1
    <2>3. g[n + 1] = Visit(g[n])
      BY <1>1, <2>1
    <2> QED BY <2>1, <2>2, <2>3
  <1>4. S = Nat
    <2>1. S \in SUBSET Nat
      OBVIOUS
    <2> HIDE DEF S
    <2> QED BY <1>2, <1>3, <2>1, InductionOnSets
  <1> QED BY <1>4

LEMMA WalkToExists ==
  ASSUME NEW root
  PROVE  \A k \in Nat : \E f : IsWalkTo(f, root, k)
  <1> DEFINE S == {k \in Nat : \E f : IsWalkTo(f, root, k)}
  <1>1. 0 \in S
    <2> DEFINE f == [n \in 0..0 |-> Start(root)]
    <2>1. f = [n \in 0..0 |-> IF n = 0 THEN Start(root) ELSE Visit(f[n - 1])]
      OBVIOUS
    <2>2. IsWalkTo(f, root, 0)
      BY <2>1 DEF IsWalkTo
    <2> QED BY <2>2
  <1>2. ASSUME NEW k \in S PROVE k + 1 \in S
    <2>1. PICK f : IsWalkTo(f, root, k)
      OBVIOUS
    <2>2. k \in Nat /\ f[0] = Start(root) /\ \A n \in 1..k : f[n] = Visit(f[n - 1])
      BY <2>1, WalkPoints
    <2> DEFINE g == [n \in 0..k + 1 |-> IF n = k + 1 THEN Visit(f[k]) ELSE f[n]]
               H(n) == IF n = 0 THEN Start(root) ELSE Visit(g[n - 1])
    <2>3. ASSUME NEW n \in 0..k + 1 PROVE g[n] = H(n)
      <3>1. CASE n = 0
        BY <2>2, <3>1
      <3>2. CASE n \in 1..k
        <4>1. g[n] = f[n] /\ g[n - 1] = f[n - 1] /\ n # 0
          BY <2>2, <3>2
        <4> QED BY <2>2, <3>2, <4>1
      <3>3. CASE n = k + 1
        <4>1. g[n] = Visit(f[k]) /\ g[n - 1] = f[k] /\ n # 0
          BY <2>2, <3>3
        <4> QED BY <3>3, <4>1
      <3> QED BY <2>2, <3>1, <3>2, <3>3
    <2>4. g = [n \in 0..k + 1 |-> H(n)]
      <3>1. DOMAIN g = 0..k + 1 /\ g = [n \in DOMAIN g |-> g[n]]
        OBVIOUS
      <3> HIDE DEF g, H
      <3> QED BY <2>3, <3>1
    <2>5. IsWalkTo(g, root, k + 1)
      BY <2>4 DEF IsWalkTo
    <2> QED BY <2>2, <2>5
  <1>3. S = Nat
    <2>1. S \in SUBSET Nat
      OBVIOUS
    <2> HIDE DEF S
    <2> QED BY <1>1, <1>2, <2>1, InductionOnSets
  <1> QED BY <1>3

(* The recursive function of TransitiveDependents exists.                  *)
LEMMA WalkExists ==
  ASSUME NEW root
  PROVE  \E f : IsWalk(f, root)
  <1> DEFINE part(k) == CHOOSE f : IsWalkTo(f, root, k)
             walk == [k \in Nat |-> part(k)[k]]
             H(n) == IF n = 0 THEN Start(root) ELSE Visit(walk[n - 1])
  <1>1. ASSUME NEW k \in Nat PROVE IsWalkTo(part(k), root, k)
    BY WalkToExists
  <1> HIDE DEF part
  <1>2. ASSUME NEW n \in Nat PROVE walk[n] = H(n)
    <2>1. CASE n = 0
      <3>1. part(0)[0] = Start(root)
        BY <1>1, WalkPoints
      <3> QED BY <2>1, <3>1
    <2>2. CASE n # 0
      <3>1. n - 1 \in Nat /\ n - 1 <= n /\ n \in 1..n
        BY <2>2
      <3>2. part(n)[n] = Visit(part(n)[n - 1])
        BY <1>1, <3>1, WalkPoints
      <3>3. part(n - 1)[n - 1] = part(n)[n - 1]
        BY <1>1, <3>1, WalkUnique
      <3> QED BY <2>2, <3>1, <3>2, <3>3
    <2> QED BY <2>1, <2>2
  <1>3. walk = [n \in Nat |-> H(n)]
    <2>1. walk = [n \in Nat |-> walk[n]]
      OBVIOUS
    <2> HIDE DEF walk, H
    <2> QED BY <1>2, <2>1
  <1>4. IsWalk(walk, root)
    BY <1>3 DEF IsWalk
  <1> QED BY <1>4

\* Where the traversal is: everything met is downstream, and whatever follows
\* the root or a visited node has been met.
Met(w) == Range(w.queue) \cup Range(w.found)

Reaches(w, root) ==
  /\ w \in [queue : Seq(AtomId), found : Seq(AtomId)]
  /\ Met(w) \subseteq Downstream(edges, root)
  /\ \A x \in {root} \cup Range(w.found) : Succ(x) \subseteq Met(w)

\* How many visits are left at most.
Ahead(w) == {e \in edges : e[1] \notin Range(w.found)}

Within(w, n) ==
  w.queue # <<>> => Len(w.queue) + Cardinality(Ahead(w)) + n <= 2 * Cardinality(edges)

(* What is downstream of a node includes its successors and theirs.        *)
LEMMA DownstreamClosed ==
  ASSUME FiniteGraph, NEW root, NEW x \in {root} \cup Downstream(edges, root)
  PROVE  Succ(x) \subseteq Downstream(edges, root)
  <1> SUFFICES ASSUME NEW y \in Succ(x), NEW S \in SUBSET AtomId,
                      \A e \in edges : e[1] \in {root} \cup S => e[2] \in S
               PROVE  y \in S
    BY DEF Downstream, Succ
  <1>1. <<x, y>> \in edges /\ x \in {root} \cup S
    BY DEF Downstream, Succ
  <1> QED BY <1>1

LEMMA StartReaches ==
  ASSUME FiniteGraph, NEW root
  PROVE  Reaches(Start(root), root) /\ Within(Start(root), 0)
  <1>1. /\ Keys(root) \in Seq(AtomId) /\ Range(Keys(root)) = Succ(root)
        /\ IsFiniteSet(From(root)) /\ Len(Keys(root)) = Cardinality(From(root))
    BY KeysListed
  <1>2. /\ Start(root) \in [queue : Seq(AtomId), found : Seq(AtomId)]
        /\ Start(root).queue = Keys(root) /\ Range(Start(root).found) = {}
    BY <1>1 DEF Start, Range
  <1>3. Met(Start(root)) = Succ(root) /\ Ahead(Start(root)) = edges
    BY <1>1, <1>2 DEF Met, Ahead
  <1>4. Succ(root) \subseteq Downstream(edges, root)
    BY DownstreamClosed
  <1>5. From(root) \in SUBSET edges
    BY DEF From
  <1>6. Cardinality(From(root)) <= Cardinality(edges)
    BY <1>5, FS_Subset DEF FiniteGraph
  <1>7. Cardinality(From(root)) \in Nat /\ Cardinality(edges) \in Nat
    BY <1>1, FS_CardinalityType DEF FiniteGraph
  <1>8. Cardinality(From(root)) + Cardinality(edges) + 0 <= 2 * Cardinality(edges)
    BY <1>6, <1>7
  <1> QED BY <1>1, <1>2, <1>3, <1>4, <1>8 DEF Reaches, Within

(* A visit keeps what is known, and one fewer is left.                     *)
LEMMA VisitReaches ==
  ASSUME FiniteGraph, NEW root, NEW w, NEW n \in Nat, Reaches(w, root), Within(w, n)
  PROVE  Reaches(Visit(w), root) /\ Within(Visit(w), n + 1)
  <1>t. w \in [queue : Seq(AtomId), found : Seq(AtomId)]
    BY DEF Reaches
  <1>1. CASE w.queue = <<>>
    BY <1>1 DEF Visit, Within
  <1> SUFFICES ASSUME w.queue # <<>>
               PROVE  Reaches(Visit(w), root) /\ Within(Visit(w), n + 1)
    BY <1>1
  <1> DEFINE node == Head(w.queue)
             rest == Tail(w.queue)
  <1>2. /\ node \in AtomId /\ rest \in Seq(AtomId)
        /\ Len(rest) = Len(w.queue) - 1 /\ Len(w.queue) \in Nat
        /\ Range(w.queue) = {node} \cup Range(rest)
    BY <1>t, RangeOfTail
  <1>3. \A v : Ahead(v) \in SUBSET edges
    BY DEF Ahead
  <1>4. \A v : IsFiniteSet(Ahead(v)) /\ Cardinality(Ahead(v)) \in Nat
    <2> SUFFICES ASSUME NEW v PROVE IsFiniteSet(Ahead(v)) /\ Cardinality(Ahead(v)) \in Nat
      OBVIOUS
    <2>1. Ahead(v) \in SUBSET edges
      BY <1>3
    <2>2. IsFiniteSet(Ahead(v))
      BY <2>1, FS_Subset DEF FiniteGraph
    <2> QED BY <2>2, FS_CardinalityType
  <1>5. Cardinality(edges) \in Nat
    BY FS_CardinalityType DEF FiniteGraph
  <1>6. Len(w.queue) + Cardinality(Ahead(w)) + n <= 2 * Cardinality(edges)
    BY DEF Within
  <1>7. CASE node \in Range(w.found)
    <2>1. Visit(w) = [w EXCEPT !.queue = rest]
      BY <1>7 DEF Visit
    <2>2. /\ Visit(w) \in [queue : Seq(AtomId), found : Seq(AtomId)]
          /\ Visit(w).queue = rest /\ Visit(w).found = w.found
      BY <1>t, <1>2, <2>1
    <2>3. Met(Visit(w)) = Met(w) /\ Ahead(Visit(w)) = Ahead(w)
      BY <1>2, <1>7, <2>2 DEF Met, Ahead
    <2>4. Reaches(Visit(w), root)
      BY <2>2, <2>3 DEF Reaches
    <2>5. Len(rest) + Cardinality(Ahead(w)) + (n + 1) <= 2 * Cardinality(edges)
      BY <1>2, <1>4, <1>5, <1>6
    <2> QED BY <2>2, <2>3, <2>4, <2>5 DEF Within
  <1>8. CASE node \notin Range(w.found)
    <2>1. /\ Keys(node) \in Seq(AtomId) /\ Range(Keys(node)) = Succ(node)
          /\ IsFiniteSet(From(node)) /\ Len(Keys(node)) = Cardinality(From(node))
      BY KeysListed
    <2>2. Visit(w) = [queue |-> rest \o Keys(node), found |-> Append(w.found, node)]
      BY <1>8 DEF Visit
    <2>u. w.found \in Seq(AtomId)
      BY <1>t
    <2> HIDE DEF node, rest
    <2>3. /\ rest \o Keys(node) \in Seq(AtomId)
          /\ Len(rest \o Keys(node)) = Len(rest) + Len(Keys(node))
          /\ Len(Keys(node)) \in Nat
          /\ Range(rest \o Keys(node)) = Range(rest) \cup Succ(node)
      <3>1. PICK keys \in Seq(AtomId) : keys = Keys(node) /\ Range(keys) = Succ(node)
        BY <2>1
      <3>2. /\ rest \o keys \in Seq(AtomId) /\ Len(rest \o keys) = Len(rest) + Len(keys)
            /\ Len(keys) \in Nat /\ Range(rest \o keys) = Range(rest) \cup Range(keys)
        BY <1>2, RangeOfJoin
      <3> QED BY <3>1, <3>2
    <2>4. /\ Append(w.found, node) \in Seq(AtomId)
          /\ Range(Append(w.found, node)) = Range(w.found) \cup {node}
      BY <1>2, <2>u, RangeOfAppend
    <2>5. /\ Visit(w) \in [queue : Seq(AtomId), found : Seq(AtomId)]
          /\ Visit(w).queue = rest \o Keys(node) /\ Visit(w).found = Append(w.found, node)
      BY <2>2, <2>3, <2>4
    <2>6. Met(Visit(w)) = Met(w) \cup Succ(node)
      BY <1>2, <2>3, <2>4, <2>5 DEF Met
    <2>7. Succ(node) \subseteq Downstream(edges, root)
      <3>1. node \in Downstream(edges, root)
        BY <1>2 DEF Reaches, Met
      <3> QED BY <3>1, DownstreamClosed
    <2>8. Reaches(Visit(w), root)
      BY <2>4, <2>5, <2>6, <2>7 DEF Reaches
    <2>9. Cardinality(Ahead(w)) = Cardinality(Ahead(Visit(w))) + Cardinality(From(node))
      <3>1. Ahead(Visit(w)) = Ahead(w) \ From(node) /\ Ahead(w) \cap From(node) = From(node)
        BY <1>8, <2>4, <2>5 DEF Ahead, From
      <3>2. Cardinality(Ahead(w) \ From(node))
              = Cardinality(Ahead(w)) - Cardinality(Ahead(w) \cap From(node))
        BY <1>4, FS_Difference
      <3>3. Cardinality(From(node)) \in Nat
        BY <2>1, FS_CardinalityType
      <3>4. Cardinality(Ahead(Visit(w))) = Cardinality(Ahead(w)) - Cardinality(From(node))
        BY <3>1, <3>2, Zenon
      <3>5. Cardinality(Ahead(w)) \in Nat
        BY <1>4
      <3> QED BY <3>3, <3>4, <3>5
    <2>10. Len(rest \o Keys(node)) + Cardinality(Ahead(Visit(w))) + (n + 1)
             <= 2 * Cardinality(edges)
      <3>1. Cardinality(Ahead(Visit(w))) \in Nat /\ Cardinality(Ahead(w)) \in Nat
        BY <1>4
      <3>2. Len(rest) \in Nat /\ Len(rest) = Len(w.queue) - 1 /\ Len(w.queue) \in Nat
        BY <1>2
      <3>3. /\ Len(rest \o Keys(node)) = Len(rest) + Cardinality(From(node))
            /\ Cardinality(From(node)) \in Nat
        BY <2>1, <2>3
      <3> DEFINE ahead == Cardinality(Ahead(w))   after == Cardinality(Ahead(Visit(w)))
                 from == Cardinality(From(node))  all == Cardinality(edges)
                 queued == Len(w.queue)           joined == Len(rest \o Keys(node))
      <3>4. /\ ahead \in Nat /\ after \in Nat /\ from \in Nat /\ all \in Nat /\ queued \in Nat
            /\ ahead = after + from /\ joined = (queued - 1) + from
            /\ queued + ahead + n <= 2 * all
        BY <1>5, <1>6, <2>9, <3>1, <3>2, <3>3
      <3> HIDE DEF ahead, after, from, all, queued, joined
      <3>5. joined + after + (n + 1) <= 2 * all
        BY <3>4
      <3> QED BY <3>5 DEF joined, after, all
    <2> QED BY <2>5, <2>8, <2>10 DEF Within
  <1> QED BY <1>7, <1>8

(* The traversal finds exactly what the graph leads to.                    *)
LEMMA TraversalComplete ==
  ASSUME FiniteGraph, NEW root
  PROVE  TransitiveDependents(root) = Downstream(edges, root)
  <1>1. Cardinality(edges) \in Nat
    BY FS_CardinalityType DEF FiniteGraph
  <1>2. PICK f : IsWalk(f, root)
                 /\ TransitiveDependents(root) = Range(f[2 * Cardinality(edges)].found)
    <2>1. TransitiveDependents(root)
            = Range((CHOOSE f : IsWalk(f, root))[2 * Cardinality(edges)].found)
      BY DEF TransitiveDependents, IsWalk, Start
    <2>2. IsWalk(CHOOSE f : IsWalk(f, root), root)
      BY WalkExists
    <2> HIDE DEF IsWalk
    <2> QED BY <2>1, <2>2
  <1>3. f[0] = Start(root) /\ \A n \in Nat : f[n + 1] = Visit(f[n])
    <2> DEFINE H(n) == IF n = 0 THEN Start(root) ELSE Visit(f[n - 1])
    <2>1. f = [n \in Nat |-> H(n)]
      BY <1>2 DEF IsWalk
    <2>2. \A n \in Nat : f[n] = H(n)
      <3> HIDE DEF H
      <3> QED BY <2>1
    <2>3. \A n \in Nat : n + 1 \in Nat /\ n + 1 # 0 /\ (n + 1) - 1 = n
      OBVIOUS
    <2> QED BY <2>2, <2>3
  <1> DEFINE S == {n \in Nat : Reaches(f[n], root) /\ Within(f[n], n)}
  <1>4. 0 \in S
    BY <1>3, StartReaches
  <1>5. ASSUME NEW n \in S PROVE n + 1 \in S
    BY <1>3, VisitReaches
  <1>6. S = Nat
    <2>1. S \in SUBSET Nat
      OBVIOUS
    <2> HIDE DEF S
    <2> QED BY <1>4, <1>5, <2>1, InductionOnSets
  <1> DEFINE last == 2 * Cardinality(edges)
             w == f[last]
             F == Range(w.found)
  <1>7. last \in Nat /\ Reaches(w, root) /\ Within(w, last)
    BY <1>1, <1>6
  <1>8. w.queue = <<>> /\ Range(w.queue) = {}
    <2>1. w.queue \in Seq(AtomId)
      BY <1>7 DEF Reaches
    <2>2. Ahead(w) \in SUBSET edges
      BY DEF Ahead
    <2>3. IsFiniteSet(Ahead(w))
      BY <2>2, FS_Subset DEF FiniteGraph
    <2>4. Cardinality(Ahead(w)) \in Nat
      BY <2>3, FS_CardinalityType
    <2>5. ASSUME w.queue # <<>> PROVE FALSE
      <3>1. Len(w.queue) \in Nat /\ Len(w.queue) > 0
        BY <2>1, <2>5
      <3>2. Len(w.queue) + Cardinality(Ahead(w)) + last <= last
        BY <1>7, <2>5 DEF Within
      <3> HIDE DEF last, w
      <3> QED BY <1>7, <2>4, <3>1, <3>2
    <2>6. Range(<<>>) = {}
      BY DEF Range
    <2> QED BY <2>5, <2>6
  <1>9. /\ F \in SUBSET AtomId /\ F \subseteq Downstream(edges, root)
        /\ \A x \in {root} \cup F : Succ(x) \subseteq F
    <2>1. Met(w) = F
      BY <1>8 DEF Met
    <2>2. F \subseteq Downstream(edges, root) /\ \A x \in {root} \cup F : Succ(x) \subseteq F
      BY <1>7, <2>1 DEF Reaches
    <2> QED BY <2>2 DEF Downstream
  <1>10. Downstream(edges, root) \subseteq F
    <2>1. \A e \in edges : e[1] \in {root} \cup F => e[2] \in F
      BY <1>9 DEF Succ, FiniteGraph
    <2> HIDE DEF F
    <2> QED BY <1>9, <2>1 DEF Downstream
  <1> QED BY <1>2, <1>9, <1>10

-----------------------------------------------------------------------------
(***************************************************************************)
(* The dependency graph of the kernel.                                     *)
(***************************************************************************)
GraphInv == FiniteGraph /\ DerivedFrom \subseteq edges

(* A smaller graph leads to less.                                          *)
LEMMA DownstreamGrows ==
  ASSUME NEW rel, NEW more, rel \subseteq more, NEW root
  PROVE  Downstream(rel, root) \subseteq Downstream(more, root)
  BY DEF Downstream

LEMMA GraphStep ==
  ASSUME KernelInv, KernelInv', GraphInv, [ViewsNext]_vars
  PROVE  GraphInv'
  <1>1. edges' \subseteq AtomId \X AtomId
    BY DEF KernelInv, KernelTypeOK
  <1> SUFFICES IsFiniteSet(edges') /\ DerivedFrom' \subseteq edges'
    BY <1>1 DEF GraphInv, FiniteGraph
  <1>2. IsFiniteSet(edges) /\ \A b \in DOMAIN atoms : atoms[b].deps \X {b} \subseteq edges
    BY DEF GraphInv, FiniteGraph, DerivedFrom
  <1>3. ASSUME NEW added, IsFiniteSet(added), edges' = edges \cup added
        PROVE  IsFiniteSet(edges')
    BY <1>2, <1>3, FS_Union
  <1>4. ASSUME edges \subseteq edges',
               \A b \in DOMAIN atoms' :
                 \/ b \in DOMAIN atoms /\ atoms'[b].deps = atoms[b].deps
                 \/ atoms'[b].deps \X {b} \subseteq edges'
        PROVE  DerivedFrom' \subseteq edges'
    BY <1>2, <1>4 DEF DerivedFrom
  <1>5. ASSUME NEW atom \in Claims, NEW time \in 1..MaxTime, AtomInserted(atom, time)
        PROVE  IsFiniteSet(edges') /\ DerivedFrom' \subseteq edges'
    <2> DEFINE added == (atom.deps \cup atom.supersedes) \X {atom.id}
    <2>1. InsertAtom(atom, time) /\ edges' = edges \cup added
      BY <1>5 DEF AtomInserted, InsertAtom
    <2>2. IsFiniteSet(added)
      <3>1. IsFiniteSet(atom.deps \cup atom.supersedes)
        BY FiniteAssumption, FS_Union
      <3>2. IsFiniteSet({atom.id})
        BY FS_Singleton
      <3> QED BY <3>1, <3>2, FS_Product
    <2>3. ASSUME NEW b \in DOMAIN atoms'
          PROVE  \/ b \in DOMAIN atoms /\ atoms'[b].deps = atoms[b].deps
                 \/ atoms'[b].deps \X {b} \subseteq edges'
      <3>1. CASE b = atom.id
        <4>1. atoms'[b] = atom
          BY <2>1, <3>1 DEF InsertAtom, Put
        <4> QED BY <2>1, <3>1, <4>1
      <3>2. CASE b # atom.id
        BY <2>1, <3>2 DEF InsertAtom, Put, KernelInv, KernelTypeOK, Atom
      <3> QED BY <3>1, <3>2
    <2>4. edges \subseteq edges'
      BY <2>1
    <2> HIDE DEF added
    <2> QED BY <1>3, <1>4, <2>1, <2>2, <2>3, <2>4
  <1>6. ASSUME NEW conflict \in Conflicts, ConflictAdded(conflict)
        PROVE  IsFiniteSet(edges') /\ DerivedFrom' \subseteq edges'
    <2> DEFINE added == {e \in conflict \X conflict : e[1] # e[2]}
    <2>1. AddConflict(conflict) /\ edges' = edges \cup added
      BY <1>6 DEF ConflictAdded, AddConflict
    <2>2. IsFiniteSet(added)
      <3>1. IsFiniteSet(conflict \X conflict)
        BY FiniteAssumption, FS_Product
      <3>2. added \in SUBSET (conflict \X conflict)
        OBVIOUS
      <3> HIDE DEF added
      <3> QED BY <3>1, <3>2, FS_Subset
    <2>3. \A b \in DOMAIN atoms' : b \in DOMAIN atoms /\ atoms'[b].deps = atoms[b].deps
      BY <2>1 DEF AddConflict, Contested, KernelInv, KernelTypeOK, Atom
    <2>4. edges \subseteq edges'
      BY <2>1
    <2> HIDE DEF added
    <2> QED BY <1>3, <1>4, <2>1, <2>2, <2>3, <2>4
  <1>7. ASSUME NEW link \in Links, DependencyAdded(link[1], link[2])
        PROVE  IsFiniteSet(edges') /\ DerivedFrom' \subseteq edges'
    <2>1. edges' = edges \cup {link} /\ atoms' = atoms
      BY <1>7, ViewAssumption DEF DependencyAdded, AddDependency
    <2>2. IsFiniteSet({link})
      BY FS_Singleton
    <2> QED BY <1>3, <1>4, <2>1, <2>2
  <1>8. ASSUME edges' = edges,
               \A b \in DOMAIN atoms' : b \in DOMAIN atoms /\ atoms'[b].deps = atoms[b].deps
        PROVE  IsFiniteSet(edges') /\ DerivedFrom' \subseteq edges'
    BY <1>2, <1>4, <1>8
  <1>9. ASSUME NEW b \in AtomId, NEW next \in Revised, NEW time \in 1..MaxTime,
               BeliefRevised(b, next, time)
        PROVE  IsFiniteSet(edges') /\ DerivedFrom' \subseteq edges'
    BY <1>8, <1>9 DEF BeliefRevised, ReviseBelief, KernelInv, KernelTypeOK, Atom
  <1>10. CASE UNCHANGED vars \/ (\E link \in Causes : CausalAtomInserted(link[1], link[2]))
              \/ (\E source \in SourceId, score \in Trust : SourceTrustUpdated(source, score))
    BY <1>8, <1>10 DEF vars, kernelVars, CausalAtomInserted, InsertCause, SourceTrustUpdated
  <1> QED BY <1>5, <1>6, <1>7, <1>9, <1>10 DEF ViewsNext

LEMMA GraphInvInductive ==
  /\ ViewsInit => GraphInv
  /\ KernelInv /\ KernelInv' /\ GraphInv /\ [ViewsNext]_vars => GraphInv'
  <1>1. ViewsInit => GraphInv
    BY FS_EmptySet DEF ViewsInit, KernelInit, GraphInv, FiniteGraph, DerivedFrom
  <1> QED BY <1>1, GraphStep

(***************************************************************************)
(* The impact of a retraction is exactly what the dependency graph leads   *)
(* to, and covers every atom that rests on the retracted one, for every    *)
(* finite graph, with or without cycles and whatever the order of the      *)
(* inserts (transitive_dependents, insert_atom, add_conflict).             *)
(***************************************************************************)
THEOREM ImpactComplete == ViewsSpec => []ImpactIsComplete
  <1>1. GraphInv => ImpactIsComplete
    <2> SUFFICES ASSUME GraphInv, NEW a \in AtomId
                 PROVE  /\ TransitiveDependents(a) = Downstream(edges, a)
                        /\ Downstream(DerivedFrom, a) \subseteq TransitiveDependents(a)
      BY DEF ImpactIsComplete
    <2>1. TransitiveDependents(a) = Downstream(edges, a)
      BY TraversalComplete DEF GraphInv
    <2>2. Downstream(DerivedFrom, a) \subseteq Downstream(edges, a)
      BY DownstreamGrows DEF GraphInv
    <2> QED BY <2>1, <2>2
  <1> QED BY <1>1, KernelInvInductive, GraphInvInductive, PTL DEF ViewsSpec

-----------------------------------------------------------------------------
(***************************************************************************)
(* What each event does to the summaries, and what its delta says.         *)
(***************************************************************************)

\* Exactly the summaries that rest on the roots have become stale.
MarkedFrom(v, roots) ==
  /\ DOMAIN views'.summaries = DOMAIN v.summaries
  /\ \A s \in DOMAIN v.summaries :
       /\ views'.summaries[s].deps = v.summaries[s].deps
       /\ s \in StaleBy(v, roots) => views'.summaries[s].stale = TRUE
       /\ s \notin StaleBy(v, roots) => views'.summaries[s] = v.summaries[s]
  /\ StaleBy(v, roots) = {} => views'.summaries = v.summaries
  /\ views'.dependents = v.dependents

Versioned ==
  \A n \in ViewName :
    views'.versions[n] = IF n \in delta'.views THEN sequence' ELSE views.versions[n]

\* Each summary is entered under what it rests on.
SummaryLinks ==
  /\ DOMAIN views.summaries \subseteq DOMAIN atoms
  /\ \A s \in DOMAIN views.summaries :
       views.summaries[s].deps \X {s} \subseteq views.dependents

(* Marking marks exactly the summaries that rest on the roots.             *)
LEMMA MarkExactly ==
  ASSUME NEW v, IsViews(v), NEW roots
  PROVE  LET w == MarkSummariesStale(v, roots) IN
         /\ \A s \in DOMAIN v.summaries :
              /\ s \in StaleBy(v, roots) => w.summaries[s].stale = TRUE
              /\ s \notin StaleBy(v, roots) => w.summaries[s] = v.summaries[s]
         /\ StaleBy(v, roots) = {} => w.summaries = v.summaries
  <1> DEFINE Marked(s) == IF s \in StaleBy(v, roots)
                          THEN [v.summaries[s] EXCEPT !.stale = TRUE]
                          ELSE v.summaries[s]
             marks == [s \in DOMAIN v.summaries |-> Marked(s)]
  <1>1. ASSUME NEW s \in DOMAIN v.summaries, s \in StaleBy(v, roots)
        PROVE  Marked(s).stale = TRUE
    <2>1. v.summaries[s] \in [deps : SUBSET AtomId, stale : BOOLEAN]
      BY DEF IsViews
    <2> QED BY <1>1, <2>1
  <1>2. MarkSummariesStale(v, roots).summaries = marks
    BY DEF MarkSummariesStale, IsViews
  <1>3. StaleBy(v, roots) = {} => marks = v.summaries
    <2> SUFFICES ASSUME StaleBy(v, roots) = {} PROVE marks = v.summaries
      OBVIOUS
    <2>1. \A s \in DOMAIN v.summaries : Marked(s) = v.summaries[s]
      OBVIOUS
    <2>2. v.summaries = [s \in DOMAIN v.summaries |-> v.summaries[s]]
      BY DEF IsViews
    <2> HIDE DEF Marked
    <2> QED BY <2>1, <2>2
  <1>4. \A s \in DOMAIN v.summaries : marks[s] = Marked(s)
    OBVIOUS
  <1>5. \A s \in DOMAIN v.summaries : s \notin StaleBy(v, roots) => Marked(s) = v.summaries[s]
    OBVIOUS
  <1> HIDE DEF marks, Marked
  <1> QED BY <1>1, <1>2, <1>3, <1>4, <1>5

(* The views published are those the event built, with the versions of     *)
(* the views that its delta names.                                         *)
LEMMA PublishedViews ==
  ASSUME NEW v, IsViews(v), v.versions = views.versions, NEW d, Publish(v, d)
  PROVE  /\ views'.found = v.found /\ views'.beliefs = v.beliefs
         /\ views'.disputes = v.disputes /\ views'.trust = v.trust
         /\ views'.summaries = v.summaries /\ views'.dependents = v.dependents
         /\ delta' = d /\ Versioned
  <1> DEFINE versions == [n \in ViewName |-> IF n \in d.views THEN sequence'
                                             ELSE v.versions[n]]
  <1>1. delta' = d /\ views' = [v EXCEPT !.versions = versions]
    BY DEF Publish
  <1>2. \A n \in ViewName :
          versions[n] = IF n \in delta'.views THEN sequence' ELSE views.versions[n]
    BY <1>1
  <1> HIDE DEF versions
  <1>3. /\ views'.found = v.found /\ views'.beliefs = v.beliefs
        /\ views'.disputes = v.disputes /\ views'.trust = v.trust
        /\ views'.summaries = v.summaries /\ views'.dependents = v.dependents
        /\ views'.versions = versions
    BY <1>1 DEF IsViews
  <1> QED BY <1>1, <1>2, <1>3 DEF Versioned

(* And its summaries are those marked.                                     *)
LEMMA PublishedMarks ==
  ASSUME NEW v, NEW u, IsViews(v), v.summaries = u.summaries, v.dependents = u.dependents,
         NEW roots, NEW w, w = MarkSummariesStale(v, roots),
         views'.summaries = w.summaries, views'.dependents = w.dependents
  PROVE  MarkedFrom(u, roots)
  <1>1. StaleBy(v, roots) = StaleBy(u, roots)
    BY DEF StaleBy
  <1>2. /\ w.dependents = v.dependents
        /\ DOMAIN w.summaries = DOMAIN v.summaries
        /\ \A s \in DOMAIN v.summaries : w.summaries[s].deps = v.summaries[s].deps
    BY MarkStaleViews
  <1>3. /\ \A s \in DOMAIN v.summaries :
             /\ s \in StaleBy(v, roots) => w.summaries[s].stale = TRUE
             /\ s \notin StaleBy(v, roots) => w.summaries[s] = v.summaries[s]
        /\ StaleBy(v, roots) = {} => w.summaries = v.summaries
    BY MarkExactly
  <1> QED BY <1>1, <1>2, <1>3 DEF MarkedFrom

LEMMA AtomTells ==
  ASSUME KernelInv', ViewsTypeOK, NEW atom \in Claims,
         NEW time \in 1..MaxTime, AtomInserted(atom, time)
  PROVE  LET indexed == IndexAtom(views, atom)
             stale == StaleBy(indexed, atom.supersedes) IN
         /\ IsViews(indexed)
         /\ views.dependents \subseteq indexed.dependents
         /\ atom.summary => /\ atom.deps \X {atom.id} \subseteq indexed.dependents
                            /\ indexed.summaries = Put(views.summaries, atom.id,
                                 [deps |-> atom.deps, stale |-> FALSE])
         /\ ~atom.summary => indexed.summaries = views.summaries
         /\ MarkedFrom(indexed, atom.supersedes)
         /\ delta'.kind = "AtomInserted"
         /\ delta'.atoms = {atom.id} \cup atom.supersedes
         /\ delta'.stale = stale
         /\ {"Graph", "Beliefs"} \subseteq delta'.views
         /\ atom.sources # {} => "SourceTrust" \in delta'.views
         /\ atom.summary \/ stale # {} => "Summaries" \in delta'.views
         /\ views'.disputes = views.disputes
         /\ atom.sources = {} => views'.trust = views.trust
         /\ \A a \in DOMAIN views'.beliefs \ delta'.atoms :
              a \in DOMAIN views.beliefs /\ views'.beliefs[a] = views.beliefs[a]
         /\ Versioned
  <1> DEFINE indexed == IndexAtom(views, atom)
             replaced == RefreshBeliefs(indexed, atom.supersedes)
             marked == MarkSummariesStale(replaced, atom.supersedes)
             known == atom.supersedes \cap DOMAIN atoms'
             stale == StaleBy(indexed, atom.supersedes)
             named == {"Graph", "Beliefs"}
                         \cup (IF atom.sources # {} THEN {"SourceTrust"} ELSE {})
                         \cup (IF atom.agent # NoAgent THEN {"AgentMemory"} ELSE {})
                         \cup SummariesIf(atom.summary \/ stale # {})
             d == [NoDelta EXCEPT !.kind = "AtomInserted",
                                  !.atoms = {atom.id} \cup atom.supersedes,
                                  !.stale = stale, !.views = named]
  <1>1. atom \in Atom
    BY KernelAssumption
  <1>2. IsViews(views) /\ KernelTypeOK'
    BY DEF ViewsTypeOK, KernelInv
  <1>3. /\ IsViews(indexed)
        /\ indexed.versions = views.versions
        /\ indexed.disputes = views.disputes
        /\ indexed.beliefs = Put(views.beliefs, atom.id, atom.belief)
        /\ DOMAIN indexed.trust = DOMAIN views.trust \cup atom.sources
        /\ views.dependents \subseteq indexed.dependents
        /\ atom.summary => /\ atom.deps \X {atom.id} \subseteq indexed.dependents
                           /\ indexed.summaries = Put(views.summaries, atom.id,
                                [deps |-> atom.deps, stale |-> FALSE])
        /\ ~atom.summary => indexed.summaries = views.summaries
    BY <1>1, <1>2, IndexAtomViews
  <1>4. atom.sources = {} => indexed.trust = views.trust
    <2> SUFFICES ASSUME atom.sources = {} PROVE indexed.trust = views.trust
      OBVIOUS
    <2> DEFINE trust == [s \in DOMAIN views.trust \cup atom.sources |->
                           IF s \in DOMAIN views.trust THEN views.trust[s] ELSE FullTrust]
    <2>1. trust = views.trust
      BY <1>2 DEF IsViews
    <2>2. indexed.trust = trust
      BY <1>2 DEF IndexAtom, IsViews
    <2> QED BY <2>1, <2>2
  <1> HIDE DEF indexed
  <1>5. /\ IsViews(replaced)
        /\ replaced.versions = indexed.versions /\ replaced.disputes = indexed.disputes
        /\ replaced.trust = indexed.trust /\ replaced.dependents = indexed.dependents
        /\ replaced.summaries = indexed.summaries
        /\ DOMAIN replaced.beliefs = DOMAIN indexed.beliefs \cup known
        /\ \A a \in DOMAIN replaced.beliefs :
             replaced.beliefs[a] = IF a \in known THEN atoms'[a].belief
                                   ELSE indexed.beliefs[a]
    BY <1>2, <1>3, RefreshBeliefsViews
  <1> HIDE DEF replaced
  <1>6. /\ IsViews(marked) /\ marked.versions = replaced.versions
        /\ marked.disputes = replaced.disputes /\ marked.trust = replaced.trust
        /\ marked.beliefs = replaced.beliefs
    BY <1>5, MarkStaleViews
  <1>7. Publish(marked, d)
    BY DEF AtomInserted, indexed, replaced, marked
  <1> HIDE DEF d
  <1>8. PICK w : w = marked
    OBVIOUS
  <1>9. IsViews(w) /\ w.versions = views.versions /\ Publish(w, d)
    BY <1>3, <1>5, <1>6, <1>7, <1>8
  <1>10. /\ views'.beliefs = w.beliefs /\ views'.disputes = w.disputes
         /\ views'.trust = w.trust /\ views'.summaries = w.summaries
         /\ views'.dependents = w.dependents
         /\ delta' = d /\ Versioned
    BY <1>9, PublishedViews
  <1>11. MarkedFrom(indexed, atom.supersedes)
    BY <1>5, <1>8, <1>10, PublishedMarks
  <1> HIDE DEF marked
  <1>12. /\ views'.disputes = views.disputes /\ views'.beliefs = replaced.beliefs
         /\ atom.sources = {} => views'.trust = views.trust
    BY <1>3, <1>4, <1>5, <1>6, <1>8, <1>10
  <1>13. /\ d.kind = "AtomInserted" /\ d.atoms = {atom.id} \cup atom.supersedes
         /\ d.stale = stale /\ d.views = named
    <2> HIDE DEF stale, named
    <2> QED BY DEF d, NoDelta
  <1>14. ASSUME NEW a \in DOMAIN views'.beliefs \ delta'.atoms
         PROVE  a \in DOMAIN views.beliefs /\ views'.beliefs[a] = views.beliefs[a]
    <2>1. a # atom.id /\ a \notin known
      BY <1>10, <1>13
    <2>2. a \in DOMAIN indexed.beliefs /\ views'.beliefs[a] = indexed.beliefs[a]
      BY <1>5, <1>12, <2>1
    <2> QED BY <1>3, <2>1, <2>2 DEF Put
  <1>15. /\ {"Graph", "Beliefs"} \subseteq named
         /\ atom.sources # {} => "SourceTrust" \in named
         /\ atom.summary \/ stale # {} => "Summaries" \in named
    <2> HIDE DEF stale
    <2> QED BY DEF SummariesIf
  <1> HIDE DEF stale, named
  <1>16. /\ MarkedFrom(indexed, atom.supersedes)
         /\ delta'.kind = "AtomInserted"
         /\ delta'.atoms = {atom.id} \cup atom.supersedes
         /\ delta'.stale = stale
         /\ {"Graph", "Beliefs"} \subseteq delta'.views
         /\ atom.sources # {} => "SourceTrust" \in delta'.views
         /\ atom.summary \/ stale # {} => "Summaries" \in delta'.views
    BY <1>10, <1>11, <1>13, <1>15
  <1> QED BY <1>3, <1>10, <1>12, <1>14, <1>16 DEF indexed, stale

LEMMA RevisedTells ==
  ASSUME KernelInv', ViewsTypeOK, NEW b \in AtomId, NEW next \in Revised,
         NEW time \in 1..MaxTime, BeliefRevised(b, next, time)
  PROVE  LET stale == StaleBy(views, Affected(b)) IN
         /\ MarkedFrom(views, Affected(b))
         /\ delta'.kind = "BeliefRevised"
         /\ delta'.atoms = {b} /\ delta'.stale = stale
         /\ delta'.risky = {p \in TransitiveDependents(b) \cap DOMAIN atoms : atoms[p].plan}
         /\ "Beliefs" \in delta'.views
         /\ stale # {} => "Summaries" \in delta'.views
         /\ views'.found = views.found /\ views'.disputes = views.disputes
         /\ views'.trust = views.trust
         /\ \A a \in DOMAIN views'.beliefs \ delta'.atoms :
              a \in DOMAIN views.beliefs /\ views'.beliefs[a] = views.beliefs[a]
         /\ Versioned
  <1> DEFINE beliefs == [views.beliefs EXCEPT ![b] = next]
             revised == [views EXCEPT !.beliefs = beliefs]
             marked == MarkSummariesStale(revised, Affected(b))
             impacted == TransitiveDependents(b)
             risky == {p \in impacted \cap DOMAIN atoms : atoms[p].plan}
             stale == StaleBy(views, Affected(b))
             named == {"Beliefs"} \cup SummariesIf(stale # {} \/ risky # {})
             d == [NoDelta EXCEPT !.kind = "BeliefRevised", !.atoms = {b},
                                  !.impacted = impacted, !.risky = risky,
                                  !.stale = stale, !.views = named]
  <1>1. IsViews(views)
    BY DEF ViewsTypeOK
  <1>2. /\ beliefs \in [DOMAIN beliefs -> BeliefState]
        /\ DOMAIN beliefs = DOMAIN views.beliefs
        /\ \A a \in DOMAIN beliefs : a # b => beliefs[a] = views.beliefs[a]
    <2>1. views.beliefs \in [DOMAIN views.beliefs -> BeliefState]  BY <1>1 DEF IsViews
    <2>2. next \in BeliefState  BY KernelAssumption
    <2> QED BY <2>1, <2>2
  <1>3. Publish(marked, d)
    BY DEF BeliefRevised
  <1> HIDE DEF beliefs, d
  <1>4. /\ IsViews(revised)
        /\ revised.versions = views.versions /\ revised.beliefs = beliefs
        /\ revised.found = views.found /\ revised.disputes = views.disputes
        /\ revised.trust = views.trust /\ revised.dependents = views.dependents
        /\ revised.summaries = views.summaries
    BY <1>1, <1>2 DEF IsViews
  <1> HIDE DEF revised
  <1>5. /\ IsViews(marked) /\ marked.versions = revised.versions
        /\ marked.beliefs = revised.beliefs /\ marked.found = revised.found
        /\ marked.disputes = revised.disputes /\ marked.trust = revised.trust
    BY <1>4, MarkStaleViews
  <1>6. PICK w : w = marked
    OBVIOUS
  <1>7. IsViews(w) /\ w.versions = views.versions /\ Publish(w, d)
    BY <1>3, <1>4, <1>5, <1>6
  <1>8. /\ views'.found = w.found /\ views'.beliefs = w.beliefs
        /\ views'.disputes = w.disputes /\ views'.trust = w.trust
        /\ views'.summaries = w.summaries /\ views'.dependents = w.dependents
        /\ delta' = d /\ Versioned
    BY <1>7, PublishedViews
  <1>9. MarkedFrom(views, Affected(b))
    BY <1>4, <1>6, <1>8, PublishedMarks
  <1> HIDE DEF marked
  <1>10. /\ views'.found = views.found /\ views'.disputes = views.disputes
         /\ views'.trust = views.trust /\ views'.beliefs = beliefs
    BY <1>4, <1>5, <1>6, <1>8
  <1>11. /\ d.kind = "BeliefRevised" /\ d.atoms = {b} /\ d.stale = stale
         /\ d.risky = risky /\ d.views = named
    <2> HIDE DEF impacted, stale, named, risky
    <2> QED BY DEF d, NoDelta
  <1>12. "Beliefs" \in named /\ (stale # {} => "Summaries" \in named)
    <2> HIDE DEF stale, risky
    <2> QED BY DEF SummariesIf
  <1> HIDE DEF named, impacted
  <1> QED BY <1>2, <1>8, <1>9, <1>10, <1>11, <1>12 DEF impacted

LEMMA ConflictTells ==
  ASSUME KernelInv', ViewsTypeOK, NEW conflict \in Conflicts, ConflictAdded(conflict)
  PROVE  LET stale == StaleBy(views, conflict) IN
         /\ MarkedFrom(views, conflict)
         /\ delta'.kind = "ConflictAdded"
         /\ delta'.atoms = conflict /\ delta'.stale = stale
         /\ {"Contradictions", "Beliefs"} \subseteq delta'.views
         /\ stale # {} => "Summaries" \in delta'.views
         /\ views'.found = views.found /\ views'.trust = views.trust
         /\ \A a \in DOMAIN views'.beliefs \ delta'.atoms :
              a \in DOMAIN views.beliefs /\ views'.beliefs[a] = views.beliefs[a]
         /\ Versioned
  <1> DEFINE pairs == {<<a, conflict>> : a \in conflict}
             disputed == [views EXCEPT !.disputes = @ \cup pairs]
             refreshed == RefreshBeliefs(disputed, conflict)
             marked == MarkSummariesStale(refreshed, conflict)
             known == conflict \cap DOMAIN atoms'
             stale == StaleBy(views, conflict)
             named == {"Contradictions", "Beliefs"} \cup SummariesIf(stale # {})
             d == [NoDelta EXCEPT !.kind = "ConflictAdded", !.atoms = conflict,
                                  !.stale = stale, !.views = named]
  <1>1. IsViews(views) /\ KernelTypeOK' /\ conflict \subseteq AtomId
    BY KernelAssumption DEF ViewsTypeOK, KernelInv
  <1>2. Publish(marked, d)
    BY DEF ConflictAdded
  <1>3. pairs \subseteq AtomId \X SUBSET AtomId
    BY <1>1
  <1> HIDE DEF pairs, d
  <1>4. /\ IsViews(disputed) /\ disputed.versions = views.versions
        /\ disputed.beliefs = views.beliefs
        /\ disputed.found = views.found /\ disputed.trust = views.trust
        /\ disputed.dependents = views.dependents
        /\ disputed.summaries = views.summaries
    BY <1>1, <1>3 DEF IsViews
  <1> HIDE DEF disputed
  <1>5. /\ IsViews(refreshed) /\ refreshed.versions = disputed.versions
        /\ refreshed.found = disputed.found /\ refreshed.trust = disputed.trust
        /\ refreshed.dependents = disputed.dependents
        /\ refreshed.summaries = disputed.summaries
        /\ DOMAIN refreshed.beliefs = DOMAIN disputed.beliefs \cup known
        /\ \A a \in DOMAIN refreshed.beliefs :
             refreshed.beliefs[a] = IF a \in known THEN atoms'[a].belief
                                    ELSE disputed.beliefs[a]
    BY <1>1, <1>4, RefreshBeliefsViews
  <1> HIDE DEF refreshed
  <1>6. /\ IsViews(marked) /\ marked.versions = refreshed.versions
        /\ marked.beliefs = refreshed.beliefs /\ marked.found = refreshed.found
        /\ marked.trust = refreshed.trust
    BY <1>5, MarkStaleViews
  <1>7. PICK w : w = marked
    OBVIOUS
  <1>8. IsViews(w) /\ w.versions = views.versions /\ Publish(w, d)
    BY <1>2, <1>4, <1>5, <1>6, <1>7
  <1>9. /\ views'.found = w.found /\ views'.beliefs = w.beliefs
        /\ views'.trust = w.trust
        /\ views'.summaries = w.summaries /\ views'.dependents = w.dependents
        /\ delta' = d /\ Versioned
    BY <1>8, PublishedViews
  <1>10. MarkedFrom(views, conflict)
    BY <1>4, <1>5, <1>7, <1>9, PublishedMarks
  <1> HIDE DEF marked
  <1>11. /\ views'.found = views.found /\ views'.trust = views.trust
         /\ views'.beliefs = refreshed.beliefs
    BY <1>4, <1>5, <1>6, <1>7, <1>9
  <1>12. /\ d.kind = "ConflictAdded" /\ d.atoms = conflict /\ d.stale = stale
         /\ d.views = named
    <2> HIDE DEF stale, named
    <2> QED BY DEF d, NoDelta
  <1>13. /\ {"Contradictions", "Beliefs"} \subseteq named
         /\ stale # {} => "Summaries" \in named
    <2> HIDE DEF stale
    <2> QED BY DEF SummariesIf
  <1>14. ASSUME NEW a \in DOMAIN views'.beliefs \ delta'.atoms
         PROVE  a \in DOMAIN views.beliefs /\ views'.beliefs[a] = views.beliefs[a]
    <2>1. a \notin known
      BY <1>9, <1>12
    <2> QED BY <1>4, <1>5, <1>11, <2>1
  <1> HIDE DEF named
  <1> QED BY <1>9, <1>10, <1>11, <1>12, <1>13, <1>14

\* What the events of dependencies, causal links and source trust have in common.
Unmarked ==
  /\ atoms' = atoms
  /\ views'.found = views.found /\ views'.beliefs = views.beliefs
  /\ views'.disputes = views.disputes /\ views'.summaries = views.summaries
  /\ views'.dependents = views.dependents
  /\ views'.trust # views.trust => "SourceTrust" \in delta'.views
  /\ causes' # causes => "Causality" \in delta'.views
  /\ delta'.kind # "BeliefRevised"
  /\ Versioned

LEMMA OtherTells ==
  ASSUME ViewsTypeOK,
         \/ \E link \in Links : DependencyAdded(link[1], link[2])
         \/ \E link \in Causes : CausalAtomInserted(link[1], link[2])
         \/ \E source \in SourceId, score \in Trust : SourceTrustUpdated(source, score)
  PROVE  Unmarked
  <1>1. IsViews(views)
    BY DEF ViewsTypeOK
  <1>2. ASSUME NEW link \in Links, DependencyAdded(link[1], link[2])  PROVE Unmarked
    <2>1. PICK d : Publish(views, d) /\ d.kind = "DependencyAdded"
      <3> DEFINE named == {link[1], link[2]}
                 d == [NoDelta EXCEPT !.kind = "DependencyAdded", !.atoms = named,
                                      !.views = {"Dependencies"}]
      <3>1. Publish(views, d)  BY <1>2 DEF DependencyAdded
      <3> HIDE DEF named
      <3>2. d.kind = "DependencyAdded"  BY DEF NoDelta
      <3> HIDE DEF d
      <3> QED BY <3>1, <3>2
    <2>2. atoms' = atoms /\ causes' = causes
      BY <1>2 DEF DependencyAdded, AddDependency
    <2> QED BY <1>1, <2>1, <2>2, PublishedViews DEF Unmarked
  <1>3. ASSUME NEW link \in Causes, CausalAtomInserted(link[1], link[2])  PROVE Unmarked
    <2>1. PICK d : /\ Publish(views, d) /\ d.kind = "CausalAtomInserted"
                   /\ d.views = {"Causality"}
      <3> DEFINE d == [NoDelta EXCEPT !.kind = "CausalAtomInserted",
                                      !.views = {"Causality"}]
      <3>1. Publish(views, d)  BY <1>3 DEF CausalAtomInserted
      <3>2. d.kind = "CausalAtomInserted" /\ d.views = {"Causality"}  BY DEF NoDelta
      <3> HIDE DEF d
      <3> QED BY <3>1, <3>2
    <2>2. atoms' = atoms
      BY <1>3 DEF CausalAtomInserted, InsertCause
    <2> QED BY <1>1, <2>1, <2>2, PublishedViews DEF Unmarked
  <1>4. ASSUME NEW source \in SourceId, NEW score \in Trust, SourceTrustUpdated(source, score)
        PROVE  Unmarked
    <2> DEFINE trust == Put(views.trust, source, score)
               rated == [views EXCEPT !.trust = trust]
    <2>1. PICK d : /\ Publish(rated, d) /\ d.kind = "SourceTrustUpdated"
                   /\ d.views = {"SourceTrust"}
      <3> DEFINE d == [NoDelta EXCEPT !.kind = "SourceTrustUpdated",
                                      !.views = {"SourceTrust"}]
      <3>1. Publish(rated, d)  BY <1>4 DEF SourceTrustUpdated
      <3>2. d.kind = "SourceTrustUpdated" /\ d.views = {"SourceTrust"}  BY DEF NoDelta
      <3> HIDE DEF d, rated
      <3> QED BY <3>1, <3>2
    <2>2. atoms' = atoms /\ causes' = causes
      BY <1>4 DEF SourceTrustUpdated, kernelVars
    <2>3. trust \in [DOMAIN trust -> Trust]
      BY <1>1 DEF IsViews, Put
    <2> HIDE DEF trust
    <2>4. /\ IsViews(rated) /\ rated.versions = views.versions
          /\ rated.found = views.found /\ rated.beliefs = views.beliefs
          /\ rated.disputes = views.disputes /\ rated.summaries = views.summaries
          /\ rated.dependents = views.dependents
      BY <1>1, <2>3 DEF IsViews
    <2> HIDE DEF rated
    <2> QED BY <2>1, <2>2, <2>4, PublishedViews DEF Unmarked
  <1> QED BY <1>2, <1>3, <1>4

-----------------------------------------------------------------------------
(***************************************************************************)
(* The links of the summaries.                                             *)
(***************************************************************************)

(* Marking keeps the summaries linked to what they rest on.                *)
LEMMA MarkedLinks ==
  ASSUME NEW v, NEW roots, MarkedFrom(v, roots), DOMAIN v.summaries \subseteq DOMAIN atoms',
         \A s \in DOMAIN v.summaries : v.summaries[s].deps \X {s} \subseteq v.dependents
  PROVE  SummaryLinks'
  BY DEF MarkedFrom, SummaryLinks

LEMMA LinksStep ==
  ASSUME KernelInv, KernelInv', ViewsTypeOK, SummaryLinks, [ViewsNext]_vars
  PROVE  SummaryLinks'
  <1>1. ASSUME NEW atom \in Claims, NEW time \in 1..MaxTime, AtomInserted(atom, time)
        PROVE  SummaryLinks'
    <2> DEFINE indexed == IndexAtom(views, atom)
    <2>1. /\ views.dependents \subseteq indexed.dependents
          /\ atom.summary => /\ atom.deps \X {atom.id} \subseteq indexed.dependents
                             /\ indexed.summaries = Put(views.summaries, atom.id,
                                  [deps |-> atom.deps, stale |-> FALSE])
          /\ ~atom.summary => indexed.summaries = views.summaries
          /\ MarkedFrom(indexed, atom.supersedes)
      BY <1>1, AtomTells
    <2>2. DOMAIN atoms \cup {atom.id} \subseteq DOMAIN atoms'
      BY <1>1 DEF AtomInserted, InsertAtom, Put
    <2> HIDE DEF indexed
    <2>3. /\ DOMAIN indexed.summaries \subseteq DOMAIN atoms'
          /\ \A s \in DOMAIN indexed.summaries :
               indexed.summaries[s].deps \X {s} \subseteq indexed.dependents
      <3>1. CASE atom.summary
        <4>1. /\ DOMAIN indexed.summaries = DOMAIN views.summaries \cup {atom.id}
              /\ \A s \in DOMAIN indexed.summaries :
                   indexed.summaries[s].deps
                     = IF s = atom.id THEN atom.deps ELSE views.summaries[s].deps
          BY <2>1, <3>1 DEF Put
        <4> QED BY <2>1, <2>2, <3>1, <4>1 DEF SummaryLinks
      <3>2. CASE ~atom.summary
        BY <2>1, <2>2, <3>2 DEF SummaryLinks
      <3> QED BY <3>1, <3>2
    <2> QED BY <2>1, <2>3, MarkedLinks
  <1>2. ASSUME NEW b \in AtomId, NEW next \in Revised, NEW time \in 1..MaxTime,
               BeliefRevised(b, next, time)
        PROVE  SummaryLinks'
    <2>1. MarkedFrom(views, Affected(b))
      BY <1>2, RevisedTells
    <2>2. DOMAIN atoms' = DOMAIN atoms
      BY <1>2 DEF BeliefRevised, ReviseBelief
    <2> QED BY <2>1, <2>2, MarkedLinks DEF SummaryLinks
  <1>3. ASSUME NEW conflict \in Conflicts, ConflictAdded(conflict)
        PROVE  SummaryLinks'
    <2>1. MarkedFrom(views, conflict)
      BY <1>3, ConflictTells
    <2>2. DOMAIN atoms' = DOMAIN atoms
      BY <1>3 DEF ConflictAdded, AddConflict
    <2> QED BY <2>1, <2>2, MarkedLinks DEF SummaryLinks
  <1>4. CASE \/ \E link \in Links : DependencyAdded(link[1], link[2])
             \/ \E link \in Causes : CausalAtomInserted(link[1], link[2])
             \/ \E source \in SourceId, score \in Trust : SourceTrustUpdated(source, score)
    BY <1>4, OtherTells DEF Unmarked, SummaryLinks
  <1>5. CASE UNCHANGED vars
    BY <1>5 DEF vars, kernelVars, SummaryLinks
  <1> QED BY <1>1, <1>2, <1>3, <1>4, <1>5 DEF ViewsNext

LEMMA LinksInductive ==
  /\ ViewsInit => SummaryLinks
  /\ KernelInv /\ KernelInv' /\ ViewsTypeOK /\ SummaryLinks /\ [ViewsNext]_vars => SummaryLinks'
  <1>1. ViewsInit => SummaryLinks
    BY DEF ViewsInit, SummaryLinks
  <1> QED BY <1>1, LinksStep

(* What is downstream of a node is a successor of it, or of such a node.   *)
LEMMA LastStep ==
  ASSUME NEW rel, rel \subseteq AtomId \X AtomId, NEW root, NEW s \in Downstream(rel, root)
  PROVE  \E d \in {root} \cup Downstream(rel, root) : <<d, s>> \in rel
  <1> SUFFICES ASSUME \A d \in {root} \cup Downstream(rel, root) : <<d, s>> \notin rel
               PROVE  FALSE
    OBVIOUS
  <1> DEFINE D == Downstream(rel, root)
             S == D \ {s}
  <1>1. D \in SUBSET AtomId /\ S \in SUBSET AtomId
    BY DEF Downstream
  <1>2. ASSUME NEW e \in rel, e[1] \in {root} \cup D  PROVE e[2] \in D
    <2> SUFFICES ASSUME NEW T \in SUBSET AtomId,
                        \A f \in rel : f[1] \in {root} \cup T => f[2] \in T
                 PROVE  e[2] \in T
      BY DEF Downstream
    <2>1. e[1] \in {root} \cup T
      BY <1>2 DEF Downstream
    <2> QED BY <2>1
  <1>3. ASSUME NEW e \in rel, e[1] \in {root} \cup S  PROVE e[2] \in S
    <2>1. e = <<e[1], e[2]>>
      OBVIOUS
    <2>2. e[1] \in {root} \cup D
      BY <1>3
    <2>3. e[2] # s
      BY <2>1, <2>2
    <2> QED BY <1>2, <2>2, <2>3
  <1>4. s \in S
    <2> HIDE DEF S
    <2> QED BY <1>1, <1>3 DEF Downstream
  <1> QED BY <1>4

(* A summary downstream of an atom, by the atoms' own dependencies, rests  *)
(* on something that a revision of the atom affects.                       *)
LEMMA DownstreamStale ==
  ASSUME KernelInv, GraphInv, ViewsMatchKernel, NEW a \in AtomId,
         NEW s \in Downstream(DerivedFrom, a), s \in DOMAIN atoms, atoms[s].summary
  PROVE  s \in StaleBy(views, Affected(a))
  <1>1. DerivedFrom \subseteq AtomId \X AtomId
    BY DEF KernelInv, KernelTypeOK, DerivedFrom, Atom
  <1>2. PICK d \in {a} \cup Downstream(DerivedFrom, a) : <<d, s>> \in DerivedFrom
    BY <1>1, LastStep
  <1>3. d \in atoms[s].deps
    BY <1>2 DEF DerivedFrom
  <1>4. <<d, s>> \in views.dependents /\ s \in AtomId
    BY <1>3 DEF ViewsMatchKernel, Downstream
  <1>5. d \in Affected(a)
    <2>1. Downstream(DerivedFrom, a) \subseteq Downstream(edges, a)
      BY DownstreamGrows DEF GraphInv
    <2>2. TransitiveDependents(a) = Downstream(edges, a)
      BY TraversalComplete DEF GraphInv
    <2> QED BY <1>2, <2>1, <2>2 DEF Affected
  <1> QED BY <1>4, <1>5 DEF StaleBy

-----------------------------------------------------------------------------
(***************************************************************************)
(* Summaries and deltas.                                                   *)
(***************************************************************************)

(* What marking leaves fresh was fresh and rests on no root.               *)
LEMMA StillFresh ==
  ASSUME NEW v, NEW roots, MarkedFrom(v, roots), NEW s \in DOMAIN v.summaries,
         Fresh(views', s)
  PROVE  s \notin StaleBy(v, roots) /\ views'.summaries[s] = v.summaries[s]
  BY DEF MarkedFrom, Fresh

\* What every event keeps true of the summaries and atoms of before.
Honest ==
  \A s \in DOMAIN views.summaries :
    /\ Fresh(views, s) /\ Fresh(views', s) =>
         \A d \in views.summaries[s].deps \cap DOMAIN atoms :
           atoms'[d].belief = atoms[d].belief \/ Replaced(d) \/ Replaced(s)
    /\ delta'.kind = "BeliefRevised" /\ atoms[s].summary
         /\ (\E a \in delta'.atoms : s \in Downstream(DerivedFrom, a))
         => ~Fresh(views', s)
    /\ ~Fresh(views, s) /\ Fresh(views', s) => Replaced(s)

LEMMA StepIsHonest ==
  ASSUME KernelInv, KernelInv', GraphInv, ViewsTypeOK, ViewsMatchKernel, SummaryLinks,
         ViewsNext
  PROVE  Honest
  <1>0. DOMAIN views.summaries \subseteq DOMAIN atoms /\ DOMAIN atoms \subseteq AtomId
    BY DEF SummaryLinks, KernelInv, KernelTypeOK
  <1>1. ASSUME NEW atom \in Claims, NEW time \in 1..MaxTime, AtomInserted(atom, time)
        PROVE  Honest
    <2> DEFINE indexed == IndexAtom(views, atom)
    <2>1. /\ views.dependents \subseteq indexed.dependents
          /\ atom.summary => indexed.summaries = Put(views.summaries, atom.id,
                                [deps |-> atom.deps, stale |-> FALSE])
          /\ ~atom.summary => indexed.summaries = views.summaries
          /\ MarkedFrom(indexed, atom.supersedes)
          /\ delta'.kind = "AtomInserted"
      BY <1>1, AtomTells
    <2>2. Replaced(atom.id)
      BY <1>1 DEF AtomInserted, Replaced
    <2> HIDE DEF indexed
    <2>3. ASSUME NEW s \in DOMAIN views.summaries, s # atom.id
          PROVE  s \in DOMAIN indexed.summaries /\ indexed.summaries[s] = views.summaries[s]
      BY <2>1, <2>3 DEF Put
    <2>4. ASSUME NEW d \in DOMAIN atoms, d # atom.id, d \notin atom.supersedes
          PROVE  atoms'[d] = atoms[d]
      BY <1>1, <2>4 DEF AtomInserted, InsertAtom, Put
    <2>5. ASSUME NEW s \in DOMAIN views.summaries, Fresh(views', s), ~Replaced(s)
          PROVE  /\ Fresh(views, s)
                 /\ \A d \in views.summaries[s].deps \cap DOMAIN atoms :
                      atoms'[d].belief = atoms[d].belief \/ Replaced(d)
      <3>1. s # atom.id
        BY <2>2, <2>5
      <3>2. s \notin StaleBy(indexed, atom.supersedes)
            /\ views'.summaries[s] = views.summaries[s]
        BY <2>1, <2>3, <2>5, <3>1, StillFresh
      <3>3. ASSUME NEW d \in views.summaries[s].deps \cap DOMAIN atoms, ~Replaced(d)
            PROVE  atoms'[d].belief = atoms[d].belief
        <4>1. d # atom.id
          BY <2>2, <3>3
        <4>2. <<d, s>> \in indexed.dependents
          BY <2>1 DEF SummaryLinks
        <4>3. d \notin atom.supersedes
          BY <1>0, <3>2, <4>2 DEF StaleBy
        <4> QED BY <2>4, <4>1, <4>3
      <3> QED BY <2>5, <3>2, <3>3 DEF Fresh
    <2> QED BY <2>1, <2>5 DEF Honest
  <1>2. ASSUME NEW b \in AtomId, NEW next \in Revised, NEW time \in 1..MaxTime,
               BeliefRevised(b, next, time)
        PROVE  Honest
    <2>1. /\ MarkedFrom(views, Affected(b))
          /\ delta'.kind = "BeliefRevised" /\ delta'.atoms = {b}
      BY <1>2, RevisedTells
    <2>2. ASSUME NEW d \in DOMAIN atoms, d # b
          PROVE  atoms'[d] = atoms[d]
      BY <1>2, <2>2 DEF BeliefRevised, ReviseBelief
    <2>3. ASSUME NEW s \in DOMAIN views.summaries, Fresh(views', s)
          PROVE  /\ Fresh(views, s)
                 /\ s \notin StaleBy(views, Affected(b))
      BY <2>1, <2>3, StillFresh DEF Fresh
    <2>4. ASSUME NEW s \in DOMAIN views.summaries, Fresh(views', s),
                 NEW d \in views.summaries[s].deps \cap DOMAIN atoms
          PROVE  atoms'[d].belief = atoms[d].belief
      <3>1. <<d, s>> \in views.dependents
        BY DEF SummaryLinks
      <3>2. d # b
        BY <1>0, <2>3, <2>4, <3>1 DEF StaleBy, Affected
      <3> QED BY <2>2, <3>2
    <2>5. ASSUME NEW s \in DOMAIN views.summaries, atoms[s].summary,
                 NEW a \in delta'.atoms, s \in Downstream(DerivedFrom, a)
          PROVE  ~Fresh(views', s)
      BY <1>0, <2>1, <2>3, <2>5, DownstreamStale
    <2> QED BY <2>3, <2>4, <2>5 DEF Honest
  <1>3. ASSUME NEW conflict \in Conflicts, ConflictAdded(conflict)
        PROVE  Honest
    <2>1. MarkedFrom(views, conflict) /\ delta'.kind = "ConflictAdded"
      BY <1>3, ConflictTells
    <2>2. ASSUME NEW d \in DOMAIN atoms, d \notin conflict
          PROVE  atoms'[d] = atoms[d]
      BY <1>3, <2>2 DEF ConflictAdded, AddConflict
    <2>3. ASSUME NEW s \in DOMAIN views.summaries, Fresh(views', s)
          PROVE  Fresh(views, s) /\ s \notin StaleBy(views, conflict)
      BY <2>1, <2>3, StillFresh DEF Fresh
    <2>4. ASSUME NEW s \in DOMAIN views.summaries, Fresh(views', s),
                 NEW d \in views.summaries[s].deps \cap DOMAIN atoms
          PROVE  atoms'[d].belief = atoms[d].belief
      <3>1. <<d, s>> \in views.dependents
        BY DEF SummaryLinks
      <3>2. d \notin conflict
        BY <1>0, <2>3, <2>4, <3>1 DEF StaleBy
      <3> QED BY <2>2, <3>2
    <2> QED BY <2>1, <2>3, <2>4 DEF Honest
  <1>4. CASE \/ \E link \in Links : DependencyAdded(link[1], link[2])
             \/ \E link \in Causes : CausalAtomInserted(link[1], link[2])
             \/ \E source \in SourceId, score \in Trust : SourceTrustUpdated(source, score)
    BY <1>4, OtherTells DEF Unmarked, Honest, Fresh
  <1> QED BY <1>1, <1>2, <1>3, <1>4 DEF ViewsNext

(* A summary that stays fresh over an event rests on nothing whose belief  *)
(* the event changed, a revision reaches the summaries of all that is      *)
(* derived from the revised atom, and only a summary that is inserted      *)
(* again becomes fresh: mark_summaries_stale and belief_revised.           *)
THEOREM SummariesStayHonest == ViewsSpec => SummariesGoStale
  <1> DEFINE Body ==
        \A s \in DOMAIN views.summaries :
          /\ Fresh(views, s) /\ Fresh(views', s) =>
               \A d \in views.summaries[s].deps \cap DOMAIN atoms :
                 atoms'[d].belief = atoms[d].belief \/ Replaced(d) \/ Replaced(s)
          /\ delta'.kind = "BeliefRevised" /\ atoms[s].summary
               /\ (\E a \in delta'.atoms : s \in Downstream(DerivedFrom, a))
               => ~Fresh(views', s)
          /\ ~Fresh(views, s) /\ Fresh(views', s) => Replaced(s)
  <1>1. KernelInv /\ KernelInv' /\ GraphInv /\ ViewsTypeOK /\ ViewsMatchKernel
          /\ SummaryLinks /\ [ViewsNext]_vars => [Body]_vars
    <2> SUFFICES ASSUME KernelInv, KernelInv', GraphInv, ViewsTypeOK, ViewsMatchKernel,
                        SummaryLinks, ViewsNext
                 PROVE  Body
      OBVIOUS
    <2> QED BY StepIsHonest DEF Honest
  <1> QED BY <1>1, KernelInvInductive, GraphInvInductive, LinksInductive, ViewsTypeCorrect,
             ViewsAgree, PTL DEF ViewsSpec, SummariesGoStale

\* What an event leaves unnamed it left unchanged.
Told ==
  /\ views'.found # views.found => "Graph" \in delta'.views
  /\ views'.disputes # views.disputes => "Contradictions" \in delta'.views
  /\ views'.summaries # views.summaries => "Summaries" \in delta'.views
  /\ views'.trust # views.trust => "SourceTrust" \in delta'.views
  /\ views'.beliefs # views.beliefs => "Beliefs" \in delta'.views
  /\ causes' # causes => "Causality" \in delta'.views
  /\ Versioned
  /\ \A a \in DOMAIN views'.beliefs \ delta'.atoms :
       a \in DOMAIN views.beliefs /\ views'.beliefs[a] = views.beliefs[a]
  /\ \A s \in DOMAIN views.summaries :
       Fresh(views, s) /\ ~Fresh(views', s) => s \in delta'.stale
  /\ delta'.kind = "BeliefRevised" =>
       \A a \in delta'.atoms :
         \A p \in Downstream(DerivedFrom, a) \cap DOMAIN atoms :
           atoms[p].plan => p \in delta'.risky

LEMMA StepIsTold ==
  ASSUME KernelInv, KernelInv', GraphInv, ViewsTypeOK, ViewsNext
  PROVE  Told
  <1>1. ASSUME NEW atom \in Claims, NEW time \in 1..MaxTime, AtomInserted(atom, time)
        PROVE  Told
    <2> DEFINE indexed == IndexAtom(views, atom)
               stale == StaleBy(indexed, atom.supersedes)
    <2>1. /\ atom.summary => indexed.summaries = Put(views.summaries, atom.id,
                                [deps |-> atom.deps, stale |-> FALSE])
          /\ ~atom.summary => indexed.summaries = views.summaries
          /\ MarkedFrom(indexed, atom.supersedes)
          /\ delta'.kind = "AtomInserted" /\ delta'.stale = stale
          /\ {"Graph", "Beliefs"} \subseteq delta'.views
          /\ atom.sources # {} => "SourceTrust" \in delta'.views
          /\ atom.summary \/ stale # {} => "Summaries" \in delta'.views
          /\ views'.disputes = views.disputes
          /\ atom.sources = {} => views'.trust = views.trust
          /\ \A a \in DOMAIN views'.beliefs \ delta'.atoms :
               a \in DOMAIN views.beliefs /\ views'.beliefs[a] = views.beliefs[a]
          /\ Versioned
      BY <1>1, AtomTells
    <2>2. causes' = causes
      BY <1>1 DEF AtomInserted, InsertAtom
    <2> HIDE DEF indexed
    <2>3. views'.summaries # views.summaries => "Summaries" \in delta'.views
      BY <2>1 DEF MarkedFrom
    <2>4. ASSUME NEW s \in DOMAIN views.summaries, Fresh(views, s), s \notin delta'.stale
          PROVE  Fresh(views', s)
      <3>1. /\ s \in DOMAIN indexed.summaries
            /\ s \notin StaleBy(indexed, atom.supersedes)
            /\ ~indexed.summaries[s].stale
        BY <2>1, <2>4 DEF Fresh, Put
      <3> QED BY <2>1, <3>1 DEF MarkedFrom, Fresh
    <2> QED BY <2>1, <2>2, <2>3, <2>4 DEF Told
  <1>2. ASSUME NEW b \in AtomId, NEW next \in Revised, NEW time \in 1..MaxTime,
               BeliefRevised(b, next, time)
        PROVE  Told
    <2> DEFINE stale == StaleBy(views, Affected(b))
    <2>1. /\ MarkedFrom(views, Affected(b))
          /\ delta'.kind = "BeliefRevised"
          /\ delta'.atoms = {b} /\ delta'.stale = stale
          /\ delta'.risky = {p \in TransitiveDependents(b) \cap DOMAIN atoms : atoms[p].plan}
          /\ "Beliefs" \in delta'.views
          /\ stale # {} => "Summaries" \in delta'.views
          /\ views'.found = views.found /\ views'.disputes = views.disputes
          /\ views'.trust = views.trust
          /\ \A a \in DOMAIN views'.beliefs \ delta'.atoms :
               a \in DOMAIN views.beliefs /\ views'.beliefs[a] = views.beliefs[a]
          /\ Versioned
      BY <1>2, RevisedTells
    <2>2. causes' = causes
      BY <1>2 DEF BeliefRevised, ReviseBelief
    <2>3. views'.summaries # views.summaries => "Summaries" \in delta'.views
      BY <2>1 DEF MarkedFrom
    <2>4. \A s \in DOMAIN views.summaries :
            Fresh(views, s) /\ ~Fresh(views', s) => s \in delta'.stale
      BY <2>1 DEF MarkedFrom, Fresh
    <2>5. Downstream(DerivedFrom, b) \subseteq TransitiveDependents(b)
      <3>1. Downstream(DerivedFrom, b) \subseteq Downstream(edges, b)
        BY DownstreamGrows DEF GraphInv
      <3>2. TransitiveDependents(b) = Downstream(edges, b)
        BY TraversalComplete DEF GraphInv
      <3> QED BY <3>1, <3>2
    <2>6. \A a \in delta'.atoms :
            \A p \in Downstream(DerivedFrom, a) \cap DOMAIN atoms :
              atoms[p].plan => p \in delta'.risky
      BY <2>1, <2>5
    <2> QED BY <2>1, <2>2, <2>3, <2>4, <2>6 DEF Told
  <1>3. ASSUME NEW conflict \in Conflicts, ConflictAdded(conflict)
        PROVE  Told
    <2> DEFINE stale == StaleBy(views, conflict)
    <2>1. /\ MarkedFrom(views, conflict)
          /\ delta'.kind = "ConflictAdded" /\ delta'.stale = stale
          /\ {"Contradictions", "Beliefs"} \subseteq delta'.views
          /\ stale # {} => "Summaries" \in delta'.views
          /\ views'.found = views.found /\ views'.trust = views.trust
          /\ \A a \in DOMAIN views'.beliefs \ delta'.atoms :
               a \in DOMAIN views.beliefs /\ views'.beliefs[a] = views.beliefs[a]
          /\ Versioned
      BY <1>3, ConflictTells
    <2>2. causes' = causes
      BY <1>3 DEF ConflictAdded, AddConflict
    <2>3. views'.summaries # views.summaries => "Summaries" \in delta'.views
      BY <2>1 DEF MarkedFrom
    <2>4. \A s \in DOMAIN views.summaries :
            Fresh(views, s) /\ ~Fresh(views', s) => s \in delta'.stale
      BY <2>1 DEF MarkedFrom, Fresh
    <2> QED BY <2>1, <2>2, <2>3, <2>4 DEF Told
  <1>4. CASE \/ \E link \in Links : DependencyAdded(link[1], link[2])
             \/ \E link \in Causes : CausalAtomInserted(link[1], link[2])
             \/ \E source \in SourceId, score \in Trust : SourceTrustUpdated(source, score)
    BY <1>4, OtherTells DEF Unmarked, Told, Fresh
  <1> QED BY <1>1, <1>2, <1>3, <1>4 DEF ViewsNext

(* Whatever an event changed in the views is named in the delta that       *)
(* apply_event returns, with every summary that went stale and every plan  *)
(* downstream of a revised atom, and exactly the named views carry its     *)
(* number.                                                                 *)
THEOREM DeltasLeaveNothingOut == ViewsSpec => DeltaTellsAll
  <1> DEFINE Body ==
        /\ views'.found # views.found => "Graph" \in delta'.views
        /\ views'.disputes # views.disputes => "Contradictions" \in delta'.views
        /\ views'.summaries # views.summaries => "Summaries" \in delta'.views
        /\ views'.trust # views.trust => "SourceTrust" \in delta'.views
        /\ views'.beliefs # views.beliefs => "Beliefs" \in delta'.views
        /\ causes' # causes => "Causality" \in delta'.views
        /\ \A n \in ViewName :
             views'.versions[n] = IF n \in delta'.views THEN sequence'
                                  ELSE views.versions[n]
        /\ \A a \in DOMAIN views'.beliefs \ delta'.atoms :
             a \in DOMAIN views.beliefs /\ views'.beliefs[a] = views.beliefs[a]
        /\ \A s \in DOMAIN views.summaries :
             Fresh(views, s) /\ ~Fresh(views', s) => s \in delta'.stale
        /\ delta'.kind = "BeliefRevised" =>
             \A a \in delta'.atoms :
               \A p \in Downstream(DerivedFrom, a) \cap DOMAIN atoms :
                 atoms[p].plan => p \in delta'.risky
  <1>1. KernelInv /\ KernelInv' /\ GraphInv /\ ViewsTypeOK /\ [ViewsNext]_vars
          => [Body]_vars
    <2> SUFFICES ASSUME KernelInv, KernelInv', GraphInv, ViewsTypeOK, ViewsNext
                 PROVE  Body
      OBVIOUS
    <2> QED BY StepIsTold DEF Told, Versioned
  <1> QED BY <1>1, KernelInvInductive, GraphInvInductive, ViewsTypeCorrect, PTL
          DEF ViewsSpec, DeltaTellsAll

=============================================================================
