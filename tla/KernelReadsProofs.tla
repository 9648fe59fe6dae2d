--------------------------- MODULE KernelReadsProofs ---------------------------
(***************************************************************************)
(* What holds of the kernel's answers for every set of atoms and links and *)
(* every order of calls, revisions that are stamped in the past included:  *)
(* the types, that traces and causal paths agree from either end, that the *)
(* native engine finds what a scan finds, that a context declares what it  *)
(* leaves out and that a full run of the revision jobs sees all.           *)
(***************************************************************************)
EXTENDS MaintainedViewsProofs, QueryVm, ModelContext, SelfRevision

-----------------------------------------------------------------------------
(***************************************************************************)
(* Ranks: in a finite set that is put in order, each place up to its size  *)
(* is taken by exactly one member.                                         *)
(***************************************************************************)
\* Of each member of S, the members that come before it.
Orders(before, S) ==
  /\ before \in [S -> SUBSET S]
  /\ \A x \in S : x \notin before[x]
  /\ \A x, y \in S : x = y \/ x \in before[y] \/ y \in before[x]
  /\ \A x, y \in S : x \in before[y] => before[x] \subseteq before[y]

LEMMA RankOnto ==
  ASSUME NEW S, IsFiniteSet(S), NEW before, Orders(before, S)
  PROVE  /\ Cardinality(S) \in Nat
         /\ \A x \in S : Cardinality(before[x]) \in 0..(Cardinality(S) - 1)
         /\ \A x, y \in S : Cardinality(before[x]) = Cardinality(before[y]) => x = y
         /\ \A n \in 0..(Cardinality(S) - 1) : \E x \in S : Cardinality(before[x]) = n
  <1>1. Cardinality(S) \in Nat
    BY FS_CardinalityType
  <1>2. ASSUME NEW x \in S
        PROVE  IsFiniteSet(before[x]) /\ Cardinality(before[x]) \in 0..(Cardinality(S) - 1)
    <2>1. before[x] \in SUBSET S /\ before[x] # S
      BY DEF Orders
    <2>2. /\ IsFiniteSet(before[x]) /\ Cardinality(before[x]) \in Nat
          /\ Cardinality(before[x]) <= Cardinality(S)
          /\ Cardinality(before[x]) # Cardinality(S)
      BY <2>1, FS_Subset, FS_CardinalityType
    <2> QED BY <1>1, <2>2
  <1>3. ASSUME NEW x \in S, NEW y \in S, x \in before[y]
        PROVE  Cardinality(before[x]) < Cardinality(before[y])
    <2>1. before[x] \in SUBSET before[y] /\ before[x] # before[y]
      BY <1>3 DEF Orders
    <2>2. /\ Cardinality(before[x]) <= Cardinality(before[y])
          /\ Cardinality(before[x]) # Cardinality(before[y])
      BY <1>2, <2>1, FS_Subset
    <2> QED BY <1>2, <2>2
  <1>4. ASSUME NEW x \in S, NEW y \in S, Cardinality(before[x]) = Cardinality(before[y])
        PROVE  x = y
    <2>1. x = y \/ x \in before[y] \/ y \in before[x]
      BY DEF Orders
    <2> QED BY <1>2, <1>3, <1>4, <2>1
  <1> DEFINE Places == 0..(Cardinality(S) - 1)
             rank == [x \in S |-> Cardinality(before[x])]
  <1>5. rank \in Injection(S, Places)
    BY <1>2, <1>4 DEF Injection, IsInjective
  <1>6. IsFiniteSet(Places) /\ Cardinality(Places) = Cardinality(S)
    BY <1>1, FS_Interval
  <1>7. rank \in Surjection(S, Places)
    <2> HIDE DEF rank, Places
    <2> QED BY <1>5, <1>6, FS_Injection
  <1>8. \A n \in Places : \E x \in S : rank[x] = n
    <2> HIDE DEF rank, Places
    <2> QED BY <1>7 DEF Surjection
  <1> QED BY <1>1, <1>2, <1>4, <1>8
-----------------------------------------------------------------------------
(***************************************************************************)
(* The kernel under any calls.                                             *)
(***************************************************************************)

(* Sorting revisions by time, however they are stamped, only moves them.   *)
LEMMA SortedType ==
  ASSUME NEW recs \in Seq(Revision)
  PROVE  SortedByTime(recs) \in Seq(Revision)
  <1> DEFINE Before(i) == {j \in DOMAIN recs :
                             \/ recs[j].at < recs[i].at
                             \/ recs[j].at = recs[i].at /\ j < i}
             Upto(i) == {j \in DOMAIN recs :
                             \/ recs[j].at < recs[i].at
                             \/ recs[j].at = recs[i].at /\ j <= i}
             before == [i \in DOMAIN recs |-> Before(i)]
  <1>1. DOMAIN recs = 1..Len(recs) /\ Len(recs) \in Nat
    OBVIOUS
  <1>2. IsFiniteSet(DOMAIN recs) /\ Cardinality(DOMAIN recs) = Len(recs)
    BY <1>1, FS_Interval
  <1>3. \A j \in DOMAIN recs : recs[j].at \in Nat /\ j \in Nat
    BY RevisionAt
  <1>4. Orders(before, DOMAIN recs)
    <2>1. /\ before \in [DOMAIN recs -> SUBSET DOMAIN recs]
          /\ \A x \in DOMAIN recs : before[x] = Before(x)
      OBVIOUS
    <2>2. \A x \in DOMAIN recs : x \notin Before(x)
      BY <1>3
    <2>3. \A x, y \in DOMAIN recs : x = y \/ x \in Before(y) \/ y \in Before(x)
      BY <1>3
    <2>4. \A x, y \in DOMAIN recs : x \in Before(y) => Before(x) \subseteq Before(y)
      BY <1>3
    <2> HIDE DEF Before, before
    <2> QED BY <2>1, <2>2, <2>3, <2>4 DEF Orders
  <1>5. ASSUME NEW i \in DOMAIN recs
        PROVE  Cardinality(Upto(i)) = Cardinality(before[i]) + 1
    <2>1. Upto(i) = Before(i) \cup {i} /\ i \notin Before(i) /\ Before(i) \in SUBSET DOMAIN recs
      BY <1>3
    <2>2. IsFiniteSet(Before(i))
      <3> HIDE DEF Before
      <3> QED BY <1>2, <2>1, FS_Subset
    <2>3. before[i] = Before(i)
      OBVIOUS
    <2> HIDE DEF Before, Upto, before
    <2> QED BY <2>1, <2>2, <2>3, FS_AddElement
  <1> HIDE DEF before
  <1>6. \A n \in 0..(Len(recs) - 1) : \E x \in DOMAIN recs : Cardinality(before[x]) = n
    <2> DEFINE D == DOMAIN recs
    <2>1. IsFiniteSet(D) /\ Orders(before, D) /\ Cardinality(D) = Len(recs)
      BY <1>2, <1>4
    <2>2. \A n \in 0..(Cardinality(D) - 1) : \E x \in D : Cardinality(before[x]) = n
      <3> HIDE DEF D
      <3>1. IsFiniteSet(D)
        BY <2>1
      <3>2. Orders(before, D)
        BY <2>1
      <3>3. Cardinality(D) \in Nat
        BY <3>1, <3>2, RankOnto
      <3>4. \A x, y \in D : Cardinality(before[x]) = Cardinality(before[y]) => x = y
        BY <3>1, <3>2, RankOnto
      <3> QED BY <3>1, <3>2, RankOnto
    <2> QED BY <2>1, <2>2
  <1>7. ASSUME NEW r \in DOMAIN recs
        PROVE  (CHOOSE i \in DOMAIN recs : Cardinality(Upto(i)) = r) \in DOMAIN recs
    <2>1. r - 1 \in 0..(Len(recs) - 1)
      BY <1>1
    <2>2. PICK x \in DOMAIN recs : Cardinality(before[x]) = r - 1
      BY <1>6, <2>1
    <2>3. Cardinality(Upto(x)) = r
      BY <1>1, <1>5, <2>2
    <2> HIDE DEF Upto
    <2> QED BY <2>3
  <1>8. SortedByTime(recs) =
          [r \in DOMAIN recs |-> recs[CHOOSE i \in DOMAIN recs : Cardinality(Upto(i)) = r]]
    BY DEF SortedByTime
  <1> DEFINE place(r) == CHOOSE i \in DOMAIN recs : Cardinality(Upto(i)) = r
  <1>9. SortedByTime(recs) = [r \in DOMAIN recs |-> recs[place(r)]]
    BY <1>8
  <1>10. \A r \in DOMAIN recs : place(r) \in DOMAIN recs
    BY <1>7
  <1> HIDE DEF place
  <1>11. \A r \in DOMAIN recs : recs[place(r)] \in Revision
    BY <1>10, RevisionAt
  <1> QED BY <1>1, <1>9, <1>11

(* What the readers rest on: the types, a finite graph that holds the      *)
(* dependencies the atoms name, and finitely many atoms.                   *)
ReadInv == KernelTypeOK /\ GraphInv /\ IsFiniteSet(DOMAIN atoms)
LEMMA ReadInvInsert ==
  ASSUME ReadInv, NEW atom \in Claims, NEW time \in Nat, InsertAtom(atom, time)
  PROVE  ReadInv'
  <1>1. atom \in Atom /\ atom.id \in AtomId /\ atom.id \notin atom.contradicts
    BY KernelAssumption DEF Atom
  <1>2. /\ DOMAIN atoms' = DOMAIN atoms \cup {atom.id}
        /\ atoms'[atom.id] = atom
        /\ \A a \in DOMAIN atoms : a # atom.id =>
             atoms'[a] = IF a \in atom.supersedes
                         THEN [atoms[a] EXCEPT !.belief = "Superseded"] ELSE atoms[a]
        /\ atoms' \in [DOMAIN atoms' -> {atoms'[a] : a \in DOMAIN atoms'}]
    BY DEF InsertAtom, Put
  <1>3. ASSUME NEW a \in DOMAIN atoms'
        PROVE  /\ atoms'[a] \in Atom /\ atoms'[a].id = a /\ a \notin atoms'[a].contradicts
               /\ a # atom.id => a \in DOMAIN atoms /\ atoms'[a].deps = atoms[a].deps
    <2>1. CASE a = atom.id  BY <2>1, <1>1, <1>2
    <2>2. CASE a # atom.id
      <3>1. a \in DOMAIN atoms /\ atoms[a] \in Atom /\ atoms[a].id = a
            /\ a \notin atoms[a].contradicts
        BY <2>2, <1>2 DEF ReadInv, KernelTypeOK
      <3> QED BY <3>1, <2>2, <1>2 DEF Atom, BeliefState
    <2> QED BY <2>1, <2>2
  <1>4. DOMAIN atoms' \subseteq AtomId /\ atoms' \in [DOMAIN atoms' -> Atom]
    BY <1>1, <1>2, <1>3 DEF ReadInv, KernelTypeOK
  <1>5. ASSUME NEW a \in AtomId  PROVE  revisions'[a] \in Seq(Revision)
    <2>1. revisions[a] \in Seq(Revision)
      BY DEF ReadInv, KernelTypeOK
    <2>2. CASE a \in atom.supersedes \cap DOMAIN atoms
      <3>1. revisions'[a] = Append(revisions[a], Revise(time, atoms[a].belief, "Superseded"))
        BY <2>2 DEF InsertAtom
      <3>2. Revise(time, atoms[a].belief, "Superseded") \in Revision
        BY <2>2 DEF Revise, Revision, BeliefState, ReadInv, KernelTypeOK, Atom
      <3> QED BY <2>1, <3>1, <3>2
    <2>3. CASE a \notin atom.supersedes \cap DOMAIN atoms
      BY <2>1, <2>3 DEF InsertAtom
    <2> QED BY <2>2, <2>3
  <1>6. revisions' \in [AtomId -> Seq(Revision)]
    BY <1>5 DEF InsertAtom
  <1> DEFINE added == (atom.deps \cup atom.supersedes) \X {atom.id}
  <1>7. edges' = edges \cup added /\ added \subseteq AtomId \X AtomId
    BY <1>1 DEF InsertAtom, Atom
  <1>8. IsFiniteSet(added)
    <2>1. IsFiniteSet(atom.deps \cup atom.supersedes)
      BY FiniteAssumption, FS_Union
    <2>2. IsFiniteSet({atom.id})
      BY FS_Singleton
    <2> QED BY <2>1, <2>2, FS_Product
  <1>9. atom.deps \X {atom.id} \subseteq added
    OBVIOUS
  <1> HIDE DEF added
  <1>10. edges' \subseteq AtomId \X AtomId /\ IsFiniteSet(edges')
    BY <1>7, <1>8, FS_Union DEF ReadInv, KernelTypeOK, GraphInv, FiniteGraph
  <1>11. DerivedFrom' \subseteq edges'
    <2>1. \A b \in DOMAIN atoms : atoms[b].deps \X {b} \subseteq edges
      BY DEF ReadInv, GraphInv, DerivedFrom
    <2>2. \A b \in DOMAIN atoms' : atoms'[b].deps \X {b} \subseteq edges'
      BY <1>2, <1>3, <1>7, <1>9, <2>1
    <2> QED BY <2>2 DEF DerivedFrom
  <1>12. IsFiniteSet(DOMAIN atoms')
    BY <1>2, FS_AddElement DEF ReadInv
  <1> QED BY <1>3, <1>4, <1>6, <1>10, <1>11, <1>12
      DEF ReadInv, KernelTypeOK, GraphInv, FiniteGraph, InsertAtom

LEMMA ReadInvRevise ==
  ASSUME ReadInv, NEW b \in AtomId, NEW next \in Revised, NEW time \in Nat,
         ReviseBelief(b, next, time)
  PROVE  ReadInv'
  <1>1. b \in DOMAIN atoms /\ next \in BeliefState
    BY KernelAssumption DEF ReviseBelief
  <1>2. /\ DOMAIN atoms' = DOMAIN atoms
        /\ atoms' = [atoms EXCEPT ![b].belief = next]
    BY DEF ReviseBelief
  <1>3. ASSUME NEW a \in DOMAIN atoms
        PROVE  /\ atoms'[a] \in Atom /\ atoms'[a].id = a /\ a \notin atoms'[a].contradicts
               /\ atoms'[a].deps = atoms[a].deps
    <2>1. atoms[a] \in Atom /\ atoms[a].id = a /\ a \notin atoms[a].contradicts
      BY DEF ReadInv, KernelTypeOK
    <2>2. atoms'[a] = IF a = b THEN [atoms[a] EXCEPT !.belief = next] ELSE atoms[a]
      BY <1>1, <1>2
    <2> QED BY <1>1, <2>1, <2>2 DEF Atom
  <1>4. atoms' \in [DOMAIN atoms' -> Atom]
    BY <1>2, <1>3
  <1>5. ASSUME NEW a \in AtomId  PROVE  revisions'[a] \in Seq(Revision)
    <2>1. revisions[a] \in Seq(Revision)
      BY DEF ReadInv, KernelTypeOK
    <2>2. CASE a = b
      <3>1. revisions'[a] = SortedByTime(Append(revisions[a], Revise(time, atoms[a].belief, next)))
        BY <2>2 DEF ReviseBelief, ReadInv, KernelTypeOK
      <3>2. Revise(time, atoms[a].belief, next) \in Revision
        BY <1>1, <2>2 DEF Revise, Revision, ReadInv, KernelTypeOK, Atom
      <3>3. Append(revisions[a], Revise(time, atoms[a].belief, next)) \in Seq(Revision)
        BY <2>1, <3>2
      <3> QED BY <3>1, <3>3, SortedType
    <2>3. CASE a # b
      BY <2>1, <2>3 DEF ReviseBelief, ReadInv, KernelTypeOK
    <2> QED BY <2>2, <2>3
  <1>6. revisions' \in [AtomId -> Seq(Revision)]
    <2>1. DOMAIN revisions' = AtomId /\ revisions' = [x \in AtomId |-> revisions'[x]]
      BY DEF ReviseBelief, ReadInv, KernelTypeOK
    <2> QED BY <1>5, <2>1
  <1>7. DerivedFrom' = DerivedFrom
    BY <1>2, <1>3 DEF DerivedFrom
  <1> QED BY <1>2, <1>3, <1>4, <1>6, <1>7
      DEF ReadInv, KernelTypeOK, GraphInv, FiniteGraph, ReviseBelief

LEMMA ReadInvConflict ==
  ASSUME ReadInv, NEW conflict \in Conflicts, AddConflict(conflict)
  PROVE  ReadInv'
  <1>1. conflict \subseteq AtomId /\ IsFiniteSet(conflict)
    BY KernelAssumption, FiniteAssumption
  <1>2. /\ DOMAIN atoms' = DOMAIN atoms
        /\ \A a \in DOMAIN atoms :
             atoms'[a] = IF a \in conflict THEN Contested(atoms[a], conflict)
                         ELSE atoms[a]
    BY DEF AddConflict
  <1>3. ASSUME NEW a \in DOMAIN atoms
        PROVE  /\ atoms'[a] \in Atom /\ atoms'[a].id = a /\ a \notin atoms'[a].contradicts
               /\ atoms'[a].deps = atoms[a].deps
    <2>1. atoms[a] \in Atom /\ atoms[a].id = a /\ a \notin atoms[a].contradicts
      BY DEF ReadInv, KernelTypeOK
    <2>2. Contested(atoms[a], conflict) \in Atom
      BY <1>1, <2>1 DEF Contested, Atom, BeliefState
    <2>3. /\ Contested(atoms[a], conflict).id = a
          /\ a \notin Contested(atoms[a], conflict).contradicts
          /\ Contested(atoms[a], conflict).deps = atoms[a].deps
      BY <2>1 DEF Contested, Atom
    <2> QED BY <1>2, <2>1, <2>2, <2>3
  <1>4. atoms' \in [DOMAIN atoms' -> Atom]
    BY <1>3 DEF AddConflict
  <1> DEFINE added == {e \in conflict \X conflict : e[1] # e[2]}
  <1>5. edges' = edges \cup added /\ added \in SUBSET (conflict \X conflict)
    BY DEF AddConflict
  <1>6. added \subseteq AtomId \X AtomId /\ IsFiniteSet(added)
    <2>1. IsFiniteSet(conflict \X conflict)
      BY <1>1, FS_Product
    <2> HIDE DEF added
    <2> QED BY <1>1, <1>5, <2>1, FS_Subset
  <1> HIDE DEF added
  <1>7. edges' \subseteq AtomId \X AtomId /\ IsFiniteSet(edges')
    BY <1>5, <1>6, FS_Union DEF ReadInv, KernelTypeOK, GraphInv, FiniteGraph
  <1>8. conflicts' \subseteq SUBSET AtomId
    BY <1>1 DEF AddConflict, ReadInv, KernelTypeOK
  <1>9. DerivedFrom' \subseteq edges'
    <2>1. DerivedFrom' = DerivedFrom
      BY <1>2, <1>3 DEF DerivedFrom
    <2> QED BY <1>5, <2>1 DEF ReadInv, GraphInv
  <1> QED BY <1>2, <1>3, <1>4, <1>7, <1>8, <1>9
      DEF ReadInv, KernelTypeOK, GraphInv, FiniteGraph, AddConflict

LEMMA ReadInvInductive ==
  /\ KernelInit => ReadInv
  /\ ReadInv /\ [KernelNext]_kernelVars => ReadInv'
  <1>1. KernelInit => ReadInv
    <2> SUFFICES ASSUME KernelInit PROVE ReadInv
      OBVIOUS
    <2>1. KernelTypeOK
      BY DEF KernelInit, KernelTypeOK
    <2>2. GraphInv /\ IsFiniteSet(DOMAIN atoms)
      BY FS_EmptySet DEF KernelInit, GraphInv, FiniteGraph, DerivedFrom
    <2> QED BY <2>1, <2>2 DEF ReadInv
  <1>2. ASSUME ReadInv, [KernelNext]_kernelVars  PROVE ReadInv'
    <2>1. ASSUME NEW c \in Claims, InsertAtom(c, Detail[c.id].tx)
          PROVE  ReadInv'
      <3>1. Detail[c.id].tx \in Nat
        BY KernelAssumption, DetailAssumption DEF Atom
      <3> QED BY <1>2, <2>1, <3>1, ReadInvInsert
    <2>2. ASSUME NEW c \in Conflicts, AddConflict(c)
          PROVE  ReadInv'
      BY <1>2, <2>2, ReadInvConflict
    <2>3. ASSUME NEW a \in AtomId, NEW next \in Revised, NEW t \in Instant,
                 ReviseBelief(a, next, t)
          PROVE  ReadInv'
      BY <1>2, <2>3, DetailAssumption, ReadInvRevise
    <2>4. ASSUME NEW from \in AtomId, NEW to \in AtomId, AddDependency(from, to)
          PROVE  ReadInv'
      <3>1. edges' = edges \cup {<<from, to>>} /\ UNCHANGED <<atoms, revisions, conflicts, causes>>
        BY <2>4 DEF AddDependency
      <3>2. IsFiniteSet(edges')
        BY <1>2, <3>1, FS_AddElement DEF ReadInv, GraphInv, FiniteGraph
      <3> QED BY <1>2, <3>1, <3>2 DEF ReadInv, KernelTypeOK, GraphInv, FiniteGraph, DerivedFrom
    <2>5. ASSUME NEW cause \in EventId, NEW effect \in EventId, InsertCause(cause, effect)
          PROVE  ReadInv'
      BY <1>2, <2>5 DEF InsertCause, ReadInv, KernelTypeOK, GraphInv, FiniteGraph, DerivedFrom
    <2>6. CASE UNCHANGED kernelVars
      BY <1>2, <2>6 DEF kernelVars, ReadInv, KernelTypeOK, GraphInv, FiniteGraph, DerivedFrom
    <2> QED BY <1>2, <2>1, <2>2, <2>3, <2>4, <2>5, <2>6 DEF KernelNext
  <1> QED BY <1>1, <1>2

(* The kernel's fields keep their types under any calls, whatever time a   *)
(* revision is stamped with (insert_atom, add_conflict, revise_belief,     *)
(* add_dependency, insert_causal_atom).                                    *)
THEOREM KernelTypeCorrect == KernelSpec => []KernelTypeOK
  <1>1. ReadInv => KernelTypeOK
    BY DEF ReadInv
  <1> QED BY <1>1, ReadInvInductive, PTL DEF KernelSpec

-----------------------------------------------------------------------------
(***************************************************************************)
(* Queries.                                                                *)
(***************************************************************************)

(* A time no revision is later than gets the current belief.               *)
LEMMA SettledBelief ==
  ASSUME KernelTypeOK, NEW a \in DOMAIN atoms, NEW time \in Nat,
         \A i \in DOMAIN revisions[a] : revisions[a][i].at <= time
  PROVE  BeliefAt(a, time) = atoms[a].belief
  <1>1. a \in AtomId /\ revisions[a] \in Seq(Revision)
    BY DEF KernelTypeOK
  <1>2. \A i \in DOMAIN revisions[a] : ~(time < revisions[a][i].at)
    BY <1>1, RevisionAt
  <1>3. {i \in DOMAIN revisions[a] : time < revisions[a][i].at} = {}
    BY <1>2
  <1> QED BY <1>3 DEF BeliefAt

(* The questions of one entity and of all atoms agree, atom by atom.       *)
LEMMA EntityAnswersAgree ==
  ASSUME KernelTypeOK
  PROVE  AnswersAgree
  <1> SUFFICES ASSUME NEW entity \in Entity, NEW valid \in 1..2, NEW known \in 1..2
      PROVE
        LET state == EntityState(entity, valid, known)
            plain == AskEntity(entity, valid, known, FALSE)
            guarded == AskEntity(entity, valid, known, TRUE)
            settled == \A a \in DOMAIN atoms : \A i \in DOMAIN revisions[a] :
                         revisions[a][i].at <= known
            view == CurrentBelief(valid, known, {"Accepted", "Disputed"})
        IN  /\ state.accepted \cup state.disputed \cup state.superseded \subseteq plain.atoms
            /\ plain.atoms = guarded.atoms \cup guarded.unsupported
            /\ guarded.atoms \subseteq state.accepted \cup state.disputed
            /\ settled =>
                 /\ state.accepted = {a \in view.accepted : atoms[a].subject = entity}
                 /\ guarded.atoms \subseteq view.visible
            /\ \A a \in guarded.atoms : ExplainConflict(a) \subseteq guarded.conflicts
    BY DEF AnswersAgree
  <1> DEFINE state == EntityState(entity, valid, known)
             plain == AskEntity(entity, valid, known, FALSE)
             guarded == AskEntity(entity, valid, known, TRUE)
             settled == \A a \in DOMAIN atoms : \A i \in DOMAIN revisions[a] :
                          revisions[a][i].at <= known
             view == CurrentBelief(valid, known, {"Accepted", "Disputed"})
             seen == {a \in DOMAIN atoms : atoms[a].subject = entity /\ VisibleAt(a, valid, known)}
             held == {"Accepted", "Disputed", "Superseded"}
  <1>1. /\ state.accepted = {a \in seen : BeliefAt(a, known) = "Accepted"}
        /\ state.disputed = {a \in seen : BeliefAt(a, known) = "Disputed"}
        /\ state.superseded = {a \in seen : BeliefAt(a, known) = "Superseded"}
        /\ state.conflicts = {c \in conflicts : c \cap {a \in seen : BeliefAt(a, known) \in held} # {}}
    BY DEF EntityState
  <1>2. /\ plain.atoms = seen
        /\ guarded.atoms = {a \in seen : SupportedForAi(a, BeliefAt(a, known))}
        /\ guarded.unsupported = seen \ guarded.atoms
        /\ guarded.conflicts = state.conflicts
    BY DEF AskEntity
  <1>3. /\ view.accepted = {a \in DOMAIN atoms : VisibleAt(a, valid, known) /\ atoms[a].belief = "Accepted"}
        /\ view.visible = {a \in DOMAIN atoms : VisibleAt(a, valid, known)
                                                /\ atoms[a].belief \in {"Accepted", "Disputed"}}
    BY DEF CurrentBelief
  <1>4. \A a \in guarded.atoms : a \in seen /\ BeliefAt(a, known) \in {"Accepted", "Disputed"}
    BY <1>2 DEF SupportedForAi
  <1>5. ASSUME settled, NEW a \in DOMAIN atoms  PROVE BeliefAt(a, known) = atoms[a].belief
    BY <1>5, SettledBelief
  <1> HIDE DEF state, plain, guarded, view, settled
  <1>6. \A a \in guarded.atoms : ExplainConflict(a) \subseteq guarded.conflicts
    <2> SUFFICES ASSUME NEW a \in guarded.atoms, NEW c \in conflicts, a \in c
                 PROVE  c \in state.conflicts
      BY <1>2 DEF ExplainConflict
    <2>1. a \in {b \in seen : BeliefAt(b, known) \in held}
      BY <1>4
    <2> QED BY <1>1, <2>1
  <1>7. ASSUME settled
        PROVE  /\ state.accepted = {a \in view.accepted : atoms[a].subject = entity}
               /\ guarded.atoms \subseteq view.visible
    BY <1>1, <1>3, <1>4, <1>5, <1>7
  <1>8. /\ state.accepted \cup state.disputed \cup state.superseded \subseteq plain.atoms
        /\ plain.atoms = guarded.atoms \cup guarded.unsupported
        /\ guarded.atoms \subseteq state.accepted \cup state.disputed
    BY <1>1, <1>2, <1>4
  <1> QED BY <1>6, <1>7, <1>8 DEF state, plain, guarded, view, settled

\* An index of the rows D, each under its value of f.
IndexOf(f, D) == UNION {{f[i]} \X {i} : i \in D}

(* What an index that has each row under its value answers for a value.    *)
LEMMA IndexEntries ==
  ASSUME NEW D, NEW f, NEW value
  PROVE  Entries(IndexOf(f, D), value) = {i \in D : f[i] = value}
  <1> DEFINE index == IndexOf(f, D)
  <1>1. \A e : e \in index <=> \E i \in D : e = <<f[i], i>>
    BY DEF IndexOf
  <1>2. \A i \in D : <<f[i], i>> \in index
    BY <1>1
  <1> HIDE DEF index
  <1>3. ASSUME NEW i \in Entries(index, value)  PROVE i \in D /\ f[i] = value
    <2>1. PICK e \in index : e[1] = value /\ e[2] = i
      BY DEF Entries
    <2>2. PICK j \in D : e = <<f[j], j>>
      BY <1>1
    <2> QED BY <2>1, <2>2
  <1>4. ASSUME NEW i \in D, f[i] = value  PROVE i \in Entries(index, value)
    <2>1. <<f[i], i>> \in index /\ <<f[i], i>>[1] = value /\ <<f[i], i>>[2] = i
      BY <1>2, <1>4
    <2> QED BY <2>1 DEF Entries
  <1>5. Entries(index, value) = {i \in D : f[i] = value}
    BY <1>3, <1>4
  <1> QED BY <1>5 DEF index

(* The rows of the columnar copy are the atoms, and each index leads from  *)
(* a value to the rows that hold it.                                       *)
LEMMA StoreIndexes ==
  ASSUME IsFiniteSet(DOMAIN atoms), NEW store, store = PhysicalStore
  PROVE  /\ \A i \in DOMAIN store.rows : store.rows[i] \in DOMAIN atoms
         /\ \A a \in DOMAIN atoms : \E i \in DOMAIN store.rows : store.rows[i] = a
         /\ \A s : Entries(store.by_subject, s)
                     = {i \in DOMAIN store.rows : atoms[store.rows[i]].subject = s}
         /\ \A q : Entries(store.by_predicate, q)
                     = {i \in DOMAIN store.rows : Detail[store.rows[i]].predicate = q}
         /\ \A o : Entries(store.by_object, o)
                     = {i \in DOMAIN store.rows : ObjectKey(Detail[store.rows[i]].object) = o}
         /\ \A s, q, o : Entries(store.trie_spo, <<s, q, o>>)
                     = {i \in DOMAIN store.rows :
                          /\ atoms[store.rows[i]].subject = s
                          /\ Detail[store.rows[i]].predicate = q
                          /\ ObjectKey(Detail[store.rows[i]].object) = o}
  <1> DEFINE S == DOMAIN atoms
             n == Cardinality(S)
             rows == SetToSeq(S)
  <1>1. n \in Nat /\ IsFiniteSet(1..n) /\ Cardinality(1..n) = n
    BY FS_CardinalityType, FS_Interval
  <1>2. rows \in [1..n -> S] /\ \A i, j \in 1..n : rows[i] = rows[j] => i = j
    <2>1. PICK f : f \in Bijection(1..n, S)
      BY FS_CardinalityType DEF ExistsBijection
    <2>2. f \in [1..n -> S] /\ IsInjective(f)
      BY <2>1 DEF Bijection, Injection, IsInjective
    <2>3. rows \in [1..n -> S] /\ IsInjective(rows)
      BY <2>2 DEF SetToSeq
    <2> HIDE DEF rows
    <2> QED BY <2>3 DEF IsInjective
  <1>3. \A a \in S : \E i \in 1..n : rows[i] = a
    <2> HIDE DEF rows, n, S
    <2>1. rows \in Injection(1..n, S)
      BY <1>2 DEF Injection, IsInjective
    <2>2. IsFiniteSet(S)
      BY DEF S
    <2>3. Cardinality(1..n) = Cardinality(S)
      BY <1>1 DEF n
    <2>4. rows \in Surjection(1..n, S)
      BY <2>1, <2>2, <2>3, FS_Injection
    <2> QED BY <2>4 DEF Surjection
  <1>4. /\ store.rows = rows
        /\ store.by_subject = UNION {{atoms[rows[i]].subject} \X {i} : i \in DOMAIN rows}
        /\ store.by_predicate = UNION {{Detail[rows[i]].predicate} \X {i} : i \in DOMAIN rows}
        /\ store.by_object = UNION {{ObjectKey(Detail[rows[i]].object)} \X {i} : i \in DOMAIN rows}
        /\ store.trie_spo =
             UNION {{<<atoms[rows[i]].subject, Detail[rows[i]].predicate,
                       ObjectKey(Detail[rows[i]].object)>>} \X {i} : i \in DOMAIN rows}
    BY DEF PhysicalStore
  <1>5. DOMAIN rows = 1..n
    <2> HIDE DEF rows, n
    <2> QED BY <1>2
  <1> HIDE DEF rows, n
  <1> DEFINE D == 1..n
  <1> HIDE DEF D
  <1>6. \A s : Entries(store.by_subject, s) = {i \in D : atoms[rows[i]].subject = s}
    <2> DEFINE f == [i \in D |-> atoms[rows[i]].subject]
    <2>1. store.by_subject = IndexOf(f, D)
      BY <1>4, <1>5 DEF IndexOf, D
    <2>2. \A i \in D : f[i] = atoms[rows[i]].subject
      OBVIOUS
    <2> HIDE DEF f
    <2>3. ASSUME NEW v  PROVE Entries(store.by_subject, v) = {i \in D : f[i] = v}
      <3>1. Entries(IndexOf(f, D), v) = {i \in D : f[i] = v}
        BY IndexEntries
      <3> QED BY <2>1, <3>1
    <2> QED BY <2>2, <2>3
  <1>7. \A q : Entries(store.by_predicate, q) = {i \in D : Detail[rows[i]].predicate = q}
    <2> DEFINE f == [i \in D |-> Detail[rows[i]].predicate]
    <2>1. store.by_predicate = IndexOf(f, D)
      BY <1>4, <1>5 DEF IndexOf, D
    <2>2. \A i \in D : f[i] = Detail[rows[i]].predicate
      OBVIOUS
    <2> HIDE DEF f
    <2>3. ASSUME NEW v  PROVE Entries(store.by_predicate, v) = {i \in D : f[i] = v}
      <3>1. Entries(IndexOf(f, D), v) = {i \in D : f[i] = v}
        BY IndexEntries
      <3> QED BY <2>1, <3>1
    <2> QED BY <2>2, <2>3
  <1>8. \A o : Entries(store.by_object, o) = {i \in D : ObjectKey(Detail[rows[i]].object) = o}
    <2> DEFINE f == [i \in D |-> ObjectKey(Detail[rows[i]].object)]
    <2>1. store.by_object = IndexOf(f, D)
      BY <1>4, <1>5 DEF IndexOf, D
    <2>2. \A i \in D : f[i] = ObjectKey(Detail[rows[i]].object)
      OBVIOUS
    <2> HIDE DEF f
    <2>3. ASSUME NEW v  PROVE Entries(store.by_object, v) = {i \in D : f[i] = v}
      <3>1. Entries(IndexOf(f, D), v) = {i \in D : f[i] = v}
        BY IndexEntries
      <3> QED BY <2>1, <3>1
    <2> QED BY <2>2, <2>3
  <1>9. \A s, q, o : Entries(store.trie_spo, <<s, q, o>>) = {i \in D : /\ atoms[rows[i]].subject = s
                                 /\ Detail[rows[i]].predicate = q
                                 /\ ObjectKey(Detail[rows[i]].object) = o}
    <2> DEFINE f == [i \in D |-> <<atoms[rows[i]].subject, Detail[rows[i]].predicate,
                               ObjectKey(Detail[rows[i]].object)>>]
    <2>1. store.trie_spo = IndexOf(f, D)
      BY <1>4, <1>5 DEF IndexOf, D
    <2>2. \A i \in D : f[i] = <<atoms[rows[i]].subject, Detail[rows[i]].predicate,
                               ObjectKey(Detail[rows[i]].object)>>
      OBVIOUS
    <2> HIDE DEF f
    <2>3. ASSUME NEW v  PROVE Entries(store.trie_spo, v) = {i \in D : f[i] = v}
      <3>1. Entries(IndexOf(f, D), v) = {i \in D : f[i] = v}
        BY IndexEntries
      <3> QED BY <2>1, <3>1
    <2> QED BY <2>2, <2>3
  <1> QED BY <1>2, <1>3, <1>4, <1>5, <1>6, <1>7, <1>8, <1>9 DEF D

(* The rows matched for a pattern, by the trie or by the indexes, are the  *)
(* atoms that match it up to the form an object is held in.                *)
Alike(a, p) ==
  /\ \A s \in p.subject : atoms[a].subject = s
  /\ \A q \in p.predicate : Detail[a].predicate = q
  /\ \A o \in p.object : ObjectKey(Detail[a].object) = ObjectKey(o)

LEMMA RowsMatched ==
  ASSUME IsFiniteSet(DOMAIN atoms), NEW p \in Pattern, NEW matched,
         matched = IF FullyBound(p) THEN TrieCandidates(PhysicalStore, p)
                   ELSE Candidates(PhysicalStore, p)
  PROVE  matched = {i \in DOMAIN PhysicalStore.rows : Alike(PhysicalStore.rows[i], p)}
  <1> DEFINE store == PhysicalStore
             rows == store.rows
             D == DOMAIN rows
  <1>1. /\ \A s : Entries(store.by_subject, s) = {i \in D : atoms[rows[i]].subject = s}
        /\ \A q : Entries(store.by_predicate, q) = {i \in D : Detail[rows[i]].predicate = q}
        /\ \A o : Entries(store.by_object, o) = {i \in D : ObjectKey(Detail[rows[i]].object) = o}
        /\ \A s, q, o : Entries(store.trie_spo, <<s, q, o>>)
                     = {i \in D : /\ atoms[rows[i]].subject = s
                                  /\ Detail[rows[i]].predicate = q
                                  /\ ObjectKey(Detail[rows[i]].object) = o}
    BY StoreIndexes
  <1>2. matched = IF FullyBound(p) THEN TrieCandidates(store, p) ELSE Candidates(store, p)
    OBVIOUS
  <1>3. /\ \A x, y \in p.subject : x = y
        /\ \A x, y \in p.predicate : x = y
        /\ \A x, y \in p.object : x = y
    BY PatternAssumption
  <1> SUFFICES matched = {i \in D : Alike(rows[i], p)}
    OBVIOUS
  <1> HIDE DEF store, rows, D
  <1>4. CASE FullyBound(p)
    <2>1. PICK s \in p.subject, q \in p.predicate, o \in p.object : TRUE
      BY <1>4 DEF FullyBound
    <2>2. p.subject = {s} /\ p.predicate = {q} /\ p.object = {o}
      BY <1>3, <2>1
    <2>3. TrieCandidates(store, p) = Entries(store.trie_spo, <<s, q, ObjectKey(o)>>)
      BY <2>2 DEF TrieCandidates
    <2>4. Entries(store.trie_spo, <<s, q, ObjectKey(o)>>) = {i \in D : Alike(rows[i], p)}
      BY <1>1, <2>2 DEF Alike
    <2> QED BY <1>2, <1>4, <2>3, <2>4
  <1>5. CASE ~FullyBound(p)
    <2>1. Candidates(store, p) = {i \in D : Alike(rows[i], p)}
      BY <1>1 DEF Candidates, Alike, rows, D
    <2> QED BY <1>2, <1>5, <2>1
  <1> QED BY <1>4, <1>5

\* The operators of a native query, and what they leave of the alike.
Asked(v, k, scope) ==
  [valid_at |-> v, known_at |-> k, beliefs |-> {}, permissions |-> {scope}, evidence |-> FALSE]

Near(p, v, k) ==
  {a \in DOMAIN atoms :
     /\ Alike(a, p)
     /\ \A t \in v : InInterval(t, Detail[a].from, Detail[a].until)
     /\ \A t \in k : InInterval(t, Detail[a].tx, Detail[a].tx_until)}

(* What the native engine finds.                                           *)
LEMMA NativeAnswer ==
  ASSUME ReadInv, NEW p \in Pattern, NEW v, NEW k, NEW scope
  PROVE  /\ NativeVerify(p, Asked(v, k, scope)).atoms = {a \in Near(p, v, k) : PermittedAtom(a, scope)}
         /\ NativeVerify(p, Asked(v, k, scope)).filtered
              = {a \in Near(p, v, k) : ~PermittedAtom(a, scope)}
  <1> DEFINE store == PhysicalStore
             rows == store.rows
             D == DOMAIN rows
             Then(a) == /\ \A t \in v : InInterval(t, Detail[a].from, Detail[a].until)
                        /\ \A t \in k : InInterval(t, Detail[a].tx, Detail[a].tx_until)
             reached == {a \in DOMAIN atoms : Alike(a, p) /\ Then(a)}
             ops == Asked(v, k, scope)
             answer == NativeVerify(p, ops)
             matched == IF FullyBound(p) THEN TrieCandidates(store, p) ELSE Candidates(store, p)
             timed == IF v = {} \/ k = {} THEN matched
                      ELSE {i \in matched : \A x \in v, y \in k : i \in PointInTime(store, x, y)}
             visible == {a \in {rows[i] : i \in timed} : Then(a)}
  <1>1. /\ \A i \in D : rows[i] \in DOMAIN atoms
        /\ \A a \in DOMAIN atoms : \E i \in D : rows[i] = a
    BY StoreIndexes DEF ReadInv
  <1>2. matched = {i \in D : Alike(rows[i], p)}
    BY RowsMatched DEF ReadInv
  <1>3. ASSUME NEW i \in D
        PROVE  (\A x \in v, y \in k : i \in PointInTime(store, x, y)) <=>
                 (\A x \in v, y \in k : VisibleAt(rows[i], x, y))
    BY <1>3 DEF PointInTime
  <1>4. answer.atoms = {a \in visible : PermittedAtom(a, scope)}
        /\ answer.filtered = visible \ {a \in visible : PermittedAtom(a, scope)}
    BY DEF NativeVerify, Asked
  <1> HIDE DEF store, rows, D, matched
  <1>5. \A i \in matched : i \in timed \/ ~Then(rows[i])
    BY <1>2, <1>3 DEF VisibleAt
  <1>6. timed \subseteq matched
    OBVIOUS
  <1> HIDE DEF timed
  <1>7. visible = reached
    BY <1>1, <1>2, <1>5, <1>6
  <1> HIDE DEF visible, reached, answer
  <1>8. answer.atoms = {a \in reached : PermittedAtom(a, scope)}
        /\ answer.filtered = {a \in reached : ~PermittedAtom(a, scope)}
    BY <1>4, <1>7
  <1> QED BY <1>8 DEF reached, answer, Near

LEMMA NativeEngineFindsAll ==
  ASSUME ReadInv
  PROVE  NativeFindsAll
  <1> DEFINE Found(p, v, k, scope) ==
               LET answer == NativeVerify(p, [valid_at |-> v, known_at |-> k, beliefs |-> {},
                                              permissions |-> {scope}, evidence |-> FALSE])
                   Then(a) == /\ \A t \in v : InInterval(t, Detail[a].from, Detail[a].until)
                              /\ \A t \in k : InInterval(t, Detail[a].tx, Detail[a].tx_until)
                   reached == answer.atoms \cup answer.filtered
               IN  /\ {a \in FindAtoms(p) : Then(a)} \subseteq reached
                   /\ \A a \in reached \ FindAtoms(p) :
                        /\ Then(a) /\ Matches(a, [p EXCEPT !.object = {}])
                        /\ \A o \in p.object : ObjectKey(o) = ObjectKey(Detail[a].object)
                   /\ \A a \in answer.atoms : Detail[a].permission \in scope
             Broken(a) ==
               LET breaks == NativeWhatBreaks(a)
                   collapse == CollapseIfSourceFalse(a)
               IN  /\ collapse.beliefs = breaks.beliefs
                   /\ collapse.plans = breaks.plans \ breaks.beliefs
                   /\ collapse.memories = breaks.memories \ breaks.beliefs
  <1>1. ASSUME NEW p \in Pattern, NEW v \in {{}, {1}, {2}}, NEW k \in {{}, {1}, {2}},
               NEW scope \in {{"Public"}, {"Public", "Restricted"}}
        PROVE  Found(p, v, k, scope)
    <2> DEFINE answer == NativeVerify(p, Asked(v, k, scope))
               near == Near(p, v, k)
    <2>1. /\ answer.atoms = {a \in near : PermittedAtom(a, scope)}
          /\ answer.filtered = {a \in near : ~PermittedAtom(a, scope)}
      <3> HIDE DEF Found, Broken
      <3> QED BY NativeAnswer
    <2>2. \A a \in FindAtoms(p) : a \in DOMAIN atoms /\ Alike(a, p)
      BY DEF FindAtoms, Matches, Alike
    <2>3. ASSUME NEW a \in near
          PROVE  /\ Matches(a, [p EXCEPT !.object = {}])
                 /\ \A o \in p.object : ObjectKey(o) = ObjectKey(Detail[a].object)
      <3>1. p = [subject |-> p.subject, predicate |-> p.predicate, object |-> p.object]
        BY PatternAssumption
      <3>2. [p EXCEPT !.object = {}] = [subject |-> p.subject, predicate |-> p.predicate, object |-> {}]
        BY <3>1
      <3> QED BY <3>2 DEF Matches, Alike, Near
    <2>4. \A a \in answer.atoms : Detail[a].permission \in scope
      BY <2>1 DEF PermittedAtom, ScopeAllows
    <2> HIDE DEF answer
    <2>5. answer.atoms \cup answer.filtered = near
      BY <2>1
    <2> QED BY <2>2, <2>3, <2>4, <2>5 DEF answer, Asked, Near
  <1>2. ASSUME NEW a \in DOMAIN atoms  PROVE Broken(a)
    BY DEF NativeWhatBreaks, CollapseIfSourceFalse
  <1> QED BY <1>1, <1>2 DEF NativeFindsAll

(* Two ways to one answer agree, for any atoms, revisions, conflicts and   *)
(* patterns: the tries and the columnar indexes find what a scan finds,    *)
(* and the answers about an entity match those about all atoms             *)
(* (execute_native, execute_kernel, entity_state, current_belief).         *)
THEOREM AnswersAlwaysMatch == KernelSpec => []AnswersMatch
  <1>1. ReadInv => AnswersMatch
    BY NativeEngineFindsAll, EntityAnswersAgree DEF ReadInv, AnswersMatch
  <1> QED BY <1>1, ReadInvInductive, PTL DEF KernelSpec

-----------------------------------------------------------------------------
(***************************************************************************)
(* The revision jobs.                                                      *)
(***************************************************************************)
AgentMemories(cursor) == {a \in Changed(cursor) : IsMemory(a) /\ atoms[a].agent # NoAgent}

AlikeMemories(a, cursor) ==
  {b \in AgentMemories(cursor) : /\ atoms[b].agent = atoms[a].agent
                                 /\ Detail[b].object = Detail[a].object}

(* Memories that an incremental run would consolidate are among those that *)
(* a full run would.                                                       *)
LEMMA ConsolidationGrows ==
  ASSUME IsFiniteSet(DOMAIN atoms), NEW t \in Nat,
         NEW s \in MemoryConsolidation({t})
  PROVE  /\ s.kind = "ConsolidateMemory"
         /\ \E f \in MemoryConsolidation({}) :
              f.kind = "ConsolidateMemory" /\ s.target \subseteq f.target
  <1>1. \A cursor : MemoryConsolidation(cursor) =
          Suggest("ConsolidateMemory",
            {m \in {AlikeMemories(a, cursor) : a \in AgentMemories(cursor)} : Cardinality(m) > 1})
    BY DEF MemoryConsolidation, AlikeMemories, AgentMemories
  <1>2. PICK a \in AgentMemories({t}) :
          /\ Cardinality(AlikeMemories(a, {t})) > 1
          /\ s = [kind |-> "ConsolidateMemory", target |-> AlikeMemories(a, {t})]
    BY <1>1 DEF Suggest
  <1>3. AgentMemories({t}) \subseteq AgentMemories({}) /\ AgentMemories({}) \subseteq DOMAIN atoms
    BY DEF AgentMemories, Changed, ChangedSince
  <1> DEFINE some == AlikeMemories(a, {t})
             all == AlikeMemories(a, {})
  <1>4. some \subseteq all /\ all \in SUBSET DOMAIN atoms
    BY <1>3 DEF AlikeMemories
  <1>5. Cardinality(all) > 1
    <2>1. some \in SUBSET all
      BY <1>4
    <2> HIDE DEF some, all
    <2>2. IsFiniteSet(all)
      BY <1>4, FS_Subset
    <2>3. /\ Cardinality(some) <= Cardinality(all)
          /\ Cardinality(some) \in Nat /\ Cardinality(all) \in Nat
      BY <2>1, <2>2, FS_Subset, FS_CardinalityType
    <2> QED BY <1>2, <2>3 DEF some
  <1>6. [kind |-> "ConsolidateMemory", target |-> all] \in MemoryConsolidation({})
    BY <1>1, <1>2, <1>3, <1>5 DEF Suggest
  <1> QED BY <1>2, <1>4, <1>6

(* Every other job suggests at least what it does after a cursor.          *)
LEMMA JobsGrow ==
  ASSUME NEW t \in Nat
  PROVE  /\ EntityDeduplication({t}) \subseteq EntityDeduplication({})
         /\ SourceTrustRecalibration({t}) \subseteq SourceTrustRecalibration({})
         /\ OntologyDriftDetection({t}) \subseteq OntologyDriftDetection({})
         /\ ContradictionClustering({t}) \subseteq ContradictionClustering({})
         /\ SummaryInvalidation({t}) \subseteq SummaryInvalidation({})
         /\ StaleBeliefDetection({t}, 3) \subseteq StaleBeliefDetection({}, 3)
         /\ DependencyInvalidation({t}) \subseteq DependencyInvalidation({})
  <1>1. Changed({t}) \subseteq Changed({})
    BY DEF Changed, ChangedSince
  <1>2. \A kind, some, all : some \subseteq all => Suggest(kind, some) \subseteq Suggest(kind, all)
    BY DEF Suggest
  <1>3. EntityDeduplication({t}) \subseteq EntityDeduplication({})
    <2> DEFINE Names(cursor) == {a \in Changed(cursor) : Detail[a].predicate = "ENTITY_NAME"}
               Same(cursor) == {p \in Names(cursor) \X Names(cursor) :
                                  /\ Detail[p[1]].object = Detail[p[2]].object
                                  /\ Detail[p[1]].tenant = Detail[p[2]].tenant}
               Pairs(cursor) == {{atoms[p[1]].subject, atoms[p[2]].subject} : p \in Same(cursor)}
               Targets(cursor) == {e \in Pairs(cursor) : Cardinality(e) = 2}
    <2>1. \A cursor : EntityDeduplication(cursor) = Suggest("SuggestEntityDeduplication", Targets(cursor))
      BY DEF EntityDeduplication
    <2>2. Same({t}) \subseteq Same({})
      BY <1>1
    <2> HIDE DEF Same
    <2>3. Pairs({t}) \subseteq Pairs({})
      BY <2>2
    <2> HIDE DEF Pairs
    <2>4. Targets({t}) \subseteq Targets({})
      BY <2>3
    <2> HIDE DEF Targets
    <2> QED BY <1>2, <2>1, <2>4
  <1>4. SourceTrustRecalibration({t}) \subseteq SourceTrustRecalibration({})
    <2> DEFINE Doubtful(cursor) == {b \in Changed(cursor) : \/ b \in Conflicted
                                                            \/ Detail[b].confidence <= LowConfidence
                                                            \/ Detail[b].taint # "Trusted"}
               Targets(cursor) == UNION {atoms[a].sources : a \in Doubtful(cursor)}
    <2>1. \A cursor : SourceTrustRecalibration(cursor) = Suggest("RecalibrateSourceTrust", Targets(cursor))
      BY DEF SourceTrustRecalibration
    <2>2. Doubtful({t}) \subseteq Doubtful({})
      BY <1>1
    <2> HIDE DEF Doubtful
    <2>3. Targets({t}) \subseteq Targets({})
      BY <2>2
    <2> HIDE DEF Targets
    <2> QED BY <1>2, <2>1, <2>3
  <1>5. OntologyDriftDetection({t}) \subseteq OntologyDriftDetection({})
    <2> DEFINE Targets(cursor) == {Detail[a].predicate : a \in Changed(cursor)} \ KnownPredicates
    <2>1. \A cursor : OntologyDriftDetection(cursor)
                        = IF KnownPredicates = {} THEN {} ELSE Suggest("FlagOntologyDrift", Targets(cursor))
      BY DEF OntologyDriftDetection
    <2>2. Targets({t}) \subseteq Targets({})
      BY <1>1
    <2> HIDE DEF Targets
    <2> QED BY <1>2, <2>1, <2>2
  <1>6. ContradictionClustering({t}) \subseteq ContradictionClustering({})
    BY <1>1, <1>2 DEF ContradictionClustering
  <1>7. SummaryInvalidation({t}) \subseteq SummaryInvalidation({})
    BY <1>1, <1>2 DEF SummaryInvalidation, ChangedSince
  <1>8. StaleBeliefDetection({t}, 3) \subseteq StaleBeliefDetection({}, 3)
    BY <1>1, <1>2 DEF StaleBeliefDetection
  <1>9. DependencyInvalidation({t}) \subseteq DependencyInvalidation({})
    BY <1>1, <1>2 DEF DependencyInvalidation
  <1> QED BY <1>3, <1>4, <1>5, <1>6, <1>7, <1>8, <1>9

LEMMA FullRunCovers ==
  ASSUME ReadInv
  PROVE  FullRunSeesAll
  <1> DEFINE full == RunAll({}, 3).suggestions
             Later(t) == RunAll({t}, 3).suggestions
             Covered(s) == \/ s \in full
                           \/ /\ s.kind = "ConsolidateMemory"
                              /\ \E f \in full : f.kind = s.kind /\ s.target \subseteq f.target
             Doubted(t, a, d) ==
               atoms[a].summary /\ (atoms[d].belief # "Accepted" \/ ExplainConflict(d) # {}) =>
                 /\ [kind |-> "InvalidateSummary", target |-> a] \in Later(t)
                 /\ atoms[d].belief = "Accepted"
                      \/ [kind |-> "InvalidateDependencies", target |-> d] \in full
  <1>1. \A cursor : RunAll(cursor, 3).suggestions =
          UNION {EntityDeduplication(cursor), SourceTrustRecalibration(cursor),
                 OntologyDriftDetection(cursor), ContradictionClustering(cursor),
                 SummaryInvalidation(cursor), MemoryConsolidation(cursor),
                 StaleBeliefDetection(cursor, 3), DependencyInvalidation(cursor),
                 CausalHypothesisRefinement}
    BY DEF RunAll
  <1> HIDE DEF full, Later
  <1>2. ASSUME NEW t \in 0..2, NEW s \in Later(t)  PROVE Covered(s)
    <2>1. t \in Nat
      OBVIOUS
    <2>2. CASE s \in MemoryConsolidation({t})
      <3>1. MemoryConsolidation({}) \subseteq full
        BY <1>1 DEF full
      <3>2. /\ s.kind = "ConsolidateMemory"
            /\ \E f \in MemoryConsolidation({}) :
                 f.kind = "ConsolidateMemory" /\ s.target \subseteq f.target
        BY <2>1, <2>2, ConsolidationGrows DEF ReadInv
      <3> QED BY <3>1, <3>2
    <2>3. CASE s \notin MemoryConsolidation({t})
      <3>1. \/ s \in EntityDeduplication({t}) \/ s \in SourceTrustRecalibration({t})
            \/ s \in OntologyDriftDetection({t}) \/ s \in ContradictionClustering({t})
            \/ s \in SummaryInvalidation({t}) \/ s \in StaleBeliefDetection({t}, 3)
            \/ s \in DependencyInvalidation({t}) \/ s \in CausalHypothesisRefinement
        BY <1>1, <2>3 DEF Later
      <3>2. \/ s \in EntityDeduplication({}) \/ s \in SourceTrustRecalibration({})
            \/ s \in OntologyDriftDetection({}) \/ s \in ContradictionClustering({})
            \/ s \in SummaryInvalidation({}) \/ s \in StaleBeliefDetection({}, 3)
            \/ s \in DependencyInvalidation({}) \/ s \in CausalHypothesisRefinement
        BY <2>1, <3>1, JobsGrow
      <3>3. s \in full
        BY <1>1, <3>2 DEF full
      <3> QED BY <3>3
    <2> QED BY <2>2, <2>3
  <1>3. ASSUME NEW t \in 0..2, NEW a \in DOMAIN atoms, NEW d \in atoms[a].deps \cap DOMAIN atoms
        PROVE  Doubted(t, a, d)
    <2> SUFFICES ASSUME atoms[a].summary,
                        atoms[d].belief # "Accepted" \/ ExplainConflict(d) # {}
                 PROVE  /\ [kind |-> "InvalidateSummary", target |-> a] \in Later(t)
                        /\ atoms[d].belief # "Accepted" =>
                             [kind |-> "InvalidateDependencies", target |-> d] \in full
      OBVIOUS
    <2>1. [kind |-> "InvalidateSummary", target |-> a] \in SummaryInvalidation({t})
      <3>1. d \in Conflicted \/ atoms[d].belief # "Accepted"
        BY DEF Conflicted, ExplainConflict
      <3> QED BY <3>1 DEF SummaryInvalidation, Suggest
    <2>2. ASSUME atoms[d].belief # "Accepted"
          PROVE  [kind |-> "InvalidateDependencies", target |-> d] \in DependencyInvalidation({})
      <3>1. <<d, a>> \in edges /\ a \in AtomId
        BY DEF ReadInv, GraphInv, DerivedFrom, FiniteGraph
      <3>2. a \in Downstream(edges, d)
        BY <3>1 DEF Downstream
      <3>3. TransitiveDependents(d) # {}
        BY <3>2, TraversalComplete DEF ReadInv, GraphInv
      <3> QED BY <2>2, <3>3 DEF DependencyInvalidation, Suggest, Changed, ChangedSince
    <2>3. SummaryInvalidation({t}) \subseteq Later(t) /\ DependencyInvalidation({}) \subseteq full
      BY <1>1 DEF Later, full
    <2> QED BY <2>1, <2>2, <2>3
  <1> QED BY <1>2, <1>3 DEF FullRunSeesAll, full, Later

(* A run of the revision jobs over everything sees whatever a run after a  *)
(* cursor sees, and no summary of what is doubted is missed, for any       *)
(* atoms, conflicts and dependencies, cycles included (report,             *)
(* summary_invalidation, dependency_invalidation).                         *)
THEOREM FullRunSees == KernelSpec => []FullRunSeesAll
  <1>1. ReadInv => FullRunSeesAll
    BY FullRunCovers
  <1> QED BY <1>1, ReadInvInductive, PTL DEF KernelSpec

-----------------------------------------------------------------------------
(***************************************************************************)
(* Recursion: whatever a step makes of a value, round after round, there   *)
(* is a function of the rounds.                                            *)
(***************************************************************************)
\* The first k rounds, from a start.
IsRunTo(f, start, step, k) ==
  f[0] = start /\ \A n \in Nat : n < k => f[n + 1] = step[n][f[n]]

LEMMA RunUnique ==
  ASSUME NEW start, NEW step, NEW f, NEW g, NEW k \in Nat, NEW m \in Nat, k <= m,
         IsRunTo(f, start, step, k), IsRunTo(g, start, step, m)
  PROVE  f[k] = g[k]
  <1> DEFINE S == {n \in Nat : n <= k => f[n] = g[n]}
  <1>1. 0 \in S
    BY DEF IsRunTo
  <1>2. ASSUME NEW n \in S PROVE n + 1 \in S
    <2> SUFFICES ASSUME n + 1 <= k PROVE f[n + 1] = g[n + 1]
      OBVIOUS
    <2>1. n \in Nat /\ n < k /\ n < m /\ f[n] = g[n]
      OBVIOUS
    <2> QED BY <2>1 DEF IsRunTo
  <1>3. S = Nat
    <2>1. S \in SUBSET Nat
      OBVIOUS
    <2> HIDE DEF S
    <2> QED BY <1>1, <1>2, <2>1, InductionOnSets
  <1> QED BY <1>3

\* All the rounds.
IsRun(f, V, start, step) ==
  f \in [Nat -> V] /\ f[0] = start /\ \A n \in Nat : f[n + 1] = step[n][f[n]]

LEMMA RunExists ==
  ASSUME NEW V, NEW start \in V, NEW step \in [Nat -> [V -> V]]
  PROVE  \E f : IsRun(f, V, start, step)
  <1> DEFINE S == {k \in Nat : \E f \in [Nat -> V] : IsRunTo(f, start, step, k)}
  <1>1. 0 \in S
    <2>1. [n \in Nat |-> start] \in [Nat -> V] /\ IsRunTo([n \in Nat |-> start], start, step, 0)
      BY DEF IsRunTo
    <2> QED BY <2>1
  <1>2. ASSUME NEW k \in S PROVE k + 1 \in S
    <2>1. PICK f \in [Nat -> V] : IsRunTo(f, start, step, k)
      OBVIOUS
    <2> DEFINE g == [n \in Nat |-> IF n = k + 1 THEN step[k][f[k]] ELSE f[n]]
    <2>2. g \in [Nat -> V]
      OBVIOUS
    <2>3. g[0] = start
      BY <2>1 DEF IsRunTo
    <2>4. ASSUME NEW n \in Nat, n < k + 1  PROVE g[n + 1] = step[n][g[n]]
      <3>1. g[n] = f[n]
        BY <2>4
      <3>2. CASE n = k
        BY <3>1, <3>2
      <3>3. CASE n < k
        <4>1. f[n + 1] = step[n][f[n]] /\ g[n + 1] = f[n + 1]
          BY <2>1, <3>3 DEF IsRunTo
        <4> QED BY <3>1, <4>1
      <3> QED BY <2>4, <3>2, <3>3
    <2>5. IsRunTo(g, start, step, k + 1)
      <3> HIDE DEF g
      <3> QED BY <2>3, <2>4 DEF IsRunTo
    <2> QED BY <2>2, <2>5
  <1>3. S = Nat
    <2>1. S \in SUBSET Nat
      OBVIOUS
    <2> HIDE DEF S
    <2> QED BY <1>1, <1>2, <2>1, InductionOnSets
  <1> DEFINE part(k) == CHOOSE f \in [Nat -> V] : IsRunTo(f, start, step, k)
             run == [k \in Nat |-> part(k)[k]]
  <1>4. ASSUME NEW k \in Nat PROVE part(k) \in [Nat -> V] /\ IsRunTo(part(k), start, step, k)
    <2>1. \E f \in [Nat -> V] : IsRunTo(f, start, step, k)
      BY <1>3
    <2> QED BY <2>1
  <1> HIDE DEF part, S
  <1>5. run \in [Nat -> V]
    BY <1>4
  <1>6. run[0] = start
    BY <1>4 DEF IsRunTo
  <1>7. ASSUME NEW n \in Nat PROVE run[n + 1] = step[n][run[n]]
    <2>1. part(n + 1)[n + 1] = step[n][part(n + 1)[n]]
      BY <1>4 DEF IsRunTo
    <2>2. part(n)[n] = part(n + 1)[n]
      BY <1>4, RunUnique
    <2> QED BY <2>1, <2>2
  <1> HIDE DEF run
  <1> QED BY <1>5, <1>6, <1>7 DEF IsRun

-----------------------------------------------------------------------------
(***************************************************************************)
(* Traces and impacts.                                                     *)
(***************************************************************************)
Ends(nodes) == {e[2] : e \in {d \in edges : d[1] \in nodes}}
Closed(nodes) == Ends(nodes) \subseteq nodes

IsReach(f, root) ==
  f = [n \in Nat |-> IF n = 0 THEN {root}
                     ELSE LET before == f[n - 1]
                          IN  before \cup {e[2] : e \in {d \in edges : d[1] \in before}}]

LEMMA ReachedRounds ==
  ASSUME FiniteGraph, NEW root
  PROVE  \E f : /\ f[0] = {root}
                /\ \A n \in Nat : f[n + 1] = f[n] \cup Ends(f[n])
                /\ Reached(root) = f[Cardinality(edges)]
  <1> DEFINE V == SUBSET ({root} \cup AtomId)
             step == [n \in Nat |-> [v \in V |-> v \cup Ends(v)]]
             start == {root}
  <1>1. start \in V /\ step \in [Nat -> [V -> V]]
    BY DEF FiniteGraph, Ends
  <1>2. PICK f : IsRun(f, V, start, step)
    <2> HIDE DEF V, step, start
    <2> QED BY <1>1, RunExists
  <1> DEFINE H(g, n) == IF n = 0 THEN {root} ELSE LET before == g[n - 1] IN before \cup Ends(before)
  <1>3. ASSUME NEW n \in Nat PROVE f[n] = H(f, n)
    <2>1. CASE n = 0
      BY <1>2, <2>1 DEF IsRun
    <2>2. CASE n # 0
      <3>1. n - 1 \in Nat /\ (n - 1) + 1 = n
        BY <2>2
      <3>2. f[n] = step[n - 1][f[n - 1]]
        BY <1>2, <3>1 DEF IsRun
      <3>3. f[n - 1] \in V
        BY <1>2, <3>1 DEF IsRun
      <3> QED BY <2>2, <3>1, <3>2, <3>3
    <2> QED BY <2>1, <2>2
  <1>4. f = [n \in Nat |-> H(f, n)]
    <2>1. f = [n \in Nat |-> f[n]]
      BY <1>2 DEF IsRun
    <2> HIDE DEF H
    <2> QED BY <1>3, <2>1
  <1>5. IsReach(f, root)
    BY <1>4 DEF IsReach, Ends
  <1> DEFINE g == CHOOSE h : IsReach(h, root)
  <1>6. IsReach(g, root) /\ Reached(root) = g[Cardinality(edges)]
    <2>1. Reached(root) = g[Cardinality(edges)]
      BY DEF Reached, IsReach
    <2> QED BY <1>5, <2>1
  <1> HIDE DEF g
  <1>7. \A n \in Nat : g[n] = H(g, n)
    <2>1. g = [n \in Nat |-> H(g, n)]
      BY <1>6 DEF IsReach, Ends
    <2> HIDE DEF H
    <2> QED BY <2>1
  <1>8. \A n \in Nat : n + 1 \in Nat /\ n + 1 # 0 /\ (n + 1) - 1 = n
    OBVIOUS
  <1>9. g[0] = {root} /\ \A n \in Nat : g[n + 1] = g[n] \cup Ends(g[n])
    BY <1>7, <1>8
  <1> QED BY <1>6, <1>9

(* The nodes a trace brings up are the root and what the graph leads to.   *)
LEMMA ReachedComplete ==
  ASSUME FiniteGraph, NEW root
  PROVE  Reached(root) = {root} \cup Downstream(edges, root)
  <1> DEFINE N == Cardinality(edges)
             Targets == {e[2] : e \in edges}
             all == {root} \cup Targets
             R == {root} \cup Downstream(edges, root)
  <1>1. PICK f : /\ f[0] = {root}
                 /\ \A n \in Nat : f[n + 1] = f[n] \cup Ends(f[n])
                 /\ Reached(root) = f[N]
    BY ReachedRounds
  <1>2. N \in Nat /\ IsFiniteSet(all) /\ Cardinality(all) \in Nat /\ Cardinality(all) <= N + 1
    <2>1. IsFiniteSet(edges) /\ N \in Nat
      BY FS_CardinalityType DEF FiniteGraph
    <2> DEFINE image == [e \in edges |-> e[2]]
    <2>2. image \in Surjection(edges, Targets)
      BY DEF Surjection
    <2>3. IsFiniteSet(Targets) /\ Cardinality(Targets) <= N /\ Cardinality(Targets) \in Nat
      <3> HIDE DEF image, Targets
      <3> QED BY <2>1, <2>2, FS_Surjection, FS_CardinalityType
    <2>4. all = Targets \cup {root}
      OBVIOUS
    <2> HIDE DEF Targets, all, N
    <2>5. IsFiniteSet(all) /\ Cardinality(all) \in {Cardinality(Targets), Cardinality(Targets) + 1}
      BY <2>3, <2>4, FS_AddElement
    <2> QED BY <2>1, <2>3, <2>5
  <1>3. \A x \in R : \A e \in edges : e[1] = x => e[2] \in R
    <2>1. \A x \in R : Succ(x) \subseteq Downstream(edges, root)
      BY DownstreamClosed
    <2> QED BY <2>1 DEF Succ, FiniteGraph
  <1> DEFINE Held(n) == /\ f[n] \in SUBSET all /\ f[n] \subseteq R /\ root \in f[n]
                        /\ Closed(f[n]) \/ Cardinality(f[n]) >= n + 1
             S == {n \in Nat : Held(n)}
  <1>4. 0 \in S
    <2>1. Cardinality(f[0]) = 1 /\ f[0] = {root}
      BY <1>1, FS_Singleton
    <2>2. f[0] \in SUBSET all /\ f[0] \subseteq R /\ root \in f[0]
      BY <2>1
    <2>3. Cardinality(f[0]) >= 0 + 1
      BY <2>1
    <2> HIDE DEF all, R
    <2> QED BY <2>2, <2>3
  <1>5. ASSUME NEW n \in S PROVE n + 1 \in S
    <2>1. f[n + 1] = f[n] \cup Ends(f[n]) /\ n \in Nat
      BY <1>1
    <2>2. Ends(f[n]) \subseteq R /\ Ends(f[n]) \subseteq all
      BY <1>3 DEF Ends
    <2>3. f[n + 1] \in SUBSET all /\ f[n + 1] \subseteq R /\ root \in f[n + 1]
      BY <2>1, <2>2
    <2>4. CASE Closed(f[n])
      <3>1. f[n + 1] = f[n]
        BY <2>1, <2>4 DEF Closed
      <3> QED BY <2>3, <2>4, <3>1
    <2>5. CASE ~Closed(f[n])
      <3>1. f[n] \in SUBSET f[n + 1] /\ f[n] # f[n + 1]
        BY <2>1, <2>5 DEF Closed
      <3>2. IsFiniteSet(f[n]) /\ IsFiniteSet(f[n + 1])
        <4> HIDE DEF all
        <4> QED BY <1>2, <2>3, FS_Subset
      <3>3. /\ Cardinality(f[n]) \in Nat /\ Cardinality(f[n + 1]) \in Nat
            /\ Cardinality(f[n]) <= Cardinality(f[n + 1])
            /\ Cardinality(f[n]) # Cardinality(f[n + 1])
        BY <3>1, <3>2, FS_Subset, FS_CardinalityType
      <3>4. Cardinality(f[n]) >= n + 1
        BY <2>5
      <3>5. Cardinality(f[n + 1]) >= (n + 1) + 1
        BY <2>1, <3>3, <3>4
      <3> QED BY <2>3, <3>5
    <2> QED BY <2>4, <2>5
  <1>6. S = Nat
    <2>1. S \in SUBSET Nat
      OBVIOUS
    <2> HIDE DEF S
    <2> QED BY <1>4, <1>5, <2>1, InductionOnSets
  <1>7. Held(N)
    BY <1>2, <1>6
  <1>8. Closed(f[N])
    <2> SUFFICES ASSUME ~Closed(f[N]) PROVE FALSE
      OBVIOUS
    <2>1. Cardinality(f[N]) >= N + 1
      BY <1>7
    <2>2. IsFiniteSet(f[N]) /\ Cardinality(f[N]) \in Nat /\ Cardinality(f[N]) <= Cardinality(all)
          /\ (Cardinality(all) = Cardinality(f[N]) => all = f[N])
      <3> HIDE DEF all
      <3> QED BY <1>2, <1>7, FS_Subset, FS_CardinalityType
    <2>3. all = f[N]
      <3> HIDE DEF all, N
      <3> QED BY <1>2, <2>1, <2>2
    <2>4. Ends(f[N]) \subseteq all
      BY DEF Ends
    <2> QED BY <2>3, <2>4 DEF Closed
  <1>9. Downstream(edges, root) \subseteq f[N]
    <2> DEFINE T == f[N] \cap AtomId
    <2>1. T \in SUBSET AtomId
      OBVIOUS
    <2>2. ASSUME NEW e \in edges, e[1] \in {root} \cup T  PROVE e[2] \in T
      <3>1. e[1] \in f[N]
        BY <1>7, <2>2
      <3>2. e[2] \in f[N]
        BY <1>8, <3>1 DEF Closed, Ends
      <3> QED BY <3>2 DEF FiniteGraph
    <2> HIDE DEF T
    <2>3. Downstream(edges, root) \subseteq T
      BY <2>1, <2>2 DEF Downstream
    <2> QED BY <2>3 DEF T
  <1> QED BY <1>1, <1>7, <1>9

(* The steps shown start at the node, or at what it leads to.              *)
LEMMA StepsShown ==
  ASSUME FiniteGraph, NEW root
  PROVE  /\ TraceFrom(root) = {e \in edges : e[1] \in {root} \cup Downstream(edges, root)}
         /\ {e[2] : e \in TraceFrom(root)} = Downstream(edges, root)
  <1>1. TraceFrom(root) = {e \in edges : e[1] \in {root} \cup Downstream(edges, root)}
    BY ReachedComplete DEF TraceFrom
  <1>2. ASSUME NEW e \in TraceFrom(root) PROVE e[2] \in Downstream(edges, root)
    <2>1. e \in edges /\ e = <<e[1], e[2]>> /\ e[2] \in AtomId
      BY <1>1 DEF FiniteGraph
    <2>2. e[2] \in Succ(e[1])
      BY <2>1 DEF Succ
    <2> QED BY <1>1, <2>2, DownstreamClosed
  <1>3. ASSUME NEW s \in Downstream(edges, root) PROVE \E e \in TraceFrom(root) : e[2] = s
    <2>1. PICK d \in {root} \cup Downstream(edges, root) : <<d, s>> \in edges
      BY LastStep DEF FiniteGraph
    <2>2. <<d, s>> \in TraceFrom(root)
      BY <1>1, <2>1
    <2> QED BY <2>2
  <1> QED BY <1>1, <1>2, <1>3

LEMMA ImpactExplained == ReadInv => ImpactIsExplained
  <1> SUFFICES ASSUME ReadInv, NEW a \in DOMAIN atoms
               PROVE  LET impact == ImpactIfRetracted(a)
                          collapse == CollapseIfSourceFalse(a)
                      IN  /\ impact.atoms = {e[2] : e \in impact.steps}
                          /\ \A e \in impact.steps : e[1] = a \/ e[1] \in impact.atoms
                          /\ collapse.atoms = impact.atoms
                          /\ collapse.beliefs \cup collapse.plans \cup collapse.memories =
                               {b \in impact.atoms \cap DOMAIN atoms :
                                  IsBelief(b) \/ atoms[b].plan \/ IsMemory(b)}
                          /\ \A b \in atoms[a].deps \cap DOMAIN atoms :
                               /\ atoms[b].sources \subseteq ExplainSupport(a).source_ids
                               /\ a \in ImpactIfRetracted(b).atoms
    BY DEF ImpactIsExplained
  <1> DEFINE below == TransitiveDependents(a)
             known == below \cap DOMAIN atoms
  <1>1. FiniteGraph /\ DerivedFrom \subseteq edges
    BY DEF ReadInv, GraphInv
  <1>2. below = Downstream(edges, a)
    BY <1>1, TraversalComplete
  <1>3. ImpactIfRetracted(a).atoms = below /\ ImpactIfRetracted(a).steps = TraceFrom(a)
    BY DEF ImpactIfRetracted
  <1>4. below = {e[2] : e \in TraceFrom(a)} /\ \A e \in TraceFrom(a) : e[1] = a \/ e[1] \in below
    BY <1>1, <1>2, StepsShown
  <1> DEFINE collapse == CollapseIfSourceFalse(a)
  <1>5. /\ collapse.atoms = below
        /\ collapse.beliefs = {b \in known : IsBelief(b)}
        /\ collapse.plans = {b \in known \ {c \in known : IsBelief(c)} : atoms[b].plan}
        /\ collapse.memories = {b \in known \ ({c \in known : IsBelief(c)}
                                  \cup {c \in known \ {d \in known : IsBelief(d)} : atoms[c].plan}) : IsMemory(b)}
    BY DEF CollapseIfSourceFalse
  <1>6. collapse.beliefs \cup collapse.plans \cup collapse.memories
          = {b \in known : IsBelief(b) \/ atoms[b].plan \/ IsMemory(b)}
    <2> HIDE DEF known, collapse
    <2> QED BY <1>5
  <1>7. ASSUME NEW b \in atoms[a].deps \cap DOMAIN atoms
        PROVE  /\ atoms[b].sources \subseteq ExplainSupport(a).source_ids
               /\ a \in ImpactIfRetracted(b).atoms
    <2>1. <<b, a>> \in DerivedFrom
      BY DEF DerivedFrom
    <2>2. <<b, a>> \in edges /\ a \in AtomId
      BY <1>1, <2>1 DEF FiniteGraph
    <2>3. a \in Downstream(edges, b)
      BY <2>2 DEF Downstream
    <2>4. a \in ImpactIfRetracted(b).atoms
      BY <1>1, <2>3, TraversalComplete DEF ImpactIfRetracted
    <2>5. ExplainSupport(a).source_ids
            = UNION {atoms[c].sources : c \in {a} \cup (atoms[a].deps \cap DOMAIN atoms)}
      BY DEF ExplainSupport
    <2> QED BY <2>4, <2>5
  <1> HIDE DEF collapse, below, known
  <1>8. known = below \cap DOMAIN atoms
    BY DEF known
  <1>9. collapse = CollapseIfSourceFalse(a)
    BY DEF collapse
  <1> QED BY <1>3, <1>4, <1>5, <1>6, <1>7, <1>8, <1>9

-----------------------------------------------------------------------------
(***************************************************************************)
(* Causal walks.                                                           *)
(***************************************************************************)
\* A walk is one link longer at its start, or at its end.
Before(paths) ==
  UNION {{<<c>> \o suffix : c \in LinksInto(suffix[1][1])} :
           suffix \in {p \in paths : \A i \in DOMAIN p : p[1][1] # p[i][2]}}

After(paths, n) ==
  UNION {{Append(prefix, c) : c \in LinksFrom(prefix[n][2])} :
           prefix \in {p \in paths : \A i \in DOMAIN p : p[n][2] # p[i][1]}}

FirstUp(event) == {<<c>> : c \in LinksInto(event)}
FirstDown(event) == {<<c>> : c \in LinksFrom(event)}

IsUp(f, event) ==
  f = [n \in Nat |-> IF n = 0 THEN FirstUp(event) ELSE Before(f[n - 1])]

IsDown(f, event) ==
  f = [n \in Nat |-> IF n = 0 THEN FirstDown(event) ELSE After(f[n - 1], n)]

Walks == SUBSET Seq(causes)

LEMMA WalksGrow ==
  /\ \A event : FirstUp(event) \in Walks /\ FirstDown(event) \in Walks
  /\ \A paths \in Walks : Before(paths) \in Walks
  /\ \A paths \in Walks, n \in Nat : After(paths, n) \in Walks
  <1>1. ASSUME NEW event PROVE FirstUp(event) \in Walks /\ FirstDown(event) \in Walks
    <2>1. \A c \in causes : <<c>> \in Seq(causes)
      OBVIOUS
    <2>2. LinksInto(event) \subseteq causes /\ LinksFrom(event) \subseteq causes
      BY DEF LinksInto, LinksFrom
    <2> QED BY <2>1, <2>2 DEF FirstUp, FirstDown, Walks
  <1>2. ASSUME NEW paths \in Walks, NEW p \in Before(paths) PROVE p \in Seq(causes)
    <2>1. PICK suffix \in paths : \E c \in LinksInto(suffix[1][1]) : p = <<c>> \o suffix
      BY DEF Before
    <2>2. PICK c \in causes : p = <<c>> \o suffix
      BY <2>1 DEF LinksInto
    <2> QED BY <2>2 DEF Walks
  <1>3. ASSUME NEW paths \in Walks, NEW n \in Nat, NEW p \in After(paths, n) PROVE p \in Seq(causes)
    <2>1. PICK prefix \in paths : \E c \in LinksFrom(prefix[n][2]) : p = Append(prefix, c)
      BY DEF After
    <2>2. PICK c \in causes : p = Append(prefix, c)
      BY <2>1 DEF LinksFrom
    <2> QED BY <2>2 DEF Walks
  <1> QED BY <1>1, <1>2, <1>3 DEF Walks

LEMMA AfterHolds ==
  ASSUME NEW paths, NEW n, NEW prefix \in paths, \A i \in DOMAIN prefix : prefix[n][2] # prefix[i][1],
         NEW c \in LinksFrom(prefix[n][2])
  PROVE  Append(prefix, c) \in After(paths, n)
  <1>1. prefix \in {p \in paths : \A i \in DOMAIN p : p[n][2] # p[i][1]}
    OBVIOUS
  <1>2. Append(prefix, c) \in {Append(prefix, d) : d \in LinksFrom(prefix[n][2])}
    OBVIOUS
  <1> DEFINE q == Append(prefix, c)
  <1> HIDE DEF q
  <1>3. q \in {Append(prefix, d) : d \in LinksFrom(prefix[n][2])}
    BY <1>2 DEF q
  <1>4. q \in After(paths, n)
    BY <1>1, <1>3 DEF After
  <1> QED BY <1>4 DEF q

LEMMA UpstreamRounds ==
  ASSUME NEW event
  PROVE  /\ WalkUpstream(event)[0] = FirstUp(event)
         /\ \A n \in Nat : WalkUpstream(event)[n + 1] = Before(WalkUpstream(event)[n])
  <1> DEFINE step == [n \in Nat |-> [v \in Walks |-> Before(v)]]
             start == FirstUp(event)
  <1>1. start \in Walks /\ step \in [Nat -> [Walks -> Walks]]
    BY WalksGrow
  <1>2. PICK f : IsRun(f, Walks, start, step)
    <2> HIDE DEF step, start
    <2> QED BY <1>1, RunExists
  <1> DEFINE H(g, n) == IF n = 0 THEN FirstUp(event) ELSE Before(g[n - 1])
  <1>3. ASSUME NEW n \in Nat PROVE f[n] = H(f, n)
    <2>1. CASE n = 0
      BY <1>2, <2>1 DEF IsRun
    <2>2. CASE n # 0
      <3>1. n - 1 \in Nat /\ (n - 1) + 1 = n
        BY <2>2
      <3>2. f[n] = step[n - 1][f[n - 1]] /\ f[n - 1] \in Walks
        BY <1>2, <3>1 DEF IsRun
      <3> QED BY <2>2, <3>1, <3>2
    <2> QED BY <2>1, <2>2
  <1>4. f = [n \in Nat |-> H(f, n)]
    <2>1. f = [n \in Nat |-> f[n]]
      BY <1>2 DEF IsRun
    <2> HIDE DEF H
    <2> QED BY <1>3, <2>1
  <1>5. IsUp(f, event)
    BY <1>4 DEF IsUp
  <1> DEFINE g == CHOOSE h : IsUp(h, event)
  <1>6. IsUp(g, event) /\ WalkUpstream(event) = g
    <2>1. WalkUpstream(event) = g
      BY DEF WalkUpstream, IsUp, FirstUp, Before
    <2> QED BY <1>5, <2>1
  <1> HIDE DEF g
  <1>7. \A n \in Nat : g[n] = H(g, n)
    <2>1. g = [n \in Nat |-> H(g, n)]
      BY <1>6 DEF IsUp
    <2> HIDE DEF H
    <2> QED BY <2>1
  <1>8. \A n \in Nat : n + 1 \in Nat /\ n + 1 # 0 /\ (n + 1) - 1 = n
    OBVIOUS
  <1>9. g[0] = FirstUp(event) /\ \A n \in Nat : g[n + 1] = Before(g[n])
    BY <1>7, <1>8
  <1> QED BY <1>6, <1>9

LEMMA DownstreamRounds ==
  ASSUME NEW event
  PROVE  /\ WalkDownstream(event)[0] = FirstDown(event)
         /\ \A n \in Nat : WalkDownstream(event)[n + 1] = After(WalkDownstream(event)[n], n + 1)
  <1> DEFINE step == [n \in Nat |-> [v \in Walks |-> After(v, n + 1)]]
             start == FirstDown(event)
  <1>1. start \in Walks /\ step \in [Nat -> [Walks -> Walks]]
    BY WalksGrow
  <1>2. PICK f : IsRun(f, Walks, start, step)
    <2> HIDE DEF step, start
    <2> QED BY <1>1, RunExists
  <1> DEFINE H(g, n) == IF n = 0 THEN FirstDown(event) ELSE After(g[n - 1], n)
  <1>3. ASSUME NEW n \in Nat PROVE f[n] = H(f, n)
    <2>1. CASE n = 0
      BY <1>2, <2>1 DEF IsRun
    <2>2. CASE n # 0
      <3>1. n - 1 \in Nat /\ (n - 1) + 1 = n
        BY <2>2
      <3>2. f[n] = step[n - 1][f[n - 1]] /\ f[n - 1] \in Walks
        BY <1>2, <3>1 DEF IsRun
      <3> QED BY <2>2, <3>1, <3>2
    <2> QED BY <2>1, <2>2
  <1>4. f = [n \in Nat |-> H(f, n)]
    <2>1. f = [n \in Nat |-> f[n]]
      BY <1>2 DEF IsRun
    <2> HIDE DEF H
    <2> QED BY <1>3, <2>1
  <1>5. IsDown(f, event)
    BY <1>4 DEF IsDown
  <1> DEFINE g == CHOOSE h : IsDown(h, event)
  <1>6. IsDown(g, event) /\ WalkDownstream(event) = g
    <2>1. WalkDownstream(event) = g
      BY DEF WalkDownstream, IsDown, FirstDown, After
    <2> QED BY <1>5, <2>1
  <1> HIDE DEF g
  <1>7. \A n \in Nat : g[n] = H(g, n)
    <2>1. g = [n \in Nat |-> H(g, n)]
      BY <1>6 DEF IsDown
    <2> HIDE DEF H
    <2> QED BY <2>1
  <1>8. \A n \in Nat : n + 1 \in Nat /\ n + 1 # 0 /\ (n + 1) - 1 = n
    OBVIOUS
  <1>9. g[0] = FirstDown(event) /\ \A n \in Nat : g[n + 1] = After(g[n], n + 1)
    BY <1>7, <1>8
  <1> QED BY <1>6, <1>9

\* A chain of n + 1 links.
Chain(p, n) ==
  /\ p \in [1..n + 1 -> causes]
  /\ \A i \in 1..n : p[i][2] = p[i + 1][1]

Led(c, q, n) == [i \in 1..n + 2 |-> IF i = 1 THEN c ELSE q[i - 1]]
Followed(q, c, n) == [i \in 1..n + 2 |-> IF i = n + 2 THEN c ELSE q[i]]

LEMMA Longer ==
  ASSUME NEW S, NEW c \in S, NEW n \in Nat, NEW q \in [1..n + 1 -> S]
  PROVE  <<c>> \o q = Led(c, q, n) /\ Append(q, c) = Followed(q, c, n)
  <1>1. q \in Seq(S) /\ Len(q) = n + 1 /\ <<c>> \in Seq(S) /\ Len(<<c>>) = 1
    OBVIOUS
  <1>2. <<c>> \o q \in Seq(S) /\ Len(<<c>> \o q) = n + 2
    BY <1>1
  <1>3. \A i \in 1..n + 2 : (<<c>> \o q)[i] = IF i = 1 THEN c ELSE q[i - 1]
    BY <1>1
  <1>4. Append(q, c) \in Seq(S) /\ Len(Append(q, c)) = n + 2
    BY <1>1
  <1>5. \A i \in 1..n + 2 : Append(q, c)[i] = IF i = n + 2 THEN c ELSE q[i]
    BY <1>1
  <1>6. ASSUME NEW w \in Seq(S), Len(w) = n + 2 PROVE w = [i \in 1..n + 2 |-> w[i]]
    <2>1. w \in [1..Len(w) -> S]
      OBVIOUS
    <2>2. w \in [1..n + 2 -> S]
      BY <1>6, <2>1
    <2> QED BY <2>2
  <1>7. <<c>> \o q = [i \in 1..n + 2 |-> (<<c>> \o q)[i]] /\ Append(q, c) = [i \in 1..n + 2 |-> Append(q, c)[i]]
    BY <1>2, <1>4, <1>6
  <1> QED BY <1>3, <1>5, <1>7 DEF Led, Followed

LEMMA FollowedBy ==
  ASSUME NEW c \in causes, NEW n \in Nat, NEW p \in [1..n + 1 -> causes]
  PROVE  Append(p, c) = Followed(p, c, n)
  BY Longer

(* What a walk up from an event finds are chains that end at it.           *)
LEMMA UpstreamChains ==
  ASSUME causes \subseteq EventId \X EventId, NEW event, NEW n \in Nat, NEW p \in WalkUpstream(event)[n]
  PROVE  Chain(p, n) /\ p[n + 1][2] = event
  <1> DEFINE W == WalkUpstream(event)
             Good(m) == \A q \in W[m] : Chain(q, m) /\ q[m + 1][2] = event
             S == {m \in Nat : Good(m)}
  <1>1. 0 \in S
    <2>1. ASSUME NEW q \in W[0] PROVE Chain(q, 0) /\ q[0 + 1][2] = event
      <3>1. PICK c \in causes : c[2] = event /\ q = <<c>>
        BY <2>1, UpstreamRounds DEF FirstUp, LinksInto
      <3>2. q \in [1..0 + 1 -> causes] /\ q[1] = c
        BY <3>1
      <3> QED BY <3>1, <3>2 DEF Chain
    <2> QED BY <2>1
  <1>2. ASSUME NEW m \in S PROVE m + 1 \in S
    <2>1. ASSUME NEW q \in W[m + 1] PROVE Chain(q, m + 1) /\ q[(m + 1) + 1][2] = event
      <3>1. q \in Before(W[m]) /\ m \in Nat
        BY <2>1, UpstreamRounds
      <3>2. PICK suffix \in W[m] : \E c \in LinksInto(suffix[1][1]) : q = <<c>> \o suffix
        BY <3>1 DEF Before
      <3>3. PICK c \in causes : c[2] = suffix[1][1] /\ q = <<c>> \o suffix
        BY <3>2 DEF LinksInto
      <3>4. Chain(suffix, m) /\ suffix[m + 1][2] = event
        BY <3>2
      <3>5. q = [i \in 1..m + 2 |-> IF i = 1 THEN c ELSE suffix[i - 1]]
        <4>1. suffix \in [1..m + 1 -> causes]
          BY <3>4 DEF Chain
        <4> QED BY <3>1, <3>3, <4>1, Longer DEF Led
      <3>6. q \in [1..(m + 1) + 1 -> causes] /\ q[(m + 1) + 1][2] = event
        BY <3>1, <3>4, <3>5 DEF Chain
      <3>7. ASSUME NEW i \in 1..m + 1 PROVE q[i][2] = q[i + 1][1]
        <4>1. CASE i = 1
          BY <3>1, <3>3, <3>5, <4>1
        <4>2. CASE i # 1
          <5>1. i - 1 \in 1..m /\ q[i] = suffix[i - 1] /\ q[i + 1] = suffix[(i - 1) + 1]
            BY <3>1, <3>5, <4>2
          <5> QED BY <3>4, <5>1 DEF Chain
        <4> QED BY <4>1, <4>2
      <3> QED BY <3>6, <3>7 DEF Chain
    <2> QED BY <2>1
  <1>3. S = Nat
    <2>1. S \in SUBSET Nat
      OBVIOUS
    <2> HIDE DEF S
    <2> QED BY <1>1, <1>2, <2>1, InductionOnSets
  <1> QED BY <1>3

(* What a walk down from an event finds are chains that start at it.       *)
LEMMA DownstreamChains ==
  ASSUME causes \subseteq EventId \X EventId, NEW event, NEW n \in Nat, NEW p \in WalkDownstream(event)[n]
  PROVE  Chain(p, n) /\ p[1][1] = event
  <1> DEFINE W == WalkDownstream(event)
             Good(m) == \A q \in W[m] : Chain(q, m) /\ q[1][1] = event
             S == {m \in Nat : Good(m)}
  <1>1. 0 \in S
    <2>1. ASSUME NEW q \in W[0] PROVE Chain(q, 0) /\ q[1][1] = event
      <3>1. PICK c \in causes : c[1] = event /\ q = <<c>>
        BY <2>1, DownstreamRounds DEF FirstDown, LinksFrom
      <3>2. q \in [1..0 + 1 -> causes] /\ q[1] = c
        BY <3>1
      <3> QED BY <3>1, <3>2 DEF Chain
    <2> QED BY <2>1
  <1>2. ASSUME NEW m \in S PROVE m + 1 \in S
    <2>1. ASSUME NEW q \in W[m + 1] PROVE Chain(q, m + 1) /\ q[1][1] = event
      <3>1. q \in After(W[m], m + 1) /\ m \in Nat
        BY <2>1, DownstreamRounds
      <3>2. PICK prefix \in W[m] : \E c \in LinksFrom(prefix[m + 1][2]) : q = Append(prefix, c)
        BY <3>1 DEF After
      <3>3. PICK c \in causes : c[1] = prefix[m + 1][2] /\ q = Append(prefix, c)
        BY <3>2 DEF LinksFrom
      <3>4. Chain(prefix, m) /\ prefix[1][1] = event
        BY <3>2
      <3>5. q = [i \in 1..m + 2 |-> IF i = m + 2 THEN c ELSE prefix[i]]
        <4>1. prefix \in [1..m + 1 -> causes]
          BY <3>4 DEF Chain
        <4>2. Append(prefix, c) = Followed(prefix, c, m)
          BY <3>1, <4>1, Longer
        <4> QED BY <3>3, <4>2 DEF Followed
      <3>6. q \in [1..(m + 1) + 1 -> causes] /\ q[1][1] = event
        BY <3>1, <3>4, <3>5 DEF Chain
      <3>7. ASSUME NEW i \in 1..m + 1 PROVE q[i][2] = q[i + 1][1]
        <4>1. CASE i = m + 1
          BY <3>1, <3>3, <3>5, <4>1
        <4>2. CASE i # m + 1
          <5>1. i \in 1..m /\ q[i] = prefix[i] /\ q[i + 1] = prefix[i + 1]
            BY <3>1, <3>5, <4>2
          <5> QED BY <3>4, <5>1 DEF Chain
        <4> QED BY <4>1, <4>2
      <3> QED BY <3>6, <3>7 DEF Chain
    <2> QED BY <2>1
  <1>3. S = Nat
    <2>1. S \in SUBSET Nat
      OBVIOUS
    <2> HIDE DEF S
    <2> QED BY <1>1, <1>2, <2>1, InductionOnSets
  <1> QED BY <1>3

(* A chain that meets no event twice is found from its end.                *)
LEMMA SimpleUpstream ==
  ASSUME NEW event, NEW n \in Nat, NEW p, Chain(p, n), Simple(p), p[n + 1][2] = event
  PROVE  p \in WalkUpstream(event)[n]
  <1> DEFINE W == WalkUpstream(event)
             Good(m) == \A q : Chain(q, m) /\ Simple(q) /\ q[m + 1][2] = event => q \in W[m]
             S == {m \in Nat : Good(m)}
  <1>1. 0 \in S
    <2>1. ASSUME NEW q, Chain(q, 0), q[0 + 1][2] = event PROVE q \in W[0]
      <3>1. q \in [1..1 -> causes] /\ q[1][2] = event
        BY <2>1 DEF Chain
      <3>2. q[1] \in LinksInto(event) /\ q = <<q[1]>>
        BY <3>1 DEF LinksInto
      <3>3. W[0] = FirstUp(event)
        BY UpstreamRounds
      <3> HIDE DEF W
      <3> QED BY <3>2, <3>3 DEF FirstUp
    <2> QED BY <2>1
  <1>2. ASSUME NEW m \in S PROVE m + 1 \in S
    <2>1. ASSUME NEW q, Chain(q, m + 1), Simple(q), q[(m + 1) + 1][2] = event PROVE q \in W[m + 1]
      <3> DEFINE c == q[1]
                 r == [i \in 1..m + 1 |-> q[i + 1]]
      <3>1. m \in Nat /\ q \in [1..m + 2 -> causes] /\ \A i \in 1..m + 1 : q[i][2] = q[i + 1][1]
        BY <2>1 DEF Chain
      <3>2. r \in [1..m + 1 -> causes] /\ c \in causes
        BY <3>1
      <3>3. Chain(r, m)
        <4>1. ASSUME NEW i \in 1..m PROVE r[i][2] = r[i + 1][1]
          <5>1. r[i] = q[i + 1] /\ r[i + 1] = q[(i + 1) + 1] /\ i + 1 \in 1..m + 1
            BY <3>1
          <5> QED BY <3>1, <5>1
        <4> HIDE DEF r
        <4> QED BY <3>2, <4>1 DEF Chain
      <3>4. \A i \in 1..m + 1 : r[i] = q[i + 1] /\ i + 1 \in DOMAIN q /\ DOMAIN r = 1..m + 1
        BY <3>1
      <3>5. Simple(r)
        <4>1. ASSUME NEW i \in DOMAIN r, NEW j \in DOMAIN r, i # j
              PROVE  r[i][1] # r[j][1] /\ r[i][2] # r[j][2]
          <5>1. DOMAIN r = 1..m + 1
            OBVIOUS
          <5>2. i + 1 \in DOMAIN q /\ j + 1 \in DOMAIN q /\ i + 1 # j + 1
            BY <3>1, <4>1, <5>1
          <5> HIDE DEF r
          <5> QED BY <2>1, <3>4, <5>1, <5>2 DEF Simple
        <4> HIDE DEF r
        <4> QED BY <4>1 DEF Simple
      <3>6. r \in W[m]
        <4>1. r[m + 1][2] = event
          BY <2>1, <3>1
        <4> HIDE DEF r, W
        <4> QED BY <3>3, <3>5, <4>1
      <3>7. \A i \in DOMAIN r : r[1][1] # r[i][2]
        <4>1. r[1][1] = q[1][2]
          BY <3>1
        <4>2. ASSUME NEW i \in DOMAIN r PROVE r[i][2] # q[1][2]
          <5>1. DOMAIN r = 1..m + 1
            OBVIOUS
          <5>2. r[i] = q[i + 1] /\ i + 1 \in DOMAIN q /\ 1 \in DOMAIN q /\ i + 1 # 1
            BY <3>1, <5>1
          <5> HIDE DEF r
          <5> QED BY <2>1, <5>2 DEF Simple
        <4> QED BY <4>1, <4>2
      <3>8. c \in LinksInto(r[1][1])
        BY <3>1 DEF LinksInto
      <3>9. q = <<c>> \o r
        <4>1. <<c>> \o r = Led(c, r, m)
          <5> HIDE DEF c, r
          <5> QED BY <3>1, <3>2, Longer
        <4>2. ASSUME NEW i \in 1..m + 2 PROVE q[i] = Led(c, r, m)[i]
          BY <3>1 DEF Led
        <4>3. q = [i \in 1..m + 2 |-> q[i]]
          BY <3>1
        <4>4. Led(c, r, m) = [i \in 1..m + 2 |-> Led(c, r, m)[i]]
          BY DEF Led
        <4> HIDE DEF c, r
        <4> QED BY <4>1, <4>2, <4>3, <4>4
      <3>10. q \in Before(W[m])
        <4> HIDE DEF c, r, W
        <4>1. r \in {path \in W[m] : \A i \in DOMAIN path : path[1][1] # path[i][2]}
          BY <3>6, <3>7
        <4>2. q \in {<<d>> \o r : d \in LinksInto(r[1][1])}
          BY <3>8, <3>9
        <4> QED BY <4>1, <4>2 DEF Before
      <3> QED BY <3>1, <3>10, UpstreamRounds
    <2> QED BY <2>1
  <1>3. S = Nat
    <2>1. S \in SUBSET Nat
      OBVIOUS
    <2> HIDE DEF S
    <2> QED BY <1>1, <1>2, <2>1, InductionOnSets
  <1> QED BY <1>3

(* ... and from its start.                                                 *)
LEMMA SimpleDownstream ==
  ASSUME NEW event, NEW n \in Nat, NEW p, Chain(p, n), Simple(p), p[1][1] = event
  PROVE  p \in WalkDownstream(event)[n]
  <1> DEFINE W == WalkDownstream(event)
             Good(m) == \A q : Chain(q, m) /\ Simple(q) /\ q[1][1] = event => q \in W[m]
             S == {m \in Nat : Good(m)}
  <1>1. 0 \in S
    <2>1. ASSUME NEW q, Chain(q, 0), q[1][1] = event PROVE q \in W[0]
      <3>1. q \in [1..1 -> causes] /\ q[1][1] = event
        BY <2>1 DEF Chain
      <3>2. q[1] \in LinksFrom(event) /\ q = <<q[1]>>
        BY <3>1 DEF LinksFrom
      <3>3. W[0] = FirstDown(event)
        BY DownstreamRounds
      <3> HIDE DEF W
      <3> QED BY <3>2, <3>3 DEF FirstDown
    <2> QED BY <2>1
  <1>2. ASSUME NEW m \in S PROVE m + 1 \in S
    <2>1. ASSUME NEW q, Chain(q, m + 1), Simple(q), q[1][1] = event PROVE q \in W[m + 1]
      <3> DEFINE c == q[m + 2]
                 r == [i \in 1..m + 1 |-> q[i]]
      <3>1. m \in Nat /\ q \in [1..m + 2 -> causes] /\ \A i \in 1..m + 1 : q[i][2] = q[i + 1][1]
        BY <2>1 DEF Chain
      <3>2. r \in [1..m + 1 -> causes] /\ c \in causes
        BY <3>1
      <3>3. Chain(r, m)
        <4>1. ASSUME NEW i \in 1..m PROVE r[i][2] = r[i + 1][1]
          <5>1. r[i] = q[i] /\ r[i + 1] = q[i + 1] /\ i \in 1..m + 1
            BY <3>1
          <5> QED BY <3>1, <5>1
        <4> HIDE DEF r
        <4> QED BY <3>2, <4>1 DEF Chain
      <3>4. \A i \in 1..m + 1 : r[i] = q[i] /\ i \in DOMAIN q /\ DOMAIN r = 1..m + 1
        BY <3>1
      <3>5. Simple(r)
        <4>1. ASSUME NEW i \in DOMAIN r, NEW j \in DOMAIN r, i # j
              PROVE  r[i][1] # r[j][1] /\ r[i][2] # r[j][2]
          <5>1. DOMAIN r = 1..m + 1
            OBVIOUS
          <5>2. i \in DOMAIN q /\ j \in DOMAIN q
            BY <3>1, <5>1
          <5> HIDE DEF r
          <5> QED BY <2>1, <3>4, <4>1, <5>1, <5>2 DEF Simple
        <4> HIDE DEF r
        <4> QED BY <4>1 DEF Simple
      <3>6. r \in W[m]
        <4>1. r[1][1] = event
          BY <2>1, <3>1
        <4> HIDE DEF r, W
        <4> QED BY <3>3, <3>5, <4>1
      <3>7. \A i \in DOMAIN r : r[m + 1][2] # r[i][1]
        <4>1. r[m + 1][2] = q[m + 2][1]
          BY <3>1
        <4>2. ASSUME NEW i \in DOMAIN r PROVE r[i][1] # q[m + 2][1]
          <5>1. DOMAIN r = 1..m + 1
            OBVIOUS
          <5>2. r[i] = q[i] /\ i \in DOMAIN q /\ m + 2 \in DOMAIN q /\ i # m + 2
            BY <3>1, <5>1
          <5> HIDE DEF r
          <5> QED BY <2>1, <5>2 DEF Simple
        <4> QED BY <4>1, <4>2
      <3>8. c \in LinksFrom(r[m + 1][2])
        BY <3>1 DEF LinksFrom
      <3>9. q = Append(r, c)
        <4>1. Append(r, c) = Followed(r, c, m)
          <5> HIDE DEF c, r
          <5> QED BY <3>1, <3>2, Longer
        <4>2. ASSUME NEW i \in 1..m + 2 PROVE q[i] = Followed(r, c, m)[i]
          BY <3>1 DEF Followed
        <4>3. q = [i \in 1..m + 2 |-> q[i]]
          BY <3>1
        <4>4. Followed(r, c, m) = [i \in 1..m + 2 |-> Followed(r, c, m)[i]]
          BY DEF Followed
        <4> HIDE DEF c, r
        <4> QED BY <4>1, <4>2, <4>3, <4>4
      <3>10. q \in After(W[m], m + 1)
        <4> HIDE DEF c, r, W
        <4> QED BY <3>6, <3>7, <3>8, <3>9 DEF After
      <3> QED BY <3>1, <3>10, DownstreamRounds
    <2> QED BY <2>1
  <1>3. S = Nat
    <2>1. S \in SUBSET Nat
      OBVIOUS
    <2> HIDE DEF S
    <2> QED BY <1>1, <1>2, <2>1, InductionOnSets
  <1> QED BY <1>3

(* From its end a simple path is found as a cause, from its start as an    *)
(* effect, within the same depth.                                          *)
LEMMA CausesMirror ==
  ASSUME causes \subseteq EventId \X EventId, NEW depth \in Nat, NEW x, NEW y
  PROVE  {p \in WhatCaused(y, depth) : Simple(p) /\ p[1][1] = x}
           = {p \in WhatMightHappenNext(x, depth) : Simple(p) /\ p[Len(p)][2] = y}
  <1>1. ASSUME NEW p \in WhatCaused(y, depth), Simple(p), p[1][1] = x
        PROVE  p \in WhatMightHappenNext(x, depth) /\ p[Len(p)][2] = y
    <2>1. PICK n \in 0..depth - 1 : p \in WalkUpstream(y)[n]
      BY DEF WhatCaused
    <2>2. n \in Nat
      OBVIOUS
    <2>3. Chain(p, n) /\ p[n + 1][2] = y
      BY <2>1, <2>2, UpstreamChains
    <2>4. Len(p) = n + 1
      BY <2>2, <2>3 DEF Chain
    <2>5. p \in WalkDownstream(x)[n]
      BY <1>1, <2>2, <2>3, SimpleDownstream
    <2> QED BY <2>1, <2>3, <2>4, <2>5 DEF WhatMightHappenNext
  <1>2. ASSUME NEW p \in WhatMightHappenNext(x, depth), Simple(p), p[Len(p)][2] = y
        PROVE  p \in WhatCaused(y, depth) /\ p[1][1] = x
    <2>1. PICK n \in 0..depth - 1 : p \in WalkDownstream(x)[n]
      BY DEF WhatMightHappenNext
    <2>2. n \in Nat
      OBVIOUS
    <2>3. Chain(p, n) /\ p[1][1] = x
      BY <2>1, <2>2, DownstreamChains
    <2>4. Len(p) = n + 1
      BY <2>2, <2>3 DEF Chain
    <2>5. p \in WalkUpstream(y)[n]
      BY <1>2, <2>2, <2>3, <2>4, SimpleUpstream
    <2> QED BY <2>1, <2>3, <2>5 DEF WhatCaused
  <1> QED BY <1>1, <1>2

\* What links lead to, round by round.
Effects(events) == {c[2] : c \in {d \in causes : d[1] \in events}}

IsLed(f, event) ==
  f = [n \in Nat |-> IF n = 0 THEN {event} ELSE LET before == f[n - 1] IN Effects(before)]

LEMMA LedRounds ==
  ASSUME causes \subseteq EventId \X EventId, NEW event
  PROVE  \E f : /\ f[0] = {event}
                /\ \A n \in Nat : f[n + 1] = Effects(f[n])
                /\ \A d : LedTo(event, d) = UNION {f[n] : n \in 1..d}
  <1> DEFINE V == SUBSET ({event} \cup EventId)
             step == [n \in Nat |-> [v \in V |-> Effects(v)]]
             start == {event}
  <1>1. start \in V /\ step \in [Nat -> [V -> V]]
    BY DEF Effects
  <1>2. PICK f : IsRun(f, V, start, step)
    <2> HIDE DEF V, step, start
    <2> QED BY <1>1, RunExists
  <1> DEFINE H(g, n) == IF n = 0 THEN {event} ELSE LET before == g[n - 1] IN Effects(before)
  <1>3. ASSUME NEW n \in Nat PROVE f[n] = H(f, n)
    <2>1. CASE n = 0
      BY <1>2, <2>1 DEF IsRun
    <2>2. CASE n # 0
      <3>1. n - 1 \in Nat /\ (n - 1) + 1 = n
        BY <2>2
      <3>2. f[n] = step[n - 1][f[n - 1]] /\ f[n - 1] \in V
        BY <1>2, <3>1 DEF IsRun
      <3> QED BY <2>2, <3>1, <3>2
    <2> QED BY <2>1, <2>2
  <1>4. f = [n \in Nat |-> H(f, n)]
    <2>1. f = [n \in Nat |-> f[n]]
      BY <1>2 DEF IsRun
    <2> HIDE DEF H
    <2> QED BY <1>3, <2>1
  <1>5. IsLed(f, event)
    BY <1>4 DEF IsLed
  <1> DEFINE g == CHOOSE h : IsLed(h, event)
  <1>6. IsLed(g, event) /\ \A d : LedTo(event, d) = UNION {g[n] : n \in 1..d}
    <2>1. \A d : LedTo(event, d) = UNION {g[n] : n \in 1..d}
      BY DEF LedTo, IsLed, Effects
    <2> QED BY <1>5, <2>1
  <1> HIDE DEF g
  <1>7. \A n \in Nat : g[n] = H(g, n)
    <2>1. g = [n \in Nat |-> H(g, n)]
      BY <1>6 DEF IsLed
    <2> HIDE DEF H
    <2> QED BY <2>1
  <1>8. \A n \in Nat : n + 1 \in Nat /\ n + 1 # 0 /\ (n + 1) - 1 = n
    OBVIOUS
  <1>9. g[0] = {event} /\ \A n \in Nat : g[n + 1] = Effects(g[n])
    BY <1>7, <1>8
  <1> QED BY <1>6, <1>9

(* The links of a path down lead away from the event one round after the   *)
(* other.                                                                  *)
LEMMA PathLed ==
  ASSUME causes \subseteq EventId \X EventId, NEW event, NEW f, f[0] = {event},
         \A m \in Nat : f[m + 1] = Effects(f[m]),
         NEW n \in Nat, NEW p \in WalkDownstream(event)[n], NEW i \in 1..n + 1
  PROVE  p[i][2] \in f[i]
  <1>1. Chain(p, n) /\ p[1][1] = event
    BY DownstreamChains
  <1>2. p \in [1..n + 1 -> causes] /\ \A j \in 1..n : p[j][2] = p[j + 1][1]
    BY <1>1 DEF Chain
  <1>3. \A m \in Nat, c \in causes : c[1] \in f[m] => c[2] \in f[m + 1]
    BY DEF Effects
  <1> DEFINE S == {m \in Nat : m \in 1..n + 1 => p[m][2] \in f[m]}
  <1>4. 0 \in S
    OBVIOUS
  <1>5. ASSUME NEW m \in S, m + 1 \in 1..n + 1 PROVE p[m + 1][2] \in f[m + 1]
    <2>1. m \in Nat /\ p[m + 1] \in causes
      BY <1>2, <1>5
    <2>2. CASE m = 0
      <3>1. p[m + 1][1] \in f[m]
        BY <1>1, <2>2
      <3> QED BY <1>3, <2>1, <3>1
    <2>3. CASE m # 0
      <3>1. m \in 1..n /\ m \in 1..n + 1
        BY <1>5, <2>1, <2>3
      <3>2. p[m + 1][1] = p[m][2] /\ p[m][2] \in f[m]
        BY <1>2, <3>1
      <3> QED BY <1>3, <2>1, <3>2
    <2> QED BY <2>2, <2>3
  <1>6. S = Nat
    <2>1. S \in SUBSET Nat /\ \A m \in S : m + 1 \in S
      BY <1>5
    <2> HIDE DEF S
    <2> QED BY <1>4, <2>1, InductionOnSets
  <1>7. i \in Nat
    OBVIOUS
  <1> QED BY <1>6, <1>7

\* Some path of at most n + 1 links ends at z.
PathTo(event, n, z) == \E m \in 0..n : \E p \in WalkDownstream(event)[m] : p[m + 1][2] = z

(* Whatever links lead to, a path leads to in no more rounds: a shortest   *)
(* way there meets no event again that it set out from.                    *)
LEMMA LedByPath ==
  ASSUME causes \subseteq EventId \X EventId, NEW event, NEW f, f[0] = {event},
         \A m \in Nat : f[m + 1] = Effects(f[m]),
         NEW n \in Nat, NEW z \in f[n + 1]
  PROVE  PathTo(event, n, z)
  <1> DEFINE W == WalkDownstream(event)
             Known(e, k) == \E m \in 0..k : \E p \in W[m] : p[m + 1][2] = e
             S == {k \in Nat : \A j \in 0..k : \A e \in f[j + 1] : Known(e, j)}
  <1>1. \A m \in Nat, c \in causes : c[1] \in f[m] => c[2] \in f[m + 1]
    BY DEF Effects
  <1>2. \A m \in Nat : \A e \in f[m + 1] : \E w \in f[m] : <<w, e>> \in causes
    <2>1. ASSUME NEW m \in Nat, NEW e \in f[m + 1] PROVE \E w \in f[m] : <<w, e>> \in causes
      <3>1. PICK c \in causes : c[1] \in f[m] /\ c[2] = e
        BY DEF Effects
      <3>2. c = <<c[1], c[2]>>
        OBVIOUS
      <3> QED BY <3>1, <3>2
    <2> QED BY <2>1
  <1>3. 0 \in S
    <2>1. ASSUME NEW e \in f[0 + 1] PROVE Known(e, 0)
      <3>1. PICK w \in f[0] : <<w, e>> \in causes
        BY <1>2
      <3>2. <<event, e>> \in LinksFrom(event)
        BY <3>1 DEF LinksFrom
      <3>3. <<<<event, e>>>> \in W[0]
        <4>1. W[0] = FirstDown(event)
          BY DownstreamRounds
        <4> HIDE DEF W
        <4> QED BY <3>2, <4>1 DEF FirstDown
      <3>4. <<<<event, e>>>>[0 + 1][2] = e /\ 0 \in 0..0
        OBVIOUS
      <3> HIDE DEF W
      <3> QED BY <3>3, <3>4
    <2> QED BY <2>1
  <1>4. ASSUME NEW k \in S PROVE k + 1 \in S
    <2>1. ASSUME NEW e \in f[(k + 1) + 1] PROVE Known(e, k + 1)
      <3>1. k \in Nat
        OBVIOUS
      <3>2. CASE \E j \in 0..k : e \in f[j + 1]
        <4>1. PICK j \in 0..k : e \in f[j + 1]
          BY <3>2
        <4>2. Known(e, j)
          BY <4>1
        <4>3. \A m \in 0..j : m \in 0..k + 1
          BY <3>1
        <4> QED BY <4>2, <4>3
      <3>3. CASE \A j \in 0..k : e \notin f[j + 1]
        <4>1. PICK w \in f[k + 1] : <<w, e>> \in causes
          BY <1>2, <3>1
        <4>2. \A j \in 0..k : w \notin f[j]
          <5>1. \A j \in 0..k : j \in Nat
            OBVIOUS
          <5>2. <<w, e>>[1] = w /\ <<w, e>>[2] = e
            OBVIOUS
          <5> QED BY <1>1, <3>3, <4>1, <5>1, <5>2
        <4>3. \E m \in 0..k : \E p \in W[m] : p[m + 1][2] = w
          <5>1. Known(w, k)
            BY <3>1, <4>1
          <5> QED BY <5>1
        <4>4. PICK m \in 0..k : \E p \in W[m] : p[m + 1][2] = w
          BY <4>3
        <4>5. PICK p \in W[m] : p[m + 1][2] = w
          BY <4>4
        <4>6. m \in Nat /\ \A i \in 1..m + 1 : p[i][2] \in f[i]
          <5>1. m \in Nat
            BY <3>1, <4>3
          <5> QED BY <5>1, PathLed
        <4>7. m = k
          <5>1. w \in f[m + 1]
            BY <4>5, <4>6
          <5>2. m + 1 \notin 0..k
            BY <4>2, <5>1
          <5> QED BY <3>1, <4>5, <5>2
        <4>8. Chain(p, k) /\ p[1][1] = event
          BY <3>1, <4>7, DownstreamChains
        <4>9. DOMAIN p = 1..k + 1
          BY <4>8 DEF Chain
        <4>10. \A i \in DOMAIN p : p[k + 1][2] # p[i][1]
          <5>1. ASSUME NEW i \in 1..k + 1 PROVE w # p[i][1]
            <6>1. CASE i = 1
              <7>1. 0 \in 0..k
                BY <3>1
              <7> QED BY <4>2, <4>8, <6>1, <7>1
            <6>2. CASE i # 1
              <7>1. i - 1 \in 1..k /\ i - 1 \in 0..k /\ (i - 1) + 1 = i /\ i - 1 \in 1..m + 1
                BY <3>1, <4>7, <6>2
              <7>2. p[i][1] = p[i - 1][2]
                BY <4>8, <7>1 DEF Chain
              <7> QED BY <4>2, <4>6, <7>1, <7>2
            <6> QED BY <6>1, <6>2
          <5> QED BY <4>5, <4>7, <4>9, <5>1
        <4> DEFINE c == <<w, e>>
                   q == Append(p, c)
        <4>11. c \in LinksFrom(p[k + 1][2]) /\ c \in causes /\ c[2] = e
          BY <4>1, <4>5, <4>7 DEF LinksFrom
        <4>12. q \in After(W[k], k + 1)
          <5> HIDE DEF c, W
          <5> QED BY <4>5, <4>7, <4>10, <4>11, AfterHolds
        <4>13. q \in W[k + 1]
          BY <3>1, <4>12, DownstreamRounds
        <4>14. q[(k + 1) + 1][2] = e
          <5>1. p \in [1..k + 1 -> causes]
            BY <4>8 DEF Chain
          <5>2. q = Followed(p, c, k)
            <6>1. k \in Nat /\ c \in causes
              BY <3>1, <4>11
            <6>2. Append(p, c) = Followed(p, c, k)
              <7> HIDE DEF c, W, Known, S
              <7> QED BY <5>1, <6>1, FollowedBy
            <6> QED BY <6>2
          <5>3. (k + 1) + 1 \in 1..k + 2 /\ (k + 1) + 1 = k + 2
            BY <3>1
          <5>4. Followed(p, c, k)[(k + 1) + 1] = c
            BY <5>3 DEF Followed
          <5> HIDE DEF q, c
          <5> QED BY <4>11, <5>2, <5>4
        <4>15. k + 1 \in 0..k + 1
          BY <3>1
        <4> HIDE DEF q, W
        <4> QED BY <4>13, <4>14, <4>15
      <3> QED BY <3>2, <3>3
    <2>2. k \in Nat /\ \A j \in 0..k + 1 : j = k + 1 \/ j \in 0..k
      OBVIOUS
    <2> HIDE DEF Known
    <2> QED BY <2>1, <2>2
  <1>5. S = Nat
    <2>1. S \in SUBSET Nat
      OBVIOUS
    <2> HIDE DEF S
    <2> QED BY <1>3, <1>4, <2>1, InductionOnSets
  <1>6. n \in S /\ n \in 0..n
    <2>1. n \in 0..n
      OBVIOUS
    <2> HIDE DEF S
    <2> QED BY <1>5, <2>1
  <1> QED BY <1>6 DEF PathTo

(* What breaks without an event is what links lead to within the depth.    *)
LEMMA BreaksLed ==
  ASSUME causes \subseteq EventId \X EventId, NEW depth \in Nat, NEW event
  PROVE  WhatBreaksWithout(event, depth) = LedTo(event, depth)
  <1>1. PICK f : /\ f[0] = {event}
                 /\ \A n \in Nat : f[n + 1] = Effects(f[n])
                 /\ \A d : LedTo(event, d) = UNION {f[n] : n \in 1..d}
    BY LedRounds
  <1>2. ASSUME NEW z \in WhatBreaksWithout(event, depth) PROVE \E n \in 1..depth : z \in f[n]
    <2>1. PICK p \in WhatMightHappenNext(event, depth) : \E i \in DOMAIN p : z = p[i][2]
      BY DEF WhatBreaksWithout
    <2>2. PICK i \in DOMAIN p : z = p[i][2]
      BY <2>1
    <2>3. PICK n \in 0..depth - 1 : p \in WalkDownstream(event)[n]
      BY DEF WhatMightHappenNext
    <2>4. n \in Nat
      OBVIOUS
    <2>5. Chain(p, n)
      BY <2>3, <2>4, DownstreamChains
    <2>6. i \in 1..n + 1
      BY <2>5 DEF Chain
    <2>7. p[i][2] \in f[i]
      BY <1>1, <2>3, <2>4, <2>6, PathLed
    <2>8. i \in 1..depth
      BY <2>3, <2>6
    <2> QED BY <2>2, <2>7, <2>8
  <1>3. ASSUME NEW n \in 1..depth, NEW z \in f[n] PROVE z \in WhatBreaksWithout(event, depth)
    <2>1. PICK k \in Nat : k + 1 = n
      <3>1. n - 1 \in Nat /\ (n - 1) + 1 = n
        OBVIOUS
      <3> QED BY <3>1
    <2>2. \E m \in 0..k : \E p \in WalkDownstream(event)[m] : p[m + 1][2] = z
      <3>1. z \in f[k + 1]
        BY <2>1
      <3>2. f[0] = {event}
        BY <1>1
      <3>3. \A m \in Nat : f[m + 1] = Effects(f[m])
        BY <1>1
      <3>4. PathTo(event, k, z)
        BY <3>1, <3>2, <3>3, LedByPath
      <3> QED BY <3>4 DEF PathTo
    <2>3. PICK m \in 0..k : \E p \in WalkDownstream(event)[m] : p[m + 1][2] = z
      BY <2>2
    <2>4. PICK p \in WalkDownstream(event)[m] : p[m + 1][2] = z
      BY <2>3
    <2>5. m \in Nat /\ m \in 0..depth - 1
      BY <2>1
    <2>6. Chain(p, m)
      BY <2>4, <2>5, DownstreamChains
    <2>7. m + 1 \in DOMAIN p
      BY <2>5, <2>6 DEF Chain
    <2>8. p \in WhatMightHappenNext(event, depth)
      BY <2>4, <2>5 DEF WhatMightHappenNext
    <2> QED BY <2>4, <2>7, <2>8 DEF WhatBreaksWithout
  <1>4. LedTo(event, depth) = UNION {f[n] : n \in 1..depth}
    BY <1>1
  <1> QED BY <1>2, <1>3, <1>4

LEMMA MirrorsEffects == KernelTypeOK => CausesMirrorEffects
  <1> SUFFICES ASSUME KernelTypeOK, NEW depth \in 0..3, NEW x \in EventId, NEW y \in EventId
               PROVE  /\ {p \in WhatCaused(y, depth) : Simple(p) /\ p[1][1] = x} =
                           {p \in WhatMightHappenNext(x, depth) : Simple(p) /\ p[Len(p)][2] = y}
                      /\ WhatBreaksWithout(x, depth) = LedTo(x, depth)
    BY DEF CausesMirrorEffects
  <1>1. causes \subseteq EventId \X EventId /\ depth \in Nat
    BY DEF KernelTypeOK
  <1>2. WhatBreaksWithout(x, depth) = LedTo(x, depth)
    BY <1>1, BreaksLed
  <1>3. {p \in WhatCaused(y, depth) : Simple(p) /\ p[1][1] = x}
          = {p \in WhatMightHappenNext(x, depth) : Simple(p) /\ p[Len(p)][2] = y}
    BY <1>1, CausesMirror
  <1> QED BY <1>2, <1>3

(* What caused an event and what it might lead to mirror each other, for   *)
(* any links, cycles included, and each answer about a change tells the    *)
(* same story (walk_upstream, walk_downstream, trace_from,                 *)
(* transitive_dependents, collapse_if_source_false).                       *)
THEOREM TracesAlwaysAgree == KernelSpec => []TracesAgree
  <1>1. ReadInv => TracesAgree
    BY MirrorsEffects, ImpactExplained DEF TracesAgree, ReadInv
  <1> QED BY <1>1, ReadInvInductive, PTL DEF KernelSpec

-----------------------------------------------------------------------------
(***************************************************************************)
(* Contexts.                                                               *)
(***************************************************************************)
PreferredTo(set, r) == [a \in set |-> {b \in set : Preferred(b, a, r)}]

(* Preference puts atoms in order: relevance and confidence are counted,   *)
(* and ids, which break ties, are distinct.                                *)
LEMMA PreferenceOrders ==
  ASSUME KernelTypeOK, NEW set \in SUBSET DOMAIN atoms, NEW r
  PROVE  Orders(PreferredTo(set, r), set)
  <1>1. ASSUME NEW a \in set PROVE /\ Relevance(a, r) \in Nat /\ Detail[a].confidence \in Nat
                                   /\ Detail[a].rank \in Nat
    <2>1. a \in AtomId
      BY DEF KernelTypeOK
    <2>2. \A c : Weight(c, 2) \in Nat /\ Weight(c, 3) \in Nat /\ Weight(c, 4) \in Nat /\ Weight(c, 5) \in Nat
      BY DEF Weight
    <2>3. Relevance(a, r) \in Nat
      <3>1. /\ Weight(atoms[a].subject \in r.mentions, 4) \in Nat
            /\ Weight(Detail[a].predicate \in r.mentions, 3) \in Nat
            /\ Weight(Detail[a].object \in r.mentions, 4) \in Nat
            /\ Weight(IsMemory(a) /\ atoms[a].agent = r.agent, 5) \in Nat
            /\ Weight(atoms[a].belief = "Disputed", 2) \in Nat
        BY DEF Weight
      <3> QED BY <3>1 DEF Relevance
    <2> QED BY <2>1, <2>3, DetailAssumption
  <1>2. ASSUME NEW a \in set, NEW b \in set, Detail[a].rank = Detail[b].rank PROVE a = b
    BY <1>2, DetailAssumption DEF KernelTypeOK
  <1>3. \A x \in set : ~Preferred(x, x, r)
    BY <1>1 DEF Preferred
  <1>4. \A x, y \in set : x = y \/ Preferred(x, y, r) \/ Preferred(y, x, r)
    BY <1>1, <1>2 DEF Preferred
  <1>5. \A x, y, z \in set : Preferred(z, x, r) /\ Preferred(x, y, r) => Preferred(z, y, r)
    BY <1>1 DEF Preferred
  <1> QED BY <1>3, <1>4, <1>5 DEF Orders, PreferredTo

(* Sorting lists every atom.                                               *)
LEMMA SortedListed ==
  ASSUME KernelTypeOK, NEW set \in SUBSET DOMAIN atoms, IsFiniteSet(set), NEW r
  PROVE  /\ Cardinality(set) \in Nat
         /\ Sorted(set, r) \in [1..Cardinality(set) -> set]
         /\ \A a \in set : \E i \in 1..Cardinality(set) : Sorted(set, r)[i] = a
  <1> DEFINE N == Cardinality(set)
             before == PreferredTo(set, r)
  <1>1. Orders(before, set)
    BY PreferenceOrders
  <1>2. /\ N \in Nat
        /\ \A x \in set : Cardinality(before[x]) \in 0..(N - 1)
        /\ \A x, y \in set : Cardinality(before[x]) = Cardinality(before[y]) => x = y
        /\ \A n \in 0..(N - 1) : \E x \in set : Cardinality(before[x]) = n
    <2> HIDE DEF before
    <2> QED BY <1>1, RankOnto
  <1>3. \A a \in set : before[a] = {b \in set : Preferred(b, a, r)}
    BY DEF PreferredTo
  <1> DEFINE Better(a) == {b \in set : Preferred(b, a, r)}
             At(i) == CHOOSE a \in set : Cardinality(Better(a)) = i - 1
  <1>4. Sorted(set, r) = [i \in 1..N |-> At(i)]
    BY DEF Sorted
  <1>5. ASSUME NEW i \in 1..N PROVE At(i) \in set /\ Cardinality(before[At(i)]) = i - 1
    <2>1. \E x \in set : Cardinality(Better(x)) = i - 1
      <3>1. \E x \in set : Cardinality(before[x]) = i - 1
        BY <1>2
      <3> QED BY <1>3, <3>1
    <2>2. At(i) \in set /\ Cardinality(Better(At(i))) = i - 1
      <3> HIDE DEF Better, N
      <3> QED BY <2>1
    <2> QED BY <1>3, <2>2
  <1>6. ASSUME NEW a \in set PROVE \E i \in 1..N : At(i) = a
    <2> DEFINE i == Cardinality(before[a]) + 1
    <2>1. i \in 1..N /\ i - 1 = Cardinality(before[a])
      BY <1>2
    <2>2. At(i) \in set /\ Cardinality(before[At(i)]) = Cardinality(before[a])
      BY <1>5, <2>1
    <2>3. At(i) = a
      BY <1>2, <2>2
    <2> QED BY <2>1, <2>3
  <1> HIDE DEF At, Better, before
  <1> QED BY <1>2, <1>4, <1>5, <1>6

Nothing(r) == [tokens |-> 0, budget |-> r.budget, atoms |-> {}, excluded |-> {}]

IsPack(f, set, r) ==
  f = [n \in 0..Cardinality(set) |->
         IF n = 0 THEN Nothing(r) ELSE Take(f[n - 1], Sorted(set, r)[n])]

Packs(set, B) == [tokens : Nat, budget : B, atoms : SUBSET set, excluded : SUBSET set]

LEMMA TakeType ==
  ASSUME NEW set, NEW B, NEW v \in Packs(set, B), NEW a \in set, Detail[a].tokens \in Nat
  PROVE  Take(v, a) \in Packs(set, B)
  <1>1. v.tokens + Detail[a].tokens \in Nat /\ v.atoms \cup {a} \in SUBSET set /\ v.excluded \cup {a} \in SUBSET set
    BY DEF Packs
  <1> DEFINE t == v.tokens + Detail[a].tokens
             more == v.atoms \cup {a}
             out == v.excluded \cup {a}
  <1>2. Take(v, a) \in {[v EXCEPT !.tokens = t, !.atoms = more], [v EXCEPT !.excluded = out]}
    BY DEF Take, Packs
  <1> HIDE DEF t, more, out
  <1>3. t \in Nat /\ more \in SUBSET set /\ out \in SUBSET set
    BY <1>1 DEF t, more, out
  <1>4. [v EXCEPT !.tokens = t, !.atoms = more] \in Packs(set, B)
    BY <1>3 DEF Packs
  <1>5. [v EXCEPT !.excluded = out] \in Packs(set, B)
    BY <1>3 DEF Packs
  <1> QED BY <1>2, <1>4, <1>5

LEMMA PackedRounds ==
  ASSUME NEW set \in SUBSET AtomId, NEW r, r.budget \in Nat, Cardinality(set) \in Nat,
         Sorted(set, r) \in [1..Cardinality(set) -> set]
  PROVE  \E f : /\ f[0] = Nothing(r)
                /\ \A n \in Nat : n < Cardinality(set) => f[n + 1] = Take(f[n], Sorted(set, r)[n + 1])
                /\ Packed(set, r) = f[Cardinality(set)]
  <1> DEFINE N == Cardinality(set)
             order == Sorted(set, r)
             V == Packs(set, Nat)
             start == Nothing(r)
             step == [n \in Nat |-> [v \in V |-> IF n < N THEN Take(v, order[n + 1]) ELSE v]]
  <1>1. start \in V
    BY DEF Nothing, Packs
  <1>2. step \in [Nat -> [V -> V]]
    <2>1. ASSUME NEW n \in Nat, NEW v \in V, n < N PROVE Take(v, order[n + 1]) \in V
      <3>1. order[n + 1] \in set
        <4>1. n + 1 \in 1..N
          BY <2>1
        <4> QED BY <4>1
      <3>2. Detail[order[n + 1]].tokens \in Nat
        BY <3>1, DetailAssumption
      <3> HIDE DEF order
      <3> QED BY <3>1, <3>2, TakeType
    <2> HIDE DEF V, order, N
    <2> QED BY <2>1
  <1>3. PICK f : IsRun(f, V, start, step)
    <2> HIDE DEF V, step, start
    <2> QED BY <1>1, <1>2, RunExists
  <1> DEFINE H(g, n) == IF n = 0 THEN Nothing(r) ELSE Take(g[n - 1], order[n])
             g0 == [n \in 0..N |-> f[n]]
  <1>4. ASSUME NEW n \in 0..N PROVE g0[n] = H(g0, n)
    <2>1. CASE n = 0
      BY <1>3, <2>1 DEF IsRun
    <2>2. CASE n # 0
      <3>1. n - 1 \in Nat /\ (n - 1) + 1 = n /\ n - 1 \in 0..N /\ n - 1 < N
        BY <2>2
      <3>2. f[n] = step[n - 1][f[n - 1]] /\ f[n - 1] \in V
        BY <1>3, <3>1 DEF IsRun
      <3>3. f[n] = Take(f[n - 1], order[n])
        <4> HIDE DEF V, order, N
        <4> QED BY <3>1, <3>2
      <3> HIDE DEF order
      <3> QED BY <2>2, <3>1, <3>3
    <2> QED BY <2>1, <2>2
  <1>5. IsPack(g0, set, r)
    <2>1. g0 = [n \in 0..N |-> H(g0, n)]
      <3>1. g0 = [n \in 0..N |-> g0[n]]
        OBVIOUS
      <3> HIDE DEF g0, H
      <3> QED BY <1>4, <3>1
    <2> QED BY <2>1 DEF IsPack
  <1> DEFINE g == CHOOSE h : IsPack(h, set, r)
  <1>6. IsPack(g, set, r) /\ Packed(set, r) = g[N]
    <2>1. Packed(set, r) = g[N]
      BY DEF Packed, IsPack, Nothing
    <2> QED BY <1>5, <2>1
  <1> HIDE DEF g
  <1>7. \A n \in 0..N : g[n] = H(g, n)
    <2>1. g = [n \in 0..N |-> H(g, n)]
      BY <1>6 DEF IsPack
    <2> HIDE DEF H
    <2> QED BY <2>1
  <1>8. g[0] = Nothing(r)
    BY <1>7
  <1>9. ASSUME NEW n \in Nat, n < N PROVE g[n + 1] = Take(g[n], order[n + 1])
    <2>1. n + 1 \in 0..N /\ n + 1 # 0 /\ (n + 1) - 1 = n
      BY <1>9
    <2> HIDE DEF order
    <2> QED BY <1>7, <2>1
  <1> QED BY <1>6, <1>8, <1>9

(* What is packed fits the budget, and what is left out would not fit even *)
(* in the end.                                                             *)
LEMMA PackedDeclares ==
  ASSUME KernelTypeOK, NEW set \in SUBSET DOMAIN atoms, IsFiniteSet(set), NEW r, r.budget \in Nat
  PROVE  /\ Packed(set, r).atoms \cup Packed(set, r).excluded = set
         /\ Packed(set, r).tokens <= r.budget
         /\ \A a \in Packed(set, r).excluded :
              Packed(set, r).tokens + Detail[a].tokens > r.budget
  <1> DEFINE N == Cardinality(set)
             order == Sorted(set, r)
  <1>1. N \in Nat /\ order \in [1..N -> set] /\ \A a \in set : \E i \in 1..N : order[i] = a
    BY SortedListed
  <1>2. set \in SUBSET AtomId
    BY DEF KernelTypeOK
  <1>3. PICK f : /\ f[0] = Nothing(r)
                 /\ \A n \in Nat : n < N => f[n + 1] = Take(f[n], order[n + 1])
                 /\ Packed(set, r) = f[N]
    BY <1>1, <1>2, PackedRounds
  <1> DEFINE Held(n) == /\ f[n] \in Packs(set, {r.budget})
                        /\ f[n].tokens <= r.budget
                        /\ \A i \in 1..n : order[i] \in f[n].atoms \cup f[n].excluded
                        /\ \A a \in f[n].excluded : f[n].tokens + Detail[a].tokens > r.budget
             S == {n \in Nat : n <= N => Held(n)}
  <1>4. 0 \in S
    <2>1. Held(0)
      BY <1>3 DEF Nothing, Packs
    <2> QED BY <2>1
  <1>5. ASSUME NEW n \in S PROVE n + 1 \in S
    <2> SUFFICES ASSUME n + 1 <= N PROVE Held(n + 1)
      OBVIOUS
    <2>1. n \in Nat /\ n < N /\ n + 1 \in 1..N
      BY <1>1
    <2>2. Held(n)
      BY <1>1, <2>1
    <2> DEFINE a == order[n + 1]
    <2>3. f[n + 1] = Take(f[n], a)
      BY <1>3, <2>1
    <2>4. a \in set /\ Detail[a].tokens \in Nat
      <3>1. a \in set
        BY <1>1, <2>1
      <3> QED BY <1>2, <3>1, DetailAssumption
    <2>5. \A b \in f[n].excluded : Detail[b].tokens \in Nat
      BY <1>2, <2>2, DetailAssumption DEF Packs
    <2>6. \A i \in 1..n + 1 : i \in 1..n \/ i = n + 1
      BY <2>1
    <2> HIDE DEF order
    <2>7. f[n + 1] \in Packs(set, {r.budget})
      <3> HIDE DEF a
      <3> QED BY <2>2, <2>3, <2>4, TakeType
    <2>8. CASE f[n].tokens + Detail[a].tokens <= r.budget
      <3>1. f[n + 1] = [f[n] EXCEPT !.tokens = @ + Detail[a].tokens, !.atoms = @ \cup {a}]
        BY <2>2, <2>3, <2>8 DEF Take, Packs
      <3>2. /\ f[n + 1].tokens = f[n].tokens + Detail[a].tokens
            /\ f[n + 1].atoms = f[n].atoms \cup {a} /\ f[n + 1].excluded = f[n].excluded
        BY <2>2, <3>1 DEF Packs
      <3>3. \A i \in 1..n + 1 : order[i] \in f[n + 1].atoms \cup f[n + 1].excluded
        BY <2>2, <2>6, <3>2
      <3>4. \A b \in f[n + 1].excluded : f[n + 1].tokens + Detail[b].tokens > r.budget
        BY <2>2, <2>4, <2>5, <3>2 DEF Packs
      <3> QED BY <2>7, <2>8, <3>2, <3>3, <3>4
    <2>9. CASE ~(f[n].tokens + Detail[a].tokens <= r.budget)
      <3>1. f[n + 1] = [f[n] EXCEPT !.excluded = @ \cup {a}]
        BY <2>2, <2>3, <2>9 DEF Take, Packs
      <3>2. /\ f[n + 1].tokens = f[n].tokens
            /\ f[n + 1].atoms = f[n].atoms /\ f[n + 1].excluded = f[n].excluded \cup {a}
        BY <2>2, <3>1 DEF Packs
      <3>3. \A i \in 1..n + 1 : order[i] \in f[n + 1].atoms \cup f[n + 1].excluded
        BY <2>2, <2>6, <3>2
      <3>4. \A b \in f[n + 1].excluded : f[n + 1].tokens + Detail[b].tokens > r.budget
        BY <2>2, <2>4, <2>5, <2>9, <3>2 DEF Packs
      <3> QED BY <2>2, <2>7, <3>2, <3>3, <3>4
    <2> QED BY <2>8, <2>9
  <1>6. S = Nat
    <2>1. S \in SUBSET Nat
      OBVIOUS
    <2> HIDE DEF S
    <2> QED BY <1>4, <1>5, <2>1, InductionOnSets
  <1>7. Held(N)
    <2>1. \A n \in Nat : n <= N => Held(n)
      BY <1>6
    <2>2. N \in Nat /\ N <= N
      BY <1>1
    <2> HIDE DEF Held, N
    <2> QED BY <2>1, <2>2
  <1>8. f[N].atoms \cup f[N].excluded = set
    BY <1>1, <1>7 DEF Packs
  <1> QED BY <1>3, <1>7, <1>8

(* A context never hides what it leaves out, for any atoms, conflicts,     *)
(* permissions and requests (compile).                                     *)
LEMMA ContextDeclares == ReadInv => ContextDeclaresGaps
  <1> SUFFICES ASSUME ReadInv, NEW r \in Request
               PROVE  LET context == Compile(r)
                      IN  /\ {a \in DOMAIN atoms : InTime(a, r)} =
                               context.atoms \cup context.excluded \cup context.filtered \cup context.warnings
                          /\ \A a \in context.atoms : Detail[a].permission \in r.scope \/ r.scope = {}
                          /\ context.tokens <= r.budget
                          /\ \A a \in context.excluded :
                               context.tokens + Detail[a].tokens > r.budget /\ "budget" \in context.missing
                          /\ context.filtered # {} => "permission" \in context.missing
                          /\ \A a \in context.atoms : \A c \in ExplainConflict(a) :
                               c \in context.contradictions /\ "ReviewContradiction" \in context.actions
                          /\ context.missing # {} => "RetrieveEvidence" \in context.actions
    BY DEF ContextDeclaresGaps
  <1> DEFINE seen == {a \in DOMAIN atoms : InTime(a, r)}
             filtered == {a \in seen : ~PermittedAtom(a, r.scope)}
             imagined == {a \in seen \ filtered : Detail[a].claim \in {"Simulation", "Hypothesis"}}
             rest == seen \ (filtered \cup imagined)
             pack == Packed(rest, r)
             contradictions == {c \in conflicts : c \cap pack.atoms # {}}
             context == Compile(r)
  <1>1. /\ context.atoms = pack.atoms /\ context.tokens = pack.tokens
        /\ context.excluded = pack.excluded /\ context.contradictions = contradictions
        /\ context.filtered = filtered /\ context.warnings = imagined
        /\ context.missing = (IF pack.atoms = {} THEN {"context"} ELSE {})
                   \cup (IF contradictions # {} /\ r.risky THEN {"contradiction"} ELSE {})
                   \cup (IF filtered # {} THEN {"permission"} ELSE {})
                   \cup (IF pack.excluded # {} THEN {"budget"} ELSE {})
        /\ context.actions = (IF contradictions # {} THEN {"ReviewContradiction"} ELSE {})
                     \cup (IF context.missing # {} THEN {"RetrieveEvidence"} ELSE {})
                     \cup (IF r.risky THEN {"VerifyClaim"} ELSE {})
    BY DEF Compile
  <1>2. rest \in SUBSET DOMAIN atoms /\ IsFiniteSet(rest)
    <2>1. rest \in SUBSET DOMAIN atoms
      OBVIOUS
    <2> HIDE DEF rest
    <2> QED BY <2>1, FS_Subset DEF ReadInv
  <1>3. r.budget \in Nat
    BY RequestAssumption
  <1>4. /\ pack.atoms \cup pack.excluded = rest
        /\ pack.tokens <= r.budget
        /\ \A a \in pack.excluded : pack.tokens + Detail[a].tokens > r.budget
    <2> HIDE DEF rest
    <2> QED BY <1>2, <1>3, PackedDeclares DEF ReadInv
  <1> HIDE DEF context, pack
  <1>5. \A a \in pack.atoms : PermittedAtom(a, r.scope)
    BY <1>4
  <1>6. seen = pack.atoms \cup pack.excluded \cup filtered \cup imagined
    BY <1>4
  <1>7. \A a \in pack.atoms : \A c \in ExplainConflict(a) : c \in contradictions
    BY DEF ExplainConflict
  <1>8. \A a \in pack.atoms : Detail[a].permission \in r.scope \/ r.scope = {}
    BY <1>5 DEF PermittedAtom, ScopeAllows
  <1> HIDE DEF filtered, imagined, contradictions
  <1>9. pack.excluded # {} => "budget" \in context.missing
    BY <1>1
  <1>10. filtered # {} => "permission" \in context.missing
    BY <1>1
  <1>11. contradictions # {} => "ReviewContradiction" \in context.actions
    BY <1>1
  <1>12. context.missing # {} => "RetrieveEvidence" \in context.actions
    BY <1>1
  <1>13. context = Compile(r) /\ seen = {a \in DOMAIN atoms : InTime(a, r)}
    BY DEF context
  <1> HIDE DEF seen
  <1> QED BY <1>1, <1>4, <1>6, <1>7, <1>8, <1>9, <1>10, <1>11, <1>12, <1>13

(* A context never hides what it leaves out: what is filtered, imagined or *)
(* too big is declared, what is too big would not fit even in the end, and *)
(* a conflict of an atom given comes with it (compile).                    *)
THEOREM ContextAlwaysDeclares == KernelSpec => []ContextDeclaresGaps
  <1> QED BY ContextDeclares, ReadInvInductive, PTL DEF KernelSpec
=============================================================================
