------------------------------ MODULE QueryVm ------------------------------
(***************************************************************************)
(* RealityQueryVm and the PhysicalGraphStore that its native queries run   *)
(* on: a columnar copy of the kernel's atoms with an index per column.     *)
(*                                                                         *)
(* A row's ordinal is its position; an interned symbol is the value it     *)
(* stands for, an index a set of pairs of value and ordinal.  An option is *)
(* a set with at most one member.  Labels and plans shown are left out.    *)
(***************************************************************************)
EXTENDS KernelReads, SequencesExt

CONSTANT Pattern  \* claim patterns: subject, predicate, object, each an option

ASSUME PatternAssumption ==
  \A p \in Pattern :
    /\ p = [subject |-> p.subject, predicate |-> p.predicate, object |-> p.object]
    /\ \A x, y \in p.subject : x = y
    /\ \A x, y \in p.predicate : x = y
    /\ \A x, y \in p.object : x = y

\* An entity is one object, held as a reference or as a value.
ObjectKey(object) ==
  IF object.form = "value" THEN [object EXCEPT !.form = "reference"] ELSE object

PhysicalStore ==
  LET rows == SetToSeq(DOMAIN atoms)
      Index(Values(_)) == UNION {Values(rows[i]) \X {i} : i \in DOMAIN rows}
      Subject(a) == {atoms[a].subject}
      Predicate(a) == {Detail[a].predicate}
      Object(a) == {ObjectKey(Detail[a].object)}
      Source(a) == atoms[a].sources
      Triple(a) == {<<atoms[a].subject, Detail[a].predicate, ObjectKey(Detail[a].object)>>}
  IN  [rows |-> rows, by_subject |-> Index(Subject), by_predicate |-> Index(Predicate),
       by_object |-> Index(Object), by_source |-> Index(Source), trie_spo |-> Index(Triple)]

Entries(index, value) == {e[2] : e \in {f \in index : f[1] = value}}

Candidates(store, p) ==
  {i \in DOMAIN store.rows :
     /\ \A s \in p.subject : i \in Entries(store.by_subject, s)
     /\ \A q \in p.predicate : i \in Entries(store.by_predicate, q)
     /\ \A o \in p.object : i \in Entries(store.by_object, ObjectKey(o))}

FullyBound(p) == p.subject # {} /\ p.predicate # {} /\ p.object # {}

\* A slip the properties must notice: the trie is asked for the object as it was given.
TrieCandidatesRaw(store, p) ==
  UNION {Entries(store.trie_spo, <<s, q, o>>) :
           s \in p.subject, q \in p.predicate, o \in p.object}

TrieCandidates(store, p) ==
  UNION {Entries(store.trie_spo, <<s, q, ObjectKey(o)>>) :
           s \in p.subject, q \in p.predicate, o \in p.object}

PointInTime(store, valid, known) ==
  {i \in DOMAIN store.rows : VisibleAt(store.rows[i], valid, known)}

-----------------------------------------------------------------------------
(***************************************************************************)
(* Kernel queries scan the atoms.  The belief of a result is that at the   *)
(* start of its transaction time.                                          *)
(***************************************************************************)
Matches(a, p) ==
  /\ \A s \in p.subject : atoms[a].subject = s
  /\ \A q \in p.predicate : Detail[a].predicate = q
  /\ \A o \in p.object : Detail[a].object = o

FindAtoms(p) == {a \in DOMAIN atoms : Matches(a, p)}

Result(set) ==
  [atom_ids |-> set, evidence_ids |-> UNION {atoms[a].sources : a \in set},
   beliefs |-> {<<a, BeliefAt(a, Detail[a].tx)>> : a \in set}]

FindVisible(p, valid, known) == {a \in FindAtoms(p) : VisibleAt(a, valid, known)}

QueryImpact(a, max_depth) ==
  IF max_depth = 0 THEN [atoms |-> {}, steps |-> {}] ELSE ImpactIfRetracted(a)

\* What is asked of an entity now, then, or as believed then.
AskEntity(entity, valid, known, ai_facing) ==
  LET seen == {a \in DOMAIN atoms : atoms[a].subject = entity /\ VisibleAt(a, valid, known)}
      unsupported == {a \in seen : ai_facing /\ ~SupportedForAi(a, BeliefAt(a, known))}
  IN  [atoms |-> seen \ unsupported, unsupported |-> unsupported,
       conflicts |-> EntityState(entity, valid, known).conflicts]

-----------------------------------------------------------------------------
(***************************************************************************)
(* Native queries: operators restrict what a claim pattern finds.          *)
(***************************************************************************)
KnownFor(a, ops) == IF ops.known_at = {} THEN Detail[a].tx ELSE CHOOSE t \in ops.known_at : TRUE

NativeVerify(p, ops) ==
  LET store == PhysicalStore
      matched == IF FullyBound(p) THEN TrieCandidates(store, p) ELSE Candidates(store, p)
      timed == IF ops.valid_at = {} \/ ops.known_at = {} THEN matched
               ELSE {i \in matched : \A v \in ops.valid_at, k \in ops.known_at :
                                       i \in PointInTime(store, v, k)}
      visible == {a \in {store.rows[i] : i \in timed} :
                    /\ \A v \in ops.valid_at : InInterval(v, Detail[a].from, Detail[a].until)
                    /\ \A k \in ops.known_at : InInterval(k, Detail[a].tx, Detail[a].tx_until)}
      permitted == {a \in visible : \A scope \in ops.permissions : PermittedAtom(a, scope)}
      found == {a \in permitted :
                  /\ \A allowed \in ops.beliefs : BeliefAt(a, KnownFor(a, ops)) \in allowed
                  /\ ops.evidence => atoms[a].sources # {} /\ Detail[a].evidence}
  IN  [atoms |-> found, filtered |-> visible \ permitted,
       beliefs |-> {<<a, BeliefAt(a, KnownFor(a, ops))>> : a \in found},
       contradictions |-> {c \in conflicts : c \cap found # {}},
       trace |-> UNION {TraceFrom(a) : a \in found}]

NativeWhatBreaks(a) ==
  LET impacted == TransitiveDependents(a) \cap DOMAIN atoms
      plans == {b \in impacted : atoms[b].plan}
  IN  [beliefs |-> {b \in impacted : IsBelief(b)}, plans |-> plans,
       memories |-> {b \in impacted \ plans : IsMemory(b)},
       summaries |-> {b \in impacted : atoms[b].summary},
       agents |-> {atoms[b].agent : b \in impacted} \ {NoAgent}]

-----------------------------------------------------------------------------
(***************************************************************************)
(* The native engine, over its indexes and its trie, finds what a scan of  *)
(* the kernel finds, for every pattern and every point of both times: all  *)
(* of it, and beyond it only the same entity held in the other form; it    *)
(* shows or declares filtered whatever permissions hide, and what it says  *)
(* breaks covers what the kernel says collapses (execute_native,           *)
(* execute_kernel, PhysicalGraphStore).                                    *)
(***************************************************************************)
NativeFindsAll ==
  /\ \A p \in Pattern, v, k \in {{}, {1}, {2}}, scope \in {{"Public"}, {"Public", "Restricted"}} :
       LET answer == NativeVerify(p, [valid_at |-> v, known_at |-> k, beliefs |-> {},
                                      permissions |-> {scope}, evidence |-> FALSE])
           Then(a) == /\ \A t \in v : InInterval(t, Detail[a].from, Detail[a].until)
                      /\ \A t \in k : InInterval(t, Detail[a].tx, Detail[a].tx_until)
           reached == answer.atoms \cup answer.filtered
       IN  /\ {a \in FindAtoms(p) : Then(a)} \subseteq reached
           /\ \A a \in reached \ FindAtoms(p) :
                /\ Then(a) /\ Matches(a, [p EXCEPT !.object = {}])
                /\ \A o \in p.object : ObjectKey(o) = ObjectKey(Detail[a].object)
           /\ \A a \in answer.atoms : Detail[a].permission \in scope
  /\ \A a \in DOMAIN atoms :
       LET breaks == NativeWhatBreaks(a)
           collapse == CollapseIfSourceFalse(a)
       IN  /\ collapse.beliefs = breaks.beliefs
           /\ collapse.plans = breaks.plans \ breaks.beliefs
           /\ collapse.memories = breaks.memories \ breaks.beliefs

(***************************************************************************)
(* What is asked of an entity, of its state, and of the beliefs held of    *)
(* all atoms agree on each atom: a question at a time no revision is later *)
(* than gets the current beliefs, and nothing that a model must not rest   *)
(* on is among what it is given, although both keep the disagreement in    *)
(* view (entity_state, current_belief, execute_entity_state).              *)
(***************************************************************************)
AnswersAgree ==
  \A entity \in Entity, valid, known \in 1..2 :
    LET state == EntityState(entity, valid, known)
        plain == AskEntity(entity, valid, known, FALSE)
        guarded == AskEntity(entity, valid, known, TRUE)
        settled == \A a \in DOMAIN atoms : \A i \in DOMAIN revisions[a] :
                     revisions[a][i].at <= known
        view == CurrentBelief(valid, known, {"Accepted", "Disputed"})
    IN  /\ state.accepted \cup state.disputed \cup state.superseded \subseteq plain.atoms
        /\ plain.atoms = guarded.atoms \cup guarded.unsupported
        /\ guarded.atoms \subseteq state.accepted \cup state.disputed
        /\ settled =>
             /\ state.accepted = {a \in view.accepted : atoms[a].subject = entity}
             /\ guarded.atoms \subseteq view.visible
        /\ \A a \in guarded.atoms : ExplainConflict(a) \subseteq guarded.conflicts

(***************************************************************************)
(* Two ways to one answer agree: the tries and the scan of the atoms, the  *)
(* state of an entity and what may be told to a model (execute_native,     *)
(* execute_kernel, entity_state).                                          *)
(***************************************************************************)
AnswersMatch == NativeFindsAll /\ AnswersAgree
=============================================================================
