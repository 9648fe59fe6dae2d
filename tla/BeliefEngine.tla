---------------------------- MODULE BeliefEngine ----------------------------
(***************************************************************************)
(* The belief engine: claims with a valid time and a transaction time, the *)
(* conflict sets between them, the claim preferred at a point of both      *)
(* times and the revisions of that preference; and, over the same claims,  *)
(* the plan by which an agent acquires what it still has to know           *)
(* (rg-active-knowledge).                                                  *)
(*                                                                         *)
(* A claim's key stands for its subject and predicate, its object for a    *)
(* value and the case it is spelled in.  Confidence and trust are percents.*)
(* Transaction times stay far below the million at which recency weighs    *)
(* in, so that recency orders claims as the transaction time does.         *)
(***************************************************************************)
EXTENDS Integers, Sequences, FiniteSets, FiniteSetsExt

CONSTANTS
  Claim,       \* the claims that may be observed
  Trust,       \* the trust of each source, a function
  Instant,     \* valid times at which beliefs are asked for, transaction times too
  Fact,        \* the facts a task requires
  Tool,        \* the tools that could fetch them
  StaleAfter,  \* age beyond which evidence is stale
  MaxIngested  \* bound of the exploration: claims ingested

VARIABLES
  claims,         \* the claim of each id
  conflict_sets,  \* recomputed at every claim
  revisions       \* BeliefRevision, in order of arrival

beliefVars == <<claims, conflict_sets, revisions>>

Contains(c, t) == c.from <= t /\ t < c.until
\* A slip the properties must notice: the overlap is looked for at one start only.
OverlapsAtStart(c, d) == Contains(d, c.from)

Overlaps(c, d) == c.from < d.until /\ d.from < c.until

(***************************************************************************)
(* Scores and preference.                                                  *)
(***************************************************************************)
DefaultTrust == 75
AverageTrust(sources) ==
  IF sources = {} THEN DefaultTrust
  ELSE MapThenSumSet(LAMBDA s : IF s \in DOMAIN Trust THEN Trust[s] ELSE DefaultTrust, sources)
         \div Cardinality(sources)

Score(c) == 25 * c.confidence + 70 * AverageTrust(c.sources)

Beats(c, d) ==
  \/ Score(c) > Score(d)
  \/ Score(c) = Score(d) /\ c.tx > d.tx
  \/ Score(c) = Score(d) /\ c.tx = d.tx /\ c.id < d.id

Preferred(set) == {c \in set : \A d \in set \ {c} : Beats(c, d)}  \* one claim, or none

ConflictBetween(c, d) ==
  /\ c.key = d.key
  /\ Overlaps(c, d)
  /\ c.object = d.object =>
       LET gap == AverageTrust(c.sources) - AverageTrust(d.sources)
       IN  gap >= 50 \/ -gap >= 50

ConflictSetsOf(held) ==
  {[pair |-> {c, d}, preferred |-> Preferred({c, d})] :
     <<c, d>> \in {p \in held \X held : p[1].id < p[2].id /\ ConflictBetween(p[1], p[2])}}

(***************************************************************************)
(* What is known of a key: the claims that hold at a valid time and had    *)
(* been recorded by a transaction time, and the conflicts among them.      *)
(***************************************************************************)
Held == {claims[i] : i \in DOMAIN claims}
\* A slip the properties must notice: the transaction time is not looked at.
CompetingEver(held, key, at, known) == {c \in held : c.key = key /\ Contains(c, at)}

Competing(held, key, at, known) ==
  {c \in held : c.key = key /\ Contains(c, at) /\ c.tx <= known}

BeliefState(key, at, known) ==
  LET competing == Competing(Held, key, at, known)
  IN  [preferred_claim |-> Preferred(competing), competing_claims |-> competing,
       conflict_sets |-> {s \in conflict_sets : s.pair \subseteq competing}]

IngestClaim(c) ==
  LET before == Preferred(Competing(Held, c.key, c.from, c.tx))
      held == {d \in Held : d.id # c.id} \cup {c}
      after == Preferred(Competing(held, c.key, c.from, c.tx))
      Ids(set) == {d.id : d \in set}
  IN  /\ Cardinality(Held) < MaxIngested /\ Len(revisions) < MaxIngested
      /\ claims' = [i \in DOMAIN claims \cup {c.id} |-> IF i = c.id THEN c ELSE claims[i]]
      /\ conflict_sets' = ConflictSetsOf(held)
      /\ revisions' = IF before # {} /\ Ids(before) # Ids(after)
                      THEN Append(revisions, [tx |-> c.tx, key |-> c.key, at |-> c.from,
                                              previous |-> Ids(before), new |-> Ids(after)])
                      ELSE revisions

(***************************************************************************)
(* AcquisitionPlan over the claims and the facts a task requires: what is  *)
(* missing, has no source, is stale or uncertain, how urgent that is and   *)
(* which tool would close it.  Objects compete when they differ in more    *)
(* than their spelling.                                                    *)
(***************************************************************************)
Stale(c, now) == now - c.tx > StaleAfter
When(condition, set) == IF condition THEN set ELSE {}

GapsOf(held, fact, now) ==
  LET matching == {c \in held : c.key = fact.key}
      doubtful == {c \in matching : c.confidence < 70}
      Gap(kind, set) == [kind |-> kind, fact |-> fact, claims |-> set]
  IN  {Gap("MissingSource", {c}) : c \in {d \in matching : d.sources = {}}}
      \cup {Gap("StaleEvidence", {c}) : c \in {d \in matching : Stale(d, now)}}
      \cup When(matching = {}, {Gap("MissingFact", {})})
      \cup When(fact.latest /\ matching # {} /\ \A c \in matching : Stale(c, now),
                {Gap("MissingFact", matching)})
      \cup When(fact.resolve, {Gap("UnknownEntity", matching)})
      \cup When(doubtful # {}, {Gap("UncertainEvidence", doubtful)})
      \cup When(\E c, d \in matching : c.object.value # d.object.value,
                {Gap("UncertainEvidence", matching)})

Urgency(gap) ==
  IF gap.fact.critical THEN 4
  ELSE IF gap.kind = "MissingFact" THEN 3
  ELSE IF gap.kind \in {"StaleEvidence", "UncertainEvidence"} THEN 2
  ELSE 1

ToolFor(gap, tools) ==
  LET named == {t \in tools : t.name = gap.fact.tool}
      able == {t \in tools : gap.fact.key \in t.provides}
  IN  IF named # {} THEN named ELSE {t \in able : \A u \in able : t.rank <= u.rank}

AcquisitionPlan(held, facts, tools, now) ==
  LET gaps == UNION {GapsOf(held, f, now) : f \in facts}
      Served(t) == {g \in gaps : t \in ToolFor(g, tools)}
  IN  [gaps |-> gaps,
       urgency |-> Max({1} \cup {Urgency(g) : g \in gaps}),
       recommended |-> {[tool |-> t.name, gaps |-> Served(t),
                         urgency |-> Max({Urgency(g) : g \in Served(t)})] :
                           t \in {u \in tools : Served(u) # {}}}]

BeliefInit == claims = <<>> /\ conflict_sets = {} /\ revisions = <<>>
BeliefNext == \E c \in Claim : IngestClaim(c)

(***************************************************************************)
(* Both sides of a disagreement are kept and shown: two claims that an     *)
(* answer offers with different objects are in a conflict set of the same  *)
(* answer, and the preferred claim of the answer wins each of its conflict *)
(* sets (belief_state, recompute_conflicts).                               *)
(***************************************************************************)
DisagreementIsShown ==
  \A key \in {c.key : c \in Claim}, at, known \in Instant :
    LET answer == BeliefState(key, at, known)
    IN  /\ \A c, d \in answer.competing_claims :
             c.object # d.object => \E s \in answer.conflict_sets : s.pair = {c, d}
        /\ answer.competing_claims # {} => answer.preferred_claim # {}
        /\ \A s \in answer.conflict_sets :
             answer.preferred_claim \subseteq s.pair => s.preferred = answer.preferred_claim

(***************************************************************************)
(* A plan that finds nothing to acquire means that the belief may be acted *)
(* on: for each fact there are claims, none conflicts with another but in  *)
(* spelling or for the trust of its sources, and whatever the engine       *)
(* prefers at any valid time is sourced, fresh and confident.  A gap that  *)
(* some tool could close is in one recommendation, as urgent as the gap    *)
(* (AcquisitionPlan::build over BeliefEngine::belief_state).               *)
(***************************************************************************)
NoGapMeansSettled ==
  \A facts \in SUBSET Fact, now \in Instant :
    LET plan == AcquisitionPlan(Held, facts, Tool, now)
    IN  /\ plan.gaps = {} =>
             \A f \in facts, at \in Instant :
               LET answer == BeliefState(f.key, at, now)
               IN  /\ \E c \in Held : c.key = f.key
                   /\ \A s \in answer.conflict_sets : \A c, d \in s.pair :
                        c.object.value = d.object.value
                   /\ \A c \in answer.preferred_claim :
                        c.sources # {} /\ ~Stale(c, now) /\ c.confidence >= 70
        /\ \A g \in plan.gaps :
             (\E t \in Tool : g.fact.key \in t.provides) =>
               \E r \in plan.recommended : g \in r.gaps /\ r.urgency >= Urgency(g)

(***************************************************************************)
(* A new claim never changes what was believed before it was recorded,     *)
(* also when it arrives late: answers for earlier transaction times stay   *)
(* (ingest_claim).  A claim that takes the id of another one replaces it   *)
(* and its past, which the engine does not guard against.                  *)
(***************************************************************************)
EarlierBeliefStays ==
  [][\A c \in Claim : claims' # claims /\ DOMAIN claims' = DOMAIN claims \cup {c.id}
                        /\ c.id \notin DOMAIN claims =>
       \A at, known \in Instant :
         known < claims'[c.id].tx =>
           BeliefState(c.key, at, known)' = BeliefState(c.key, at, known)]_beliefVars
=============================================================================
