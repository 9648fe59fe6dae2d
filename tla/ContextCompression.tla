------------------------- MODULE ContextCompression -------------------------
(***************************************************************************)
(* Context compression (rg-context-compression): an evidence pack is cut   *)
(* to a number of tokens.  A text is the sequence of its words, a token is *)
(* a word; scores are in thousandths, confidence and trust in hundredths.  *)
(***************************************************************************)
EXTENDS Integers, SequencesExt, FiniteSetsExt, TLC

CONSTANTS
  Pack,   \* evidence packs: query, sources, assertions, contradictions
  Plan,   \* compression plans: budget, levels, policy, signals
  Task    \* sets of words

VARIABLES given, context

compressionVars == <<given, context>>

Level == [RawSourceSnippets |-> 0, AssertionList |-> 1, EntityTimeline |-> 2, RelationshipSummary |-> 3,
          CommunitySummary |-> 4, TaskSpecificDistilledContext |-> 5]
AllUpTo(level) == {l \in DOMAIN Level : Level[l] <= Level[level]}

Monus(a, b) == IF a > b THEN a - b ELSE 0
AvailableContextTokens(plan) == Monus(plan.max_tokens, plan.reserved_output_tokens)

EstimateTokens(text) == Max({Len(text), 1})
TruncateToTokens(text, tokens) == SubSeq(text, 1, Min({tokens, Len(text)}))

-----------------------------------------------------------------------------
(***************************************************************************)
(* Units.                                                                  *)
(***************************************************************************)
Unit(id, level, text, sources, assertions, contradictions, entities, required) ==
  [id |-> id, level |-> Level[level], text |-> text, estimated_tokens |-> EstimateTokens(text),
   source_ids |-> sources, assertion_ids |-> assertions, contradiction_ids |-> contradictions,
   entity_ids |-> entities, required |-> required]

Ids(S) == {x.id : x \in S}
SourcesOf(S) == UNION {a.source_ids : a \in S}
AssertionEntities(a) == {a.subject} \cup a.object.entity
EntitiesOf(S) == UNION {AssertionEntities(a) : a \in S}
Texts(S, Text(_)) == FoldSet(LAMBDA x, text : text \o Text(x), <<>>, S)
Sorted(S, First(_, _)) == SortSeq(FoldSet(LAMBDA x, listed : Append(listed, x), <<>>, S), First)
\* The words between bars that stand for an assertion in a longer text.
Piece(a) == <<"|", a.subject, a.predicate, a.object.text, "valid", "confidence", "sources">>

SourceUnit(s) ==
  Unit(<<"source", s.id>>, "RawSourceSnippets", <<"raw_source", s.id, "trust">> \o s.snippet, {s.id}, {}, {}, {}, FALSE)

AssertionUnit(a) ==
  Unit(<<"assertion", a.id>>, "AssertionList",
       <<"assertion", a.id, a.subject, a.predicate, a.object.text, "valid", "tx", "confidence", "sources">>,
       a.source_ids, {a.id}, {}, AssertionEntities(a), a.source_ids # {})

EntityTimelineUnits(pack) ==
  {LET of == {a \in pack.assertions : e \in AssertionEntities(a)}
   IN  Unit(<<"timeline", e>>, "EntityTimeline", <<"entity_timeline", e>> \o Texts(of, Piece),
            SourcesOf(of), Ids(of), {}, {e}, FALSE) : e \in EntitiesOf(pack.assertions)}

RelationshipSummaryUnits(pack) ==
  {LET of == {a \in pack.assertions : a.predicate = p}
       Line(a) == <<"|", a.subject, "->", a.object.text, "confidence", "valid">>
   IN  Unit(<<"relationship", p>>, "RelationshipSummary",
            <<"relationship_summary", p, "assertion_count">> \o Texts(of, Line),
            SourcesOf(of), Ids(of), {}, EntitiesOf(of), FALSE) : p \in {a.predicate : a \in pack.assertions}}

CommunitySummaryUnit(pack) ==
  Unit(<<"community-summary">>, "CommunitySummary",
       <<"community_summary", "entities", "assertions", "sources", "contradictions">>,
       SourcesOf(pack.assertions), Ids(pack.assertions), Ids(pack.contradictions), EntitiesOf(pack.assertions), FALSE)

\* The four that are surest, then newest.
BestAssertions(pack) ==
  LET Better(a, b) == \/ a.confidence > b.confidence
                      \/ a.confidence = b.confidence /\ a.tx > b.tx
      sorted == Sorted(pack.assertions, Better)
  IN  {sorted[i] : i \in 1..Min({4, Len(sorted)})}

TaskSpecificUnit(pack) ==
  LET best == BestAssertions(pack)
  IN  Unit(<<"task-distilled-context">>, "TaskSpecificDistilledContext",
           <<"distilled_context", "query">> \o pack.query \o Texts(best, Piece)
             \o (IF pack.contradictions = {} THEN <<>> ELSE <<"|", "contradiction_count", "must_report_both_sides">>),
           SourcesOf(best), Ids(best), Ids(pack.contradictions), EntitiesOf(best), TRUE)

ContradictionUnit(c, pack) ==
  LET related == {a \in pack.assertions : a.id \in {c.a, c.b}}
      Side(a) == <<"|", "side", a.id, a.object.text, "confidence", "valid", "sources">>
  IN  Unit(<<"contradiction", c.id>>, "TaskSpecificDistilledContext",
           <<"contradiction", c.id, "type", c.severity, c.a, c.b>> \o c.explanation \o Texts(related, Side),
           SourcesOf(related), {c.a, c.b}, {c.id}, EntitiesOf(related), TRUE)

BuildUnits(pack, plan) ==
  LET At(level, units) == IF level \in plan.allowed_levels THEN units ELSE {}
      sure == {a \in pack.assertions : \A minimum \in plan.min_confidence : a.confidence >= minimum}
  IN  At("RawSourceSnippets", {SourceUnit(s) : s \in pack.sources})
      \cup At("AssertionList", {AssertionUnit(a) : a \in sure})
      \cup At("EntityTimeline", EntityTimelineUnits(pack))
      \cup At("RelationshipSummary", RelationshipSummaryUnits(pack))
      \cup At("CommunitySummary", {CommunitySummaryUnit(pack)})
      \cup At("TaskSpecificDistilledContext", {TaskSpecificUnit(pack)})
      \cup (IF plan.preserve_contradictions THEN {ContradictionUnit(c, pack) : c \in pack.contradictions} ELSE {})

-----------------------------------------------------------------------------
(***************************************************************************)
(* Scores, a sum over the plan's signals.                                  *)
(***************************************************************************)
Cited(u, pack) == {a \in pack.assertions : a.id \in u.assertion_ids}

RecencyScore(u, pack) ==
  LET latest == Max({a.tx : a \in pack.assertions} \cup {0})
      own == IF Cited(u, pack) = {} THEN latest ELSE Max({a.tx : a \in Cited(u, pack)})
  IN  IF latest <= 0 THEN 0 ELSE (1000 * own) \div latest

ConfidenceScore(u, pack) ==
  LET cited == Cited(u, pack)
  IN  IF cited = {} THEN 500 ELSE (10 * MapThenSumSet(LAMBDA a : a.confidence, cited)) \div Cardinality(cited)

SourceTrustScore(u, pack) ==
  LET TrustOf(id) ==
        IF \E s \in pack.sources : s.id = id /\ s.trust # {}
        THEN CHOOSE t \in UNION {s.trust : s \in {x \in pack.sources : x.id = id}} : TRUE ELSE 50
  IN  IF u.source_ids = {} THEN 0
      ELSE (10 * MapThenSumSet(TrustOf, u.source_ids)) \div Cardinality(u.source_ids)

GraphCentralityScore(u) ==
  Min({1000, 125 * (Cardinality(u.source_ids) + Cardinality(u.assertion_ids)
                    + Cardinality(u.contradiction_ids) + Cardinality(u.entity_ids))})

TaskRelevanceScore(u, task) ==
  IF task = {} THEN 0 ELSE (1000 * Cardinality(task \cap ToSet(u.text))) \div Cardinality(task)

Weight == [Critical |-> 1000, High |-> 900, Medium |-> 650, Low |-> 350]
ContradictionImportanceScore(u, pack) ==
  Max({0} \cup {Weight[c.severity] : c \in {d \in pack.contradictions : d.id \in u.contradiction_ids}})

SignalScore(signal, u, pack, task) ==
  CASE signal = "Recency" -> RecencyScore(u, pack)
    [] signal = "Confidence" -> ConfidenceScore(u, pack)
    [] signal = "SourceTrust" -> SourceTrustScore(u, pack)
    [] signal = "GraphCentrality" -> GraphCentralityScore(u)
    [] signal = "TaskRelevance" -> TaskRelevanceScore(u, task)
    [] signal = "ContradictionImportance" -> ContradictionImportanceScore(u, pack)

Score(u, pack, plan, task) ==
  MapThenSumSet(LAMBDA signal : SignalScore(signal, u, pack, task), plan.rank_by)
  + (IF u.required THEN 3000 ELSE 0) + 50 * u.level

-----------------------------------------------------------------------------
(***************************************************************************)
(* Compression.  Ties, broken by the unit's name in the code, are broken   *)
(* by no particular order here.                                            *)
(***************************************************************************)
\* A slip the properties must notice: the score alone decides who comes first.
ByScore(u, v, Of(_)) == Of(u) > Of(v) \/ (Of(u) = Of(v) /\ u.level > v.level)

Before(u, v, Of(_)) ==
  \/ u.required /\ ~v.required
  \/ u.required = v.required /\ (Of(u) > Of(v) \/ (Of(u) = Of(v) /\ u.level > v.level))

Take(sofar, u) ==
  LET cut == TruncateToTokens(u.text, sofar.remaining)
  IN  CASE u.estimated_tokens <= sofar.remaining ->
             [sofar EXCEPT !.selected = @ \cup {u}, !.remaining = @ - u.estimated_tokens]
        [] u.estimated_tokens > sofar.remaining /\ u.required /\ sofar.remaining > 0 ->
             [sofar EXCEPT !.selected = @ \cup {[u EXCEPT !.text = cut, !.estimated_tokens = EstimateTokens(cut)]},
                           !.remaining = Monus(@, EstimateTokens(cut))]
        [] OTHER -> [sofar EXCEPT !.omitted = @ \cup {u}]

CompressionWarnings(pack, plan, selected, omitted) ==
  [contradictions |-> IF plan.preserve_contradictions
                      THEN Ids(pack.contradictions) \ UNION {u.contradiction_ids : u \in selected} ELSE {},
   omitted_units |-> Cardinality(omitted)]

CompressedBy(pack, plan, task) ==
  LET units == BuildUnits(pack, plan)
      score == [u \in units |-> Score(u, pack, plan, task)]
      First(u, v) == Before(u, v, LAMBDA w : score[w])
      taken == FoldLeft(Take, [selected |-> {}, omitted |-> {}, remaining |-> AvailableContextTokens(plan)],
                        Sorted(units, First))
  IN  [units |-> taken.selected, omitted_units |-> taken.omitted,
       citations |-> [sources |-> UNION {u.source_ids : u \in taken.selected},
                      assertions |-> UNION {u.assertion_ids : u \in taken.selected},
                      contradictions |-> UNION {u.contradiction_ids : u \in taken.selected}],
       estimated_tokens |-> MapThenSumSet(LAMBDA u : u.estimated_tokens, taken.selected),
       warnings |-> CompressionWarnings(pack, plan, taken.selected, taken.omitted)]

\* The evaluator, per mille, against what a right answer has to cite.
Recall(required, actual) ==
  IF required = {} THEN 1000 ELSE (1000 * Cardinality(required \cap actual)) \div Cardinality(required)

Evaluate(c, gold) ==
  LET source == Recall(gold.sources, c.citations.sources)
      assertion == Recall(gold.assertions, c.citations.assertions)
      citation == IF gold.assertions = {} THEN source ELSE (source + assertion) \div 2
      contradiction == Recall(gold.contradictions, c.citations.contradictions)
  IN  [citation_recall |-> citation, contradiction_recall |-> contradiction,
       estimated_answer_accuracy |-> (gold.baseline * (citation + contradiction)) \div 2000]

NoContext == [units |-> {}]

\* A compressor keeps nothing from one call to the next: one call is explored.
Compress(pack, plan, task) ==
  /\ given = {}
  /\ given' = {[pack |-> pack, plan |-> plan, task |-> task]}
  /\ context' = CompressedBy(pack, plan, task)

CompressionInit == given = {} /\ context = NoContext
CompressionNext == \E pack \in Pack, plan \in Plan, task \in Task : Compress(pack, plan, task)

-----------------------------------------------------------------------------
(***************************************************************************)
(* The budget is kept, and what it cannot hold is the least needed: a      *)
(* required unit is cut or left out only when no optional one was taken    *)
(* and nothing of the budget is left; whatever is left out is counted.     *)
(***************************************************************************)
BudgetSpentOnRequired ==
  \A g \in given :
    LET whole == BuildUnits(g.pack, g.plan)
        short == {u \in whole : u.required /\ u \notin context.units}
    IN  /\ context.estimated_tokens <= AvailableContextTokens(g.plan)
        /\ Cardinality(context.units) + Cardinality(context.omitted_units) = Cardinality(whole)
        /\ (context.warnings.omitted_units = 0) = (Ids(context.units) = Ids(whole))
        /\ short # {} => /\ context.estimated_tokens = AvailableContextTokens(g.plan)
                         /\ \A u \in context.units : u.required

(***************************************************************************)
(* A plan that preserves contradictions loses none in silence: each is     *)
(* cited by the context or named in a warning, and one that neither a      *)
(* warning nor a count of omissions reports has a unit of its own, which   *)
(* cites both sides with their sources (contradiction_unit,                *)
(* compression_warnings); all that was cited counts as recalled.           *)
(***************************************************************************)
ContradictionsSurface ==
  \A g \in given : g.plan.preserve_contradictions =>
    \A c \in g.pack.contradictions :
      /\ c.id \in context.citations.contradictions \cup context.warnings.contradictions
      /\ context.warnings.omitted_units = 0 =>
           /\ {c.a, c.b} \subseteq context.citations.assertions
           /\ SourcesOf({a \in g.pack.assertions : a.id \in {c.a, c.b}}) \subseteq context.citations.sources
           /\ Evaluate(context, [sources |-> {}, assertions |-> {c.a, c.b}, contradictions |-> {c.id},
                                 baseline |-> 100]).estimated_answer_accuracy = 100
=============================================================================
