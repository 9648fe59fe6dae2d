----------------------------- MODULE Retrieval -----------------------------
(***************************************************************************)
(* Evidence for a question: packs gathered from the storage (rg-ai), the   *)
(* compiler that decides what to gather (rg-retrieval-compiler), and the   *)
(* stream of frames that serves a pack (rg-context-serving).  A question   *)
(* is the set of the words looked for that it contains, and the entities   *)
(* whose id or name it contains.                                           *)
(***************************************************************************)
EXTENDS GraphQuery

CONSTANTS
  StoredEntity,  \* ids of the entities of the storage
  CitedBy,       \* the stored sources each assertion names
  PredicateSays, \* the words looked for that a predicate's name contains
  Request,       \* compilation requests
  Slice,         \* sequences of source slices: buffer, from, to
  Budget         \* tokens a stream may spend

VARIABLES pack, stream

retrievalVars == <<graph, tx, index, pack, stream>>

Least(S) == CHOOSE x \in S : \A y \in S : x <= y
Greatest(S) == CHOOSE x \in S : \A y \in S : x >= y
Ascending(S) == SetToSortSeq(S, <)

-----------------------------------------------------------------------------
(***************************************************************************)
(* Evidence packs: what a graph query and a path search find, what         *)
(* contradicts it, and the entities and sources of it all.                 *)
(***************************************************************************)
RelevantContradictions(ids) == {c \in ContradictionsOf(Graph) : {c.a, c.b} \cap ids # {}}

SourcesFor(ids) == UNION {CitedBy[i] : i \in ids}
EntitiesFor(ids) == UNION {Keys("by_entity", graph[i]) : i \in ids} \cap StoredEntity

Generate(graph_query, path_query) ==
  LET paths == UNION {ExecutePath(q) : q \in path_query}
      found == ToSet(ExecuteGraph(graph_query)) \cup UNION {ToSet(p) : p \in paths}
      contradictions == RelevantContradictions(found)
      ids == found \cup UNION {{c.a, c.b} : c \in contradictions}
  IN  [assertions |-> Ascending(ids), entities |-> EntitiesFor(ids), sources |-> SourcesFor(ids),
       paths |-> paths, contradictions |-> contradictions, generated_at |-> tx]

-----------------------------------------------------------------------------
(***************************************************************************)
(* The compiler.                                                           *)
(***************************************************************************)
InferEntities(r) == Ascending(r.named \cap StoredEntity)

Asks == [ContradictoryEvidence |-> {"contradict", "conflict", "disagree", "both sides"},
         Causal |-> {"cause", "caused", "why", "led to", "impact"},
         AgentMemory |-> {"remember", "memory", "preference", "agent"},
         BroadGlobal |-> {"broad", "global", "overview", "summarize", "communities", "community"},
         MultiHop |-> {"multi hop", "through", "chain", "ultimately", "connected", "path"},
         Historical |-> {"historical", "in 2024", "in 2023", "what was true"},
         Relationship |-> {"relationship", "related", "owns", "works", "supplies", "ceo"}]

\* The first that applies, in this order.
Precedence == <<"ContradictoryEvidence", "Causal", "AgentMemory", "BroadGlobal", "MultiHop", "Historical", "Relationship">>

InferIntent(r) ==
  LET applies(intent) == \/ r.says \cap Asks[intent] # {}
                         \/ intent = "AgentMemory" /\ r.agent_state # None
                         \/ intent = "Historical" /\ r.temporal # None
      which == {n \in DOMAIN Precedence : applies(Precedence[n])}
  IN  IF which # {} THEN Precedence[Least(which)]
      ELSE IF InferEntities(r) = <<>> THEN "Ambiguous" ELSE "SimpleFact"

OperatorsFor ==
  [SimpleFact |-> <<"KeywordSearch", "VectorSearch">>,
   Relationship |-> <<"GraphExpansion", "VectorSearch">>,
   Historical |-> <<"TemporalFilter", "GraphExpansion">>,
   MultiHop |-> <<"PathSearch", "GraphExpansion", "VectorSearch">>,
   Ambiguous |-> <<"KeywordSearch", "VectorSearch", "CommunitySearch">>,
   BroadGlobal |-> <<"CommunitySearch", "TemporalFilter", "GraphExpansion">>,
   ContradictoryEvidence |-> <<"KeywordSearch", "TemporalFilter", "GraphExpansion", "ContradictionCheck">>,
   Causal |-> <<"CausalExpansion", "TemporalFilter">>,
   AgentMemory |-> <<"KeywordSearch", "VectorSearch", "TemporalFilter">>]

Needs == [VectorSearch |-> "VectorIndex", KeywordSearch |-> "KeywordIndex", TemporalFilter |-> "TemporalIndex",
          GraphExpansion |-> "GraphIndex", PathSearch |-> "GraphIndex", CommunitySearch |-> "CommunityIndex",
          CausalExpansion |-> "CausalGraph", ContradictionCheck |-> "ContradictionIndex",
          Compress |-> "Compressor", Cite |-> "CitationBuilder"]

OperatorAvailable(operator, tools) ==
  tools = {} \/ operator = "Rerank" \/ Needs[operator] \in tools

PlanFor(r) ==
  LET available(operator) == OperatorAvailable(operator, r.tools)
  IN  [intent |-> InferIntent(r),
       operators |-> SelectSeq(OperatorsFor[InferIntent(r)] \o <<"Rerank", "Compress", "Cite">>, available)]

InferPredicate(r, intent) ==
  CASE r.preferred # <<>> -> {r.preferred[1]}
    [] r.preferred = <<>> /\ r.says \cap {"work", "worked", "employ", "job"} # {} -> {"WORKED_AT"}
    [] OTHER ->
         IF r.says \cap {"control", "own", "owns", "ownership"} # {} THEN {"OWNS"}
         ELSE IF r.says \cap {"ceo", "chief executive"} # {} THEN {"CEO_OF"}
         ELSE IF r.says \cap {"supply", "supplier"} # {} THEN {"SUPPLIES"}
         ELSE IF intent = "ContradictoryEvidence" THEN {"CEO_OF"} ELSE None

ValidAtOf(r) == {t[1] : t \in r.temporal}
KnownAtOf(r) == {t[2] : t \in r.temporal}
Repeated(predicate, depth) == IF predicate = None THEN <<>> ELSE [n \in 1..depth |-> CHOOSE p \in predicate : TRUE]

PathQueryOf(r, start, end, predicate) ==
  [start |-> start, end |-> {end}, predicates |-> Repeated(predicate, r.max_depth), valid_at |-> ValidAtOf(r),
   max_depth |-> Greatest({r.max_depth, 1}), min_confidence |-> r.min_confidence]

\* The first entity from which the last one named can be reached.
CandidateStartForEnd(r, end, predicate) ==
  LET from == {e \in StoredEntity \ {end} : ExecutePath(PathQueryOf(r, e, end, predicate)) # {}}
  IN  IF from = {} THEN None ELSE {Least(from)}

PathQueryForRequest(r, entities, predicate) ==
  IF entities = <<>> THEN None
  ELSE LET start == IF Len(entities) >= 2 THEN {entities[1]}
                    ELSE CandidateStartForEnd(r, Last(entities), predicate)
       IN  {PathQueryOf(r, s, Last(entities), predicate) : s \in start}

SubjectForRequest(r, plan, entities, predicate) ==
  LET active == {s[1] : s \in r.agent_state \ {<<>>}}
      start == IF plan.intent = "MultiHop" /\ entities # <<>>
               THEN CandidateStartForEnd(r, Last(entities), predicate) ELSE None
      first == IF entities = <<>> THEN None ELSE {entities[1]}
  IN  IF active # {} THEN active ELSE IF start # None THEN start ELSE first

BroadQuery(r, subject, predicate) ==
  [subject |-> subject, predicate |-> predicate, object |-> None, valid_at |-> ValidAtOf(r),
   known_at |-> KnownAtOf(r), context |-> {"Global"}, min_confidence |-> r.min_confidence,
   limit |-> {Greatest({r.max_items, 1})}]

\* A slip the properties must notice: the sources of what was cut away stay in the pack.
CutAssertions(p, max_items) ==
  IF max_items = 0 THEN p ELSE [p EXCEPT !.assertions = SubSeq(@, 1, Least({max_items, Len(@)}))]

CompactPack(p, max_items) ==
  LET kept == SubSeq(p.assertions, 1, Least({max_items, Len(p.assertions)}))
  IN  IF max_items = 0 THEN p
      ELSE [p EXCEPT !.assertions = kept, !.sources = @ \cap SourcesFor(ToSet(kept))]

ExecutePlan(r, plan) ==
  LET predicate == InferPredicate(r, plan.intent)
      entities == InferEntities(r)
      path_query == IF "PathSearch" \in ToSet(plan.operators) THEN PathQueryForRequest(r, entities, predicate) ELSE None
  IN  CompactPack(Generate(BroadQuery(r, SubjectForRequest(r, plan, entities, predicate), predicate), path_query),
                  r.max_items)

\* The baseline: the assertion most like the question, by the topics both are about.
TopicWords ==
  {{"work", "employ", "job"}, {"own", "control", "ownership"}, {"ceo", "chief executive"},
   {"supply", "supplier", "contract"}, {"cause", "impact", "event"},
   {"memory", "remember", "preference", "agent"}, {"2024", "2023", "historical"}}
Embedding(says) == {words \in TopicWords : words \cap says # {}}

CloserTo(question, a, b) ==   \* cosine similarity, the last coordinate of each being one
  LET Dot(x) == Cardinality(question \cap Embedding(PredicateSays[x.predicate])) + 1
      Size(x) == Cardinality(Embedding(PredicateSays[x.predicate])) + 1
  IN  Dot(a) * Dot(a) * Size(b) > Dot(b) * Dot(b) * Size(a)

VectorOnlyBaseline(r) ==
  LET there == {a \in Graph : At(ValidAtOf(r), a.valid) /\ At(KnownAtOf(r), a.known)}
      question == Embedding(r.says)
      best == {a \in there : \A b \in there \ {a} :
                 CloserTo(question, a, b) \/ (~CloserTo(question, b, a) /\ a.id < b.id)}
      like(a) == [BroadQuery(r, {a.subject}, {a.predicate}) EXCEPT !.context = None, !.limit = {1}]
  IN  IF best = {} THEN Generate(BroadQuery(r, None, None), None)
      ELSE Generate(like(CHOOSE a \in best : TRUE), None)

-----------------------------------------------------------------------------
(***************************************************************************)
(* Serving.  A buffer is a sequence of letters, blanks and bytes that are  *)
(* no text; tokens of a slice are its words, or a quarter of its bytes.    *)
(* Every assertion counts for one token.                                   *)
(***************************************************************************)
SliceOf(s) == IF s.from > s.to \/ s.to > Len(s.buffer) THEN None ELSE {SubSeq(s.buffer, s.from + 1, s.to)}

EstimateTokens(bytes) ==
  IF "x" \in ToSet(bytes) THEN (Len(bytes) + 3) \div 4
  ELSE Cardinality({n \in DOMAIN bytes : bytes[n] # " " /\ (n = 1 \/ bytes[n - 1] = " ")})

Frame(kind, id, tokens) == [kind |-> kind, id |-> id, estimated_tokens |-> tokens]

Offered(p, slices) ==
  [n \in DOMAIN p.assertions |-> Frame("Assertion", p.assertions[n], 1)]
  \o FlattenSeq([n \in DOMAIN slices |->
       FoldSeq(LAMBDA b, frames : <<Frame("SourceSlice", n, EstimateTokens(b))>> \o frames, <<>>,
               SetToSeq(SliceOf(slices[n])))])
  \o (IF p.paths = {} THEN <<>> ELSE <<Frame("Path", 0, 1)>>)
  \o (IF p.contradictions = {} THEN <<>> ELSE <<Frame("Contradiction", 0, 1)>>)

Emit(sofar, frame, budget) ==
  IF sofar.tokens + frame.estimated_tokens <= budget
  THEN [sofar EXCEPT !.tokens = @ + frame.estimated_tokens, !.frames = Append(@, frame)]
  ELSE [sofar EXCEPT !.truncated = TRUE]

AssembleWithBudget(p, slices, budget) ==
  FoldLeft(LAMBDA sofar, frame : Emit(sofar, frame, budget),
           [frames |-> <<>>, tokens |-> 0, truncated |-> FALSE], Offered(p, slices))

-----------------------------------------------------------------------------
Compile(r) ==
  /\ pack' = {[request |-> r, baseline |-> FALSE, plan |-> PlanFor(r), pack |-> ExecutePlan(r, PlanFor(r))]}
  /\ stream' = None /\ UNCHANGED queryVars

Baseline(r) ==
  /\ pack' = {[request |-> r, baseline |-> TRUE, plan |-> PlanFor(r), pack |-> VectorOnlyBaseline(r)]}
  /\ stream' = None /\ UNCHANGED queryVars

Assemble(p, slices, budget) ==
  /\ stream' = {[slices |-> slices, budget |-> budget, out |-> AssembleWithBudget(p.pack, slices, budget)]}
  /\ UNCHANGED queryVars /\ UNCHANGED pack

RetrievalInit == QueryInit /\ pack = None /\ stream = None

RetrievalNext ==
  \/ /\ \/ \E a \in Assertion : AddAssertion(a)
        \/ \E i \in DOMAIN graph : Retract(i)
     /\ pack' = None /\ stream' = None
  \/ pack = None /\ \E r \in Request : Compile(r) \/ Baseline(r)
  \/ stream = None /\ \E p \in pack, slices \in Slice, budget \in Budget : Assemble(p, slices, budget)

-----------------------------------------------------------------------------
(***************************************************************************)
(* A pack cites what it states and nothing else, within its limit; when    *)
(* nothing was cut away, both sides of every contradiction it reports are  *)
(* in it, and what is neither an answer at the asked times nor a hop of a  *)
(* path is there because it contradicts one (generate, compact_pack).      *)
(***************************************************************************)
PackIsGrounded ==
  \A p \in pack :
    LET r == p.request
        ids == ToSet(p.pack.assertions)
        opposed == UNION {{c.a, c.b} : c \in p.pack.contradictions}
        timely == {i \in DOMAIN graph : At(ValidAtOf(r), graph[i].valid) /\ At(KnownAtOf(r), graph[i].known)
                                        /\ \A m \in r.min_confidence : graph[i].confidence >= m}
        whole == p.baseline \/ r.max_items = 0 \/ Cardinality(ids) < r.max_items
    IN  /\ p.pack.sources = SourcesFor(ids)
        /\ ~p.baseline /\ r.max_items > 0 => Len(p.pack.assertions) <= r.max_items
        /\ whole => /\ opposed \cup UNION {ToSet(w) : w \in p.pack.paths} \subseteq ids
                    /\ ids \ timely \subseteq opposed \cup UNION {ToSet(w) : w \in p.pack.paths}
        /\ p.pack.paths # {} => /\ p.plan.intent = "MultiHop"
                                /\ \A w \in p.pack.paths : Len(w) <= Greatest({1, r.max_depth})

(***************************************************************************)
(* A stream keeps its budget and says when it left something out; in one   *)
(* that left nothing out the reader sees every assertion, and that there   *)
(* are contradictions if there are (assemble_with_budget).                 *)
(***************************************************************************)
StreamSaysWhatIsMissing ==
  \A p \in pack, s \in stream :
    LET served == {<<f.kind, f.id>> : f \in ToSet(s.out.frames)}
    IN  /\ s.out.tokens <= s.budget
        /\ ~s.out.truncated =>
             /\ \A i \in ToSet(p.pack.assertions) : <<"Assertion", i>> \in served
             /\ (p.pack.contradictions # {}) = (\E f \in served : f[1] = "Contradiction")
             /\ \A n \in DOMAIN s.slices : SliceOf(s.slices[n]) # None => <<"SourceSlice", n>> \in served
        /\ s.out.truncated => Len(s.out.frames) < Len(Offered(p.pack, s.slices))
=============================================================================
