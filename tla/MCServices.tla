----------------------------- MODULE MCServices -----------------------------
(***************************************************************************)
(* The services around the graph, for TLC: those of Services and the ones  *)
(* that are only checked.  They share no state, so a behaviour exercises   *)
(* one of them, chosen at the start, and leaves the others as they began;  *)
(* every one is explored in full.                                          *)
(***************************************************************************)
EXTENDS Services, Integers, TLC

VARIABLES
  focus,
  claims, conflict_sets, revisions,
  dependencies, reverse_dependencies, status, invalidated_by, recorded,
  log, key_ring, documents, snapshot, acked, writes,
  record,
  graph, last_tx, adjacency,
  entities, trusted, cursors, report, health_history, proposed,
  pack, stream,
  given, context,
  memories, vectors, recall_last,
  stored, tool_policy, tool_log, response,
  outgoing, incoming, happened, inserted,
  auth, answer,
  reviewed, outcome

(***************************************************************************)
(* Agent memory: corrections of corrections, consolidations of them, and a *)
(* write that is refused for want of a source.                             *)
(***************************************************************************)
AWrite(id, supersedes, contradicts, lifecycle, readers, sources) ==
  [id |-> id, supersedes |-> supersedes, contradicts |-> contradicts, lifecycle |-> lifecycle,
   readers |-> readers, public |-> id = 2, valid |-> 1, sources |-> sources]

MemoryWrites ==
  {AWrite(1, {}, {}, "Active", {"ann"}, {"log"}), AWrite(2, {}, {}, "Active", {"bob"}, {"log"}),
   AWrite(2, {1}, {}, "Active", {"bob"}, {"log"}), AWrite(3, {1}, {2}, "Active", {"ann", "bob"}, {"log"}),
   AWrite(3, {}, {1}, "Active", {"ann"}, {"log"}), AWrite(4, {}, {}, "Active", {"ann"}, {}),
   AWrite(4, {}, {}, "Reinforced", {"ann"}, {"log"})}

MemoryReaders == {"ann", "bob"}

(***************************************************************************)
(* Beliefs: values that differ, and one that differs in spelling only, of  *)
(* sources trusted well, little and not at all, some of them late.         *)
(***************************************************************************)
AClaim(id, value, case, from, until, tx, confidence, sources) ==
  [id |-> id, key |-> "port", object |-> [value |-> value, case |-> case], from |-> from,
   until |-> until, tx |-> tx, confidence |-> confidence, sources |-> sources]

Observations ==
  {AClaim(1, "open", 1, 0, 2, 1, 80, {"radar"}), AClaim(2, "shut", 1, 1, 9, 2, 80, {"radar", "rumor"}),
   AClaim(3, "open", 2, 0, 9, 1, 80, {"guess"}), AClaim(4, "shut", 1, 0, 1, 2, 60, {}),
   AClaim(1, "shut", 1, 0, 9, 3, 80, {"rumor"}), AClaim(5, "shut", 1, 2, 9, 2, 80, {"radar"})}

AFact(latest, critical, tool) ==
  [key |-> "port", latest |-> latest, resolve |-> FALSE, critical |-> critical, tool |-> tool]

Belief == INSTANCE BeliefEngine WITH
  Claim <- Observations,
  Trust <- [s \in {"radar", "rumor"} |-> IF s = "radar" THEN 90 ELSE 30],
  Fact <- {AFact(TRUE, FALSE, "none"), AFact(FALSE, TRUE, "call"), AFact(FALSE, FALSE, "call")},
  Tool <- {[name |-> "look", rank |-> 1, provides |-> {"port"}],
           [name |-> "call", rank |-> 2, provides |-> {"port"}]},
  Instant <- 0..3, StaleAfter <- 1, MaxIngested <- 4

(***************************************************************************)
(* Truth maintenance: derived assertions that may come to rest on each     *)
(* other, an assumption that may, and an answer given twice.               *)
(***************************************************************************)
Truth == INSTANCE TruthMaintenance WITH
  Evidence <- {"s", "p"}, Assumption <- {"a"}, Derived <- {"d", "e"}, Answer <- {"q"},
  Record <- {[node |-> "a", on |-> {"s"}], [node |-> "a", on |-> {"d"}],
             [node |-> "d", on |-> {"a", "s"}], [node |-> "d", on |-> {"e"}],
             [node |-> "e", on |-> {"d"}], [node |-> "e", on |-> {"p"}],
             [node |-> "q", on |-> {"d"}], [node |-> "q", on |-> {"p", "e"}]},
  MaxRecords <- 3, records <- recorded

(***************************************************************************)
(* Agents that share: a private claim for one colleague, one for nobody,   *)
(* one for the team, claims of the team and of the public.                 *)
(***************************************************************************)
ARecording(id, object, namespace, by, sharing) ==
  [claim |-> [id |-> id, key |-> "k", object |-> object, from |-> 0, until |-> 2],
   namespace |-> namespace, by |-> by, policy |-> sharing]
Private(agent) == [kind |-> "AgentPrivate", owner |-> agent]

TeamAgents == {"ann", "bob", "cay"}
TeamRecordings ==
  {ARecording(1, "x", Private("ann"), "ann", [kind |-> "DirectAgents", agents |-> {"bob"}]),
   ARecording(1, "y", Private("bob"), "bob", [kind |-> "Private"]),
   ARecording(2, "x", [kind |-> "Team", team |-> "crew"], "ann", [kind |-> "Public"]),
   ARecording(2, "z", Private("ann"), "ann", [kind |-> "Team", team |-> "crew"]),
   ARecording(3, "z", [kind |-> "PublicWorldState"], "bob", [kind |-> "Organization"])}
Crews == {{"ann", "bob"}, {"ann"}}

\* The cache: an entry read from an entity and an assertion, and one from an assertion.
CacheReads == {{"e", "a"}, {"b"}}

(***************************************************************************)
(* Governance: assertions of two tenants and two sources, each of which    *)
(* may be closed to a principal or redacted in part.                       *)
(***************************************************************************)
AnAssertion(id, tenant, sources, about) ==
  [id |-> id, context |-> tenant, sources |-> sources, entities |-> about]

Principals == {[id |-> "p", tenant |-> "t"], [id |-> "q", tenant |-> "t"], [id |-> "r", tenant |-> "u"]}
PolicyPacks ==
  {[assertions |-> {AnAssertion("a", "t", {"s1"}, {"e"}), AnAssertion("b", "t", {"s1", "s2"}, {"e", "f"}),
                    AnAssertion("c", "u", {"s2"}, {"f"})},
    entities |-> {"e", "f"}, sources |-> {"s1", "s2"}, paths |-> {{"a"}, {"a", "b"}},
    contradictions |-> {{"a", "b"}, {"b", "c"}}]}
Rules ==
  {[kind |-> "read", tenant |-> "t"], [kind |-> "read", tenant |-> "u"],
   [kind |-> "source", source |-> "s1", principals |-> {"p"}],
   [kind |-> "source", source |-> "s2", principals |-> {"p", "q"}],
   [kind |-> "source", source |-> "s2", principals |-> {"q"}],
   [kind |-> "memory", memory |-> "m", agents |-> {"x"}, public |-> FALSE],
   [kind |-> "redaction", source |-> "s1", field |-> "all"],
   [kind |-> "redaction", source |-> "s1", field |-> "uri"],
   [kind |-> "redaction", source |-> "s2", field |-> "snippet"]}

(***************************************************************************)
(* Federation: a graph that is replaced under its id by one that another   *)
(* asker may read, and one that is everyone's.                             *)
(***************************************************************************)
AGraph(id, boundary, readers, results) ==
  [id |-> id, boundary |-> boundary, readers |-> readers, results |-> results]

Federated ==
  {AGraph("g", "Local", {"p"}, {"i"}), AGraph("g", "Local", {"q"}, {"j"}),
   AGraph("h", "Lab", {"*"}, {"i", "k"}), AGraph("h", "Local", {"p"}, {"j"})}

(***************************************************************************)
(* Confidential stores: a first ring, a later one that still has its key,  *)
(* and one whose key has the first one's name and another material.        *)
(***************************************************************************)
ARing(active, keys) == [active |-> active, keys |-> keys]

Vault == INSTANCE Confidential WITH
  Ring <- {ARing("k1", [k \in {"k1"} |-> "m1"]), ARing("k1", [k \in {"k1"} |-> "m3"]),
           ARing("k2", [k \in {"k1", "k2"} |-> IF k = "k1" THEN "m1" ELSE "m2"])},
  SourceId <- {"s", "t"}, MaxWrites <- 3, sources <- documents

(***************************************************************************)
(* Records: an event of each kind, with fields that are empty, absent or   *)
(* full of the characters the codec gives a meaning to.                    *)
(***************************************************************************)
AText(c) == <<c>>
ASpan(start, end) == [start |-> start, end |-> end]
AVariant(tag, of) == [tag |-> tag, of |-> of]
AProperty(name, value) == [name |-> name, value |-> value]
AnEvent(kind, id, tx, of) == [kind |-> kind, id |-> id, tx |-> tx, of |-> of]

WrittenEvents ==
  {AnEvent("EntityCreated", <<"e", "1">>, 1,
     <<<<"a", "\\">>, AVariant("Custom", <<<<"n">>>>), {<<"\n">>},
       <<AProperty(<<"p">>, AVariant("Text", <<<<"\\", "n", ":", "3">>>>)),
         AProperty(<<"q">>, AVariant("Null", <<>>))>>, 12>>),
   AnEvent("AssertionAdded", <<"e", "2">>, 10,
     <<AText("x"), AText("a"), AText("w"), AVariant("Entity", <<AText("b")>>), ASpan(1, {}),
       ASpan(0, {2}), 3, <<>>, AVariant("Named", <<AText("5")>>), "Active">>),
   AnEvent("SourceAdded", <<"e", "3">>, 3,
     <<AText("s"), AVariant("WebPage", <<>>), {}, <<"\t", ":">>, 0, {}>>),
   AnEvent("SourceAdded", <<"e", "3">>, 3,
     <<AText("s"), AVariant("Custom", <<<<>>>>), {<<>>}, <<>>, 0, {7}>>),
   AnEvent("CausalLinkAdded", <<"e">>, 4,
     <<AText("l"), AText("c"), AText("d"), 9, {AText("m")}, <<AText("s"), <<>>>>>>),
   AnEvent("AgentMemoryRecorded", <<"e">>, 4,
     <<AText("m"), AText("g"), "Semantic", <<"1", "1", ":", "\r">>, ASpan(1, {2}), 1,
       <<AText("s")>>, <<AText("a"), AText("b")>>, <<>>, "Superseded">>),
   AnEvent("AssertionRetracted", <<"e">>, 5, <<<<"\\", "\\">>>>),
   AnEvent("EvidenceLinked", <<>>, 5, <<AText("x"), AText("s")>>),
   AnEvent("EntityMerged", <<"1", ":">>, 5, <<AText("a"), AText("b")>>),
   AnEvent("ConfidenceUpdated", <<"1">>, 5, <<AText("x"), 11, <<AText("s"), AText("t")>>>>)}

Codec == INSTANCE RecordCodec WITH
  Written <- [sequence : {1, 12}, key : {{}, {<<>>}, {<<"k", ":">>}}, event : WrittenEvents]

(***************************************************************************)
(* Queries: assertions that chain to a cycle, contradict each other by     *)
(* value, by predicate and by kind of value, one of them never valid; and  *)
(* statements of every kind, one with an interval that runs backwards.     *)
(***************************************************************************)
AnEntity(e) == [kind |-> "Entity", of |-> e]
Said(id, subject, predicate, object, from, until, confidence, scope) ==
  [id |-> id, subject |-> subject, predicate |-> predicate, object |-> object,
   valid |-> [start |-> from, end |-> until], confidence |-> confidence, context |-> scope]

SaidThings ==
  {Said(1, "x", "p", AnEntity("y"), 0, {}, 50, "g"), Said(2, "x", "p", AnEntity("z"), 1, {2}, 80, "g"),
   Said(3, "y", "q", AnEntity("z"), 1, {}, 50, "g"), Said(4, "z", "p", AnEntity("x"), 0, {2}, 80, "g"),
   Said(5, "x", "r", AnEntity("y"), 0, {}, 100, "g"), Said(5, "x", "p", AnEntity("y"), 2, {}, 80, "g"),
   Said(6, "x", "p", [kind |-> "Text", of |-> "w"], 1, {}, 20, "h"),
   Said(6, "x", "p", [kind |-> "Text", of |-> "w"], 1, {1}, 20, "g")}

Asking(kind, entity, via, object, clauses) ==
  [kind |-> kind, entity |-> entity, via |-> via, object |-> object,
   clauses |-> [c \in {"VALID_AT", "KNOWN_AT", "VALID_DURING", "WITHIN", "MIN_CONFIDENCE", "MAX_DEPTH", "LIMIT",
                       "WITH", "CONTRADICTIONS", "RETURN"} |-> IF c \in DOMAIN clauses THEN {clauses[c]} ELSE {}]]
OfName(type, name) == [kind |-> "TypedName", type |-> type, name |-> name]
Pick(kind, name) == [kind |-> kind, name |-> name]

Statements ==
  {Asking("Find", {OfName("Person", "Ann")}, <<"p">>, {Pick("Id", "y")},
     "VALID_AT" :> 1 @@ "KNOWN_AT" :> 2 @@ "MIN_CONFIDENCE" :> 60 @@ "WITH" :> TRUE),
   Asking("Find", {Pick("Type", "Company")}, <<"p">>, {}, "CONTRADICTIONS" :> TRUE @@ "LIMIT" :> 2 @@ "KNOWN_AT" :> 1),
   Asking("Find", {OfName("Entity", "z")}, <<>>, {}, "VALID_AT" :> 1),
   Asking("Path", {OfName("Entity", "Ann")}, <<>>, {}, "VALID_AT" :> 1 @@ "RETURN" :> <<"paths", "evidence">>),
   Asking("Path", {Pick("Id", "x")}, <<"p", "q">>, {OfName("Company", "Ann")}, "MAX_DEPTH" :> 2 @@ "MIN_CONFIDENCE" :> 50),
   Asking("Path", {Pick("Id", "x")}, <<"q", "p">>, {}, "MAX_DEPTH" :> 0),
   Asking("Path", {Pick("Type", "Person")}, <<"p">>, {}, "VALID_DURING" :> <<1, 2>> @@ "VALID_AT" :> 1),
   Asking("Path", {Pick("Type", "Person")}, <<>>, {}, "VALID_DURING" :> <<2, 1>>),
   Asking("Causes", {Pick("Event", "e")}, <<>>, {}, "WITHIN" :> 7 @@ "MIN_CONFIDENCE" :> 1 @@ "MAX_DEPTH" :> 2),
   Asking("Contradictions", {Pick("Id", "y")}, <<>>, {}, "VALID_AT" :> 1 @@ "KNOWN_AT" :> 1),
   Asking("Contradictions", {}, <<>>, {}, "VALID_AT" :> 0),
   Asking("Counterfactual", {Pick("ASSERTION", "e")}, <<>>, {}, "VALID_AT" :> 1 @@ "MAX_DEPTH" :> 1 @@ "RETURN" :> <<"a">>)}

AnyEntity(id, type, name) == [id |-> id, type |-> type, name |-> name]

Query == INSTANCE Rgql WITH
  Assertion <- SaidThings, Exclusive <- {{"p", "r"}}, Instant <- 0..2, MaxTx <- 4,
  Entity <- <<AnyEntity("x", "Person", "Ann"), AnyEntity("y", "Organization", "Hub"),
              AnyEntity("z", "Organization", "Ann")>>,
  Statement <- Statements,
  Text <- UNION {[1..n -> {"a", "-", "_", "1", ".", "\"", "(", " "}] : n \in 0..4},
  tx <- last_tx, index <- adjacency

(***************************************************************************)
(* Maintenance, over two entities of one name: a claim that is contradicted*)
(* and one that is superseded, a source that is hardly trusted.            *)
(***************************************************************************)
Upkeep == INSTANCE Maintenance WITH
  Assertion <- {Said(1, 1, "p", AnEntity(2), 0, {}, 50, "g"), Said(2, 1, "p", AnEntity(3), 1, {2}, 80, "g"),
                Said(3, 1, "p", AnEntity(2), 1, {}, 80, "g")},
  Exclusive <- {{"p", "r"}}, Instant <- 0..2, MaxTx <- 3,
  Named <- {AnyEntity(1, "t", {"n"}), AnyEntity(2, "t", {"n"})}, Cited <- {[id |-> 1, trust |-> {10}]},
  StaleLag <- 1, LowTrust <- 35, AutoApply <- TRUE, MaxRuns <- 2,
  tx <- last_tx, index <- adjacency

(***************************************************************************)
(* Retrieval: requests that ask for paths, causes, conflicts and broad     *)
(* views, with tools missing and limits of nothing; slices in one buffer.  *)
(***************************************************************************)
ARequest(says, named, agent, temporal, preferred, min, items, depth, tools) ==
  [says |-> says, named |-> named, agent_state |-> agent, temporal |-> temporal, preferred |-> preferred,
   min_confidence |-> min, max_items |-> items, max_depth |-> depth, tools |-> tools]
ASlice(buffer, from, to) == [buffer |-> buffer, from |-> from, to |-> to]

Packs == INSTANCE Retrieval WITH
  Assertion <- {Said(1, 1, "OWNS", AnEntity(2), 0, {}, 50, "Global"), Said(2, 1, "OWNS", AnEntity(3), 0, {2}, 80, "Global"),
                Said(3, 2, "OWNS", AnEntity(3), 1, {}, 80, "Global"), Said(4, 2, "CEO_OF", AnEntity(1), 0, {}, 80, "Agent")},
  Exclusive <- {}, Instant <- 0..2, MaxTx <- 4, StoredEntity <- 1..3,
  CitedBy <- (1 :> {"s"} @@ 2 :> {"s", "t"} @@ 3 :> {"u"} @@ 4 :> {}),
  PredicateSays <- [OWNS |-> {"own", "owns"}, CEO_OF |-> {"ceo"}],
  Request <-
    {ARequest({"owns", "own"}, {1}, {}, {}, <<>>, {0}, 6, 2, {}),
     ARequest({"path"}, {3}, {}, {<<1, 2>>}, <<>>, {60}, 2, 2, {}),
     ARequest({"path", "own"}, {1, 3}, {}, {}, <<>>, {}, 0, 2, {}),
     ARequest({"through"}, {3}, {}, {}, <<>>, {}, 9, 0, {"VectorIndex", "GraphIndex"}),
     ARequest({"path"}, {3}, {}, {}, <<>>, {}, 9, 2, {"VectorIndex"}),
     ARequest({"conflict"}, {2}, {}, {<<0, 1>>}, <<>>, {}, 3, 2, {}),
     ARequest({"why"}, {}, {}, {}, <<"OWNS">>, {}, 1, 2, {}),
     ARequest({}, {2}, {<<1>>}, {<<1, 1>>}, <<>>, {}, 4, 2, {}),
     ARequest({}, {2}, {<<>>}, {}, <<>>, {}, 4, 2, {}),
     ARequest({"overview", "ceo"}, {}, {}, {}, <<>>, {}, 4, 2, {}),
     ARequest({}, {2}, {}, {<<2, 2>>}, <<>>, {}, 4, 2, {}), ARequest({}, {7}, {}, {}, <<>>, {}, 2, 2, {}),
     ARequest({"supply"}, {2}, {}, {}, <<>>, {}, 2, 1, {})},
  Slice <- {<<>>, <<ASlice(<<"a", " ", "a", "a">>, 0, 3), ASlice(<<"x", "a", " ">>, 0, 3), ASlice(<<"a">>, 1, 2)>>},
  Budget <- {0, 2, 9}, tx <- last_tx, index <- adjacency

(***************************************************************************)
(* Compression: packs of two conflicts and three sources, one of them      *)
(* without trust; plans from roomy to one that leaves nothing.             *)
(***************************************************************************)
AnEvidence(id, subject, predicate, text, entity, at, confidence, sources) ==
  [id |-> id, subject |-> subject, predicate |-> predicate, object |-> [text |-> text, entity |-> entity],
   tx |-> at, confidence |-> confidence, source_ids |-> sources]
ASnippet(id, trust, words) == [id |-> id, trust |-> trust, snippet |-> words]
AConflict(id, a, b, severity) == [id |-> id, a |-> a, b |-> b, severity |-> severity, explanation |-> <<"both">>]
APlan(max, reserved, top, minimum, preserve, signals) ==
  [max_tokens |-> max, reserved_output_tokens |-> reserved, allowed_levels |-> top, min_confidence |-> minimum,
   preserve_contradictions |-> preserve, rank_by |-> signals]

EvidenceItems ==
  {AnEvidence("a1", "ann", "works", "acme", {"acme"}, 1, 90, {"s1"}), AnEvidence("a2", "ann", "works", "bolt", {}, 2, 40, {"s2"}),
   AnEvidence("a3", "acme", "is", "big", {}, 3, 90, {}), AnEvidence("a4", "bob", "is", "tall", {}, 1, 60, {"s2"}),
   AnEvidence("a5", "bob", "is", "short", {}, 1, 5, {"s3"})}
EvidencePacks ==
  {p \in [query : {<<"where">>},
          sources : {{}, {ASnippet("s1", {80}, <<"ann", "was", "there">>), ASnippet("s2", {}, <<>>), ASnippet("s3", {0}, <<>>)}},
          assertions : SUBSET EvidenceItems,
          contradictions : SUBSET {AConflict("c1", "a1", "a2", "Critical"), AConflict("c2", "a4", "a5", "Low")}] :
    \A c \in p.contradictions : {c.a, c.b} \subseteq {a.id : a \in p.assertions}}
Signals == {"ContradictionImportance", "TaskRelevance", "Confidence", "SourceTrust", "GraphCentrality", "Recency"}
Levels == {"RawSourceSnippets", "AssertionList", "EntityTimeline", "RelationshipSummary", "CommunitySummary",
           "TaskSpecificDistilledContext"}

Compression == INSTANCE ContextCompression WITH
  Pack <- EvidencePacks, Task <- {{}, {"ann", "acme"}},
  Plan <- {APlan(400, 0, Levels, {}, TRUE, Signals), APlan(60, 20, Levels, {50}, TRUE, {"Recency", "Confidence"}),
           APlan(12, 0, {"AssertionList", "RawSourceSnippets"}, {}, TRUE, Signals),
           APlan(55, 0, Levels, {}, TRUE, Signals), APlan(9, 12, Levels, {}, FALSE, {})}

(***************************************************************************)
(* Recall: memories of two agents, one superseded twice, one that names    *)
(* nothing known; vectors of two lengths, of opposite directions, of zero. *)
(***************************************************************************)
AMemory(id, agent, related, sources, supersedes, state, from, until, words) ==
  [id |-> id, agent |-> agent, type |-> "Observation", related |-> related, sources |-> sources, supersedes |-> supersedes,
   status |-> state, from |-> from, until |-> until, words |-> words]
AVector(id, kind, memory, embedding) == [id |-> id, kind |-> kind, memory |-> memory, embedding |-> embedding]
ASeed(asked, agent, named, seen, valid, old, limit) ==
  [query |-> asked, agent |-> agent, entities |-> named, memories |-> seen, valid_at |-> valid,
   include_superseded |-> old, limit |-> limit]

Recall == INSTANCE MemoryRecall WITH
  Entity <- {[id |-> "x", words |-> {"tea"}], [id |-> "y", words |-> {}], [id |-> "z", words |-> {"why"}]},
  Source <- {"s", "t"}, Assertion <- {[id |-> 1, subject |-> "x", objects |-> {"y"}, sources |-> {"t"}]},
  MemoryInput <-
    {AMemory(1, "ann", {"x"}, {"s"}, {}, "Active", 0, {}, {"tea"}), AMemory(2, "bob", {}, {"s"}, {1}, "Active", 1, {}, {}),
     AMemory(2, "ann", {"y"}, {"s", "t"}, {1}, "Reinforced", 0, {1}, {"tea"}),
     AMemory(3, "ann", {}, {"t"}, {1, 2}, "Candidate", 0, {}, {}), AMemory(3, "bob", {"x", "y"}, {"t"}, {}, "Active", 0, {}, {}),
     AMemory(4, "bob", {"q"}, {"t"}, {}, "Active", 0, {}, {}), AMemory(4, "ann", {}, {}, {}, "Active", 0, {}, {})},
  VectorInput <-
    {AVector(1, "AgentMemory", 1, <<1, 0>>), AVector(2, "AgentMemory", 1, <<1, 1>>), AVector(3, "AgentMemory", 2, <<-1, 1>>),
     AVector(3, "Assertion", 2, <<2>>), AVector(4, "AgentMemory", 3, <<0, 0>>), AVector(4, "Assertion", 3, <<1, 2>>)},
  Embedding <- {<<1, 0>>, <<-1, 2>>, <<0>>, <<99, 1>>, <<>>},
  Seed <- {ASeed({"tea"}, {}, {"x"}, {}, {}, TRUE, {}), ASeed({}, {"ann"}, {"y"}, {1}, {1}, FALSE, {1}),
           ASeed({"why"}, {}, {}, {3}, {}, TRUE, {2}), ASeed({}, {"bob"}, {}, {}, {0}, FALSE, {})},
  Iterations <- 3, MaxPathDepth <- 3, MaxMemories <- 3

(***************************************************************************)
(* The tool server: calls of every tool, by its names, with and without    *)
(* what they must have; writes confirmed, denied and refused; resources    *)
(* that are there, unknown and of no kind; requests that are no requests.  *)
(***************************************************************************)
Str(s) == [type |-> "string", is |-> s]
Num(n) == [type |-> "integer", is |-> n]
Real(n) == [type |-> "number", is |-> n]
Bool(b) == [type |-> "boolean", is |-> b]
List(S) == [type |-> "array", is |-> S]
NoArguments == [k \in {} |-> 0]
ACall(tool, args, risk) ==
  [jsonrpc |-> "2.0", method |-> "tools/call", named |-> <<tool>>, args |-> args, risk |-> risk]
AMemo(agent, id, sources) ==
  "agent_id" :> Str(agent) @@ "memory_id" :> Str(id) @@ "memory_type" :> Str("Semantic") @@ "content" :> Str("c")
    @@ "valid_from" :> Num(0) @@ "confidence" :> Real(1) @@ "source_ids" :> List(sources)
AResource(kind, id) ==
  [jsonrpc |-> "2.0", method |-> "resources/read", named |-> <<kind, id>>, args |-> NoArguments, risk |-> 0]
ABareRequest(version, method) ==
  [jsonrpc |-> version, method |-> method, named |-> <<>>, args |-> NoArguments, risk |-> 0]

Requests ==
  {ACall("search_context", "query" :> Str("q") @@ "agent_id" :> Str("ann") @@ "limit" :> Num(1), 0),
   ACall("search_memory", "query" :> Str("q") @@ "limit" :> Num(-1), 0),
   ACall("search_memory", NoArguments, 0), ACall("query_graph", "entity_id" :> Str("x") @@ "valid_at" :> Num(1), 64),
   ACall("query_graph", "entity_id" :> Str("x"), 65), ACall("get_timeline", "entity_id" :> Num(1), 0),
   ACall("get_timeline", "entity_id" :> Str("z"), 0),
   ACall("find_paths", "start_entity_id" :> Str("x") @@ "end_entity_id" :> Str("z"), 0),
   ACall("detect_conflicts", NoArguments, 0), ACall("find_contradictions", "entity_id" :> Str("y"), 0),
   ACall("run_counterfactual", "intervention_type" :> Str("add_event"), 0),
   ACall("simulate_counterfactual", "intervention_type" :> Str("remove_event") @@ "event_id" :> Str("e"), 0),
   ACall("write_memory", AMemo("ann", "p", {"s"}), 0),
   ACall("write_memory", AMemo("ann", "m", {"s"}) @@ "confirm_write" :> Bool(TRUE), 0),
   ACall("write_agent_memory", AMemo("bob", "n", {"u"}) @@ "confirm_write" :> Bool(TRUE), 0),
   ACall("write_memory", AMemo("bob", "o", {}) @@ "confirm_write" :> Bool(TRUE), 0),
   ACall("write_memory", AMemo("bob", "o", {"s"}) @@ "confirm_write" :> Bool(FALSE), 0),
   ACall("erase", NoArguments, 0), AResource("entities", "x"), AResource("entities", "w"), AResource("assertions", 1),
   AResource("sources", "s"), AResource("sources", "v"), AResource("memories", "ann"), AResource("timelines", "w"),
   AResource("paths", "w"), ABareRequest("1.0", "tools/list"), ABareRequest("2.0", "tools/list"),
   ABareRequest("2.0", "tools/call"), ABareRequest("2.0", "tools/drop")}

Tools == INSTANCE ToolServer WITH
  Assertion <- {Said(1, "x", "p", AnEntity("y"), 0, {}, 50, "g"), Said(2, "x", "p", AnEntity("z"), 1, {2}, 80, "g"),
                Said(3, "y", "q", AnEntity("z"), 1, {}, 50, "g")},
  Exclusive <- {}, Instant <- 0..2, MaxTx <- 0, Request <- Requests,
  StoredSource <- [s |-> {90}, t |-> {60}, u |-> {}], CitedBy <- (1 :> {"s", "u"} @@ 2 :> {"t"} @@ 3 :> {"v"}),
  Agent <- {"ann", "bob"}, MaxJournal <- 3, MaxCalls <- 3,
  graph <- stored, tx <- last_tx, index <- adjacency, policy <- tool_policy, audit_log <- tool_log

(***************************************************************************)
(* Causes: links in a cycle, one inserted again with another end; and      *)
(* interventions on what is there, what is not, and what replaces it.      *)
(***************************************************************************)
ALink(id, cause, effect, confidence) == [id |-> id, cause |-> cause, effect |-> effect, confidence |-> confidence]
Replacing(id, subject, object) ==
  [id |-> id, subject |-> subject, predicate |-> "q", object |-> object, valid |-> [start |-> 0, end |-> {}],
   context |-> "g", confidence |-> 40, status |-> "Active", known |-> [start |-> 0, end |-> {}]]
AnIntervention(kind, assertion, replacement, event) ==
  [kind |-> kind, assertion |-> assertion, replacement |-> replacement, event |-> event]

Causes == INSTANCE Counterfactual WITH
  Assertion <- {Said(1, "x", "p", AnEntity("y"), 0, {}, 50, "g"), Said(2, "y", "q", AnEntity("z"), 0, {1}, 80, "g"),
                Said(3, "w", "p", AnEntity("z"), 0, {}, 20, "g"), Said(4, "z", "r", [kind |-> "Text", of |-> "t"], 0, {}, 20, "g")},
  Exclusive <- {}, Instant <- 0..1, MaxTx <- 4,
  Link <- {ALink(1, "a", "b", 90), ALink(2, "b", "c", 50), ALink(3, "c", "a", 80), ALink(4, "a", "c", 60),
           ALink(1, "a", "c", 100), ALink(2, "c", "b", 100)},
  CausalEvent <- {[id |-> "b", entities |-> {"x"}, assertions |-> {1}]},
  Intervention <- {AnIntervention("RemoveAssertion", i, Replacing(9, "x", AnEntity("x")), "") : i \in {1, 2, 9}}
     \cup {AnIntervention("AddAssertion", 0, Replacing(i, "x", AnEntity("w")), "") : i \in {2, 9}}
     \cup {AnIntervention("ModifyAssertion", 1, Replacing(i, "y", AnEntity("w")), "") : i \in {1, 3}}
     \cup {AnIntervention("AddEvent", 0, Replacing(9, "x", AnEntity("x")), "e")},
  DeltaRule <- {[predicate |-> "p", delta |-> -30], [predicate |-> "q", delta |-> 30]},
  Depth <- 0..3, MaxSteps <- 4, tx <- last_tx, index <- adjacency

(***************************************************************************)
(* The HTTP API: requests of two tenants and of nobody, that write into    *)
(* their own context and another's, and ask within and beyond the limits.  *)
(***************************************************************************)
AnAccount(key, tenant, roles) == [key |-> key, tenant |-> tenant, roles |-> roles]
Sent(route, key, body) == [route |-> route, key |-> key, body |-> body]
Posting(id, subject, predicate, object, from, until, confidence, sources, scope) ==
  [id |-> id, subject |-> subject, predicate |-> predicate, object |-> object, valid |-> [start |-> from, end |-> until],
   confidence |-> confidence, sources |-> sources, context |-> scope]
Searching(subject, predicate, object, valid, known, scope, limit) ==
  [subject |-> subject, predicate |-> predicate, object |-> object, valid_at |-> valid, known_at |-> known,
   context |-> scope, min_confidence |-> {}, limit |-> limit]
Way(start, end, depth) ==
  [start |-> start, end |-> end, predicates |-> <<>>, valid_at |-> {}, max_depth |-> depth, min_confidence |-> {}]
AQuestion(words, named, ids, scope, limit, blank) ==
  [words |-> words, named |-> named, entity_ids |-> ids, predicates |-> <<>>, valid_at |-> {1}, known_at |-> {},
   context |-> scope, min_confidence |-> {}, limit |-> limit, blank |-> blank]
Everything(limit) == Searching({}, {}, {}, {}, {}, {}, limit)
HttpRequests ==
  {Sent("assertions", {"kt"}, Posting({}, 1, "OWNS", AnEntity(2), 0, {}, 80, <<"s">>, {})),
   Sent("assertions", {"kt"}, Posting({2}, 2, "OWNS", AnEntity(3), 0, {2}, 80, <<"s">>, {"t"})),
   Sent("assertions", {"ku"}, Posting({3}, 2, "OWNS", AnEntity(3), 1, {}, 60, <<"s", "s">>, {})),
   Sent("assertions", {"ku"}, Posting({}, 1, "OWNS", AnEntity(2), 1, {}, 60, <<"s">>, {})),
   Sent("assertions", {"ku"}, Posting({4}, 1, "IS", [kind |-> "Integer", of |-> 3], 1, {1}, 60, <<"s">>, {})),
   Sent("assertions", {"kt"}, Posting({}, 1, "IS", [kind |-> "Text", of |-> "w"], 1, {0}, 60, <<"s">>, {})),
   Sent("assertions", {"kt"}, Posting({5}, 1, "IS", [kind |-> "Text", of |-> "w"], 1, {}, 101, <<"s">>, {})),
   Sent("assertions", {"kt"}, Posting({5}, 1, "IS", [kind |-> "Text", of |-> "w"], 1, {}, 10, <<"s">>, {"u"})),
   Sent("assertions", {"kt"}, Posting({5}, 9, "IS", [kind |-> "Text", of |-> "w"], 1, {}, 10, <<>>, {"t"})),
   Sent("assertions", {"kr"}, Posting({5}, 1, "IS", [kind |-> "Text", of |-> "w"], 1, {}, 10, <<"s">>, {})),
   Sent("query", {"kt"}, Everything({})), Sent("query", {"kr"}, Everything({1})), Sent("query", {"ku"}, Everything({9})),
   Sent("query", {"ku"}, Searching({2}, {"OWNS"}, {}, {1}, {1}, {"t"}, {2})), Sent("query", {}, Everything({})),
   Sent("query", {"ku"}, Searching({}, {}, {AnEntity(3)}, {2}, {}, {"u"}, {2})),
   Sent("path", {"kt"}, Way(1, {}, 2)), Sent("path", {"kr"}, Way(1, {3}, 2)), Sent("path", {"ku"}, Way(1, {}, 3)),
   Sent("evidence-pack", {"kt"}, [graph_query |-> Everything({1}), path_query |-> {Way(1, {3}, 2)}]),
   Sent("evidence-pack", {"ku"}, [graph_query |-> Everything({}), path_query |-> {Way(1, {}, 3)}]),
   Sent("evidence-pack", {"ku"}, [graph_query |-> Searching({}, {}, {}, {}, {}, {"t"}, {}), path_query |-> {}]),
   Sent("evidence-pack", {"ku"}, [graph_query |-> Everything({7}), path_query |-> {}]),
   Sent("context-pack", {"kt"}, AQuestion({"own"}, {1, 2}, <<>>, {}, {}, FALSE)),
   Sent("context-pack", {"ku"}, AQuestion({}, {}, <<2>>, {"u"}, {2}, FALSE)),
   Sent("context-pack", {"ku"}, AQuestion({}, {9}, <<>>, {"t"}, {}, FALSE)),
   Sent("context-pack", {"ku"}, AQuestion({}, {9}, <<>>, {}, {7}, FALSE)),
   Sent("context-pack", {"ku"}, AQuestion({}, {}, <<>>, {}, {}, TRUE)),
   Sent("state", {"kt"}, [id |-> 1, valid_at |-> {1}]), Sent("state", {"ku"}, [id |-> 9, valid_at |-> {}]),
   Sent("assertion", {"kt"}, [id |-> 2]), Sent("assertion", {"ku"}, [id |-> 2]), Sent("assertion", {"kx"}, [id |-> 2]),
   Sent("entity", {"kt"}, [id |-> 1]), Sent("entity", {"kt"}, [id |-> 8]), Sent("source", {"ku"}, [id |-> "s"]),
   Sent("health", {}, [id |-> 0])}

Http == INSTANCE ApiRequests WITH
  Assertion <- {}, Exclusive <- {}, Instant <- 0..2, MaxTx <- 3, Request <- HttpRequests,
  Account <- {AnAccount("kt", "t", {"Admin"}), AnAccount("ku", "u", {"Writer", "Reader"}), AnAccount("kr", "t", {"Reader"})},
  StoredEntity <- 1..3, StoredSource <- {"s"},
  DerivedId <- (<<1, "OWNS", 2, "s">> :> 1 @@ <<1, "IS", "w", "s">> :> 6), CitedBy <- [i \in 1..6 |-> {"s"}],
  DefaultLimit <- 2, MaxLimit <- 3, MaxPathDepth <- 2,
  tx <- last_tx, index <- adjacency

(***************************************************************************)
(* Ingestion: lines and sources of every kind that can be read, and one    *)
(* that cannot for each way to fail; candidates whose slugs collide.       *)
(***************************************************************************)
CandidateLine(subject, object, valid, sure, evidence) ==
  <<"candidate:", subject, " ", "|", "knows", "|", object, "|", "valid=">> \o valid \o <<"|", "confidence=", sure, "|", " ",
    "evidence=">> \o evidence
ADocument(content) == [source |-> <<"s", "1">>, content |-> content]
Documents ==
  {ADocument(<<"Ann", " ", "Bob", "\n", " ">> \o CandidateLine("Ann", "Bob", <<"1", "..", "2">>, "0.9", <<"Ann", " ", "Bob">>)
             \o <<"\r", "\n", "\n">>),
   ADocument(CandidateLine("ann", "?", <<"1", "..">>, "0.9", <<"Bob">>) \o <<"\n">>
             \o CandidateLine("_", "Ann", <<"2", "..", "2">>, "1", <<>>)),
   ADocument(CandidateLine("Ann", "Bob", <<"2", "..", "1">>, "0.9", <<"Ann">>)),
   ADocument(CandidateLine("Ann", "Bob", <<"2">>, "0.9", <<"Ann">>)),
   ADocument(CandidateLine("Ann", "Bob", <<"1", "..">>, "2", <<"Ann">>)),
   ADocument(CandidateLine("Ann", "Bob", <<"1", "..">>, "Ann", <<"Ann">>) \o <<"\n", "Bob">>),
   ADocument(<<"candidate:", "Ann", "|", "Bob">>),
   ADocument(<<"candidate:", "|", "|", "|", "|", "|">>)}
AnOffer(subject, predicate, object, valid) ==
  [subject |-> subject, predicate |-> predicate, object |-> object, valid |-> valid, confidence |-> 50,
   excerpt |-> [source |-> <<"s", "2">>, text |-> <<>>, byte_start |-> 0, byte_end |-> 0]]
AnInput(modality, content) == [id |-> "i", modality |-> modality, content |-> content]
Inputs ==
  {AnInput("Text", <<"Ann", " ", "Bob", "\n", " ", "entity:", " ", "Bob", "|", "evidence=", "Bob", "\n", "entity:", "bob", "|",
                     "confidence=", "0.9", "|", "evidence=", "Bob", " ", "\n">>),
   AnInput("Text", <<"invalid", "Ann", "\n", "assertion:", "Ann", "|", "knows", "|", "Bob", "|", "valid=", "1", "..", "2", "|",
                     "evidence=", "Ann", "\n", "event:", "Ann", "|", "time=", "1", "|", "evidence=", "Ann">>),
   AnInput("Text", <<"causal:", "Ann", "|", "Bob", "|", "evidence=", "\n">>),
   AnInput("Text", <<"event:", "Ann", "|", "time=", "Bob", "|", "evidence=", "Ann">>),
   AnInput("Text", <<"event:", "Ann", "|", "evidence=", "Ann", "|", "confidence=", "2">>),
   AnInput("Text", <<"assertion:", "Ann", "|", "knows", "\n", "causal:", "Ann">>),
   AnInput("Text", <<"entity:", "Ann", "|", "Bob">>),
   AnInput("Csv", <<"a", ",", "b", "\n", "Ann", ",", "knows", ",", "Bob", ",", "Ann", "\n", "Ann", ",", "Bob", "\n", "Bob", ",",
                    "knows", ",", "Ann", ",", " ", ",", "Bob", "\n", "invalid", ",", "knows", ",", "Bob", ",", "Bob">>),
   AnInput("Csv", <<"assertion:", "Ann", "|", "knows", "|", "Bob", "|", "evidence=", "Ann", "\n", "Ann", ",", "a", ",", "b", ",", "Ann">>),
   AnInput("Json", <<"\"", "entity", "\"", ":", " ", "\"", "Ann", "\"", ",", "\"", "evidence", "\"", ":", "\"", "knows", "\"">>),
   AnInput("Json", <<"\"", "entity", "\"", ":", "\"", "\"">>), AnInput("Json", <<"\"", "entity", "\"", "\"", "Ann", "\"">>),
   AnInput("Html", <<"Ann", "<title>", " ", "Ann", " ", "Bob", "</title>">>), AnInput("Html", <<"<title>", " ", "</title>">>),
   AnInput("Html", <<"</title>", "<title>", "Ann">>), AnInput("Pdf", <<"Ann">>)}

Intake == INSTANCE Ingestion WITH
  Document <- Documents,
  OtherCandidate <- {AnOffer(<<"Ann">>, <<"knows">>, <<"Bob">>, {}),
    AnOffer(<<"Ann", " ", "Bob">>, <<"knows">>, <<"ann", "?">>, {[start |-> 1, end |-> {}]})},
  Input <- Inputs, Adapter <- {"Text", "Csv", "Json", "Html"},
  Lower <- ("Ann" :> "ann" @@ "ann" :> "ann" @@ "Bob" :> "bob" @@ "bob" :> "bob" @@ "knows" :> "knows"
            @@ "s" :> "s" @@ "1" :> "1" @@ "2" :> "2"),
  Numeral <- ("1" :> 1 @@ "2" :> 2), Decimal <- ("0.9" :> 90 @@ "1" :> 100 @@ "2" :> 200), MaxReviewed <- 2

-----------------------------------------------------------------------------
Service == {"memory", "belief", "truth", "agents", "cache", "access", "graphs", "vault", "codec",
            "files", "query", "upkeep", "packs", "compression", "recall", "tools", "causes", "requests", "intake"}

memoryVars == <<service, journal>>
beliefVars == <<claims, conflict_sets, revisions>>
truthVars == <<dependencies, reverse_dependencies, status, invalidated_by, recorded>>
agentVars == <<agents, teams, records, exchange_log>>
cacheVars == <<entries, index, tracked, summaries, working_set, changed, clock>>
accessVars == <<policy, audit_log>>
graphVars == <<nodes, plans, aliases, members>>
filesVars == <<events, files, job, published, backed_up, crashes>>
vaultVars == <<log, key_ring, documents, snapshot, acked, writes>>
queryVars == <<graph, last_tx, adjacency>>
upkeepVars == <<entities, trusted, cursors, report, health_history, proposed>>
packVars == <<pack, stream>>
compressionVars == <<given, context>>
recallVars == <<memories, vectors, recall_last>>
toolVars == <<stored, tool_policy, tool_log, response>>
causeVars == <<outgoing, incoming, happened, inserted>>
requestVars == <<auth, answer>>
intakeVars == <<reviewed, outcome>>

Init ==
  /\ focus \in Service
  /\ focus # "memory" => service = Memory!NewService(0)
  /\ focus # "codec" => record = CHOOSE r \in [sequence : {1}, key : {{}}, event : WrittenEvents] : TRUE
  /\ focus # "files" => events = <<>>
  /\ Memory!MemoryInit /\ Belief!BeliefInit /\ Truth!TruthInit /\ Agents!MultiAgentInit
  /\ Cache!CacheInit /\ Access!GovernanceInit /\ Graphs!FederationInit /\ Vault!ConfidentialInit
  /\ Codec!CodecInit /\ Snapshots!SnapshotInit /\ Query!QueryInit
  /\ Upkeep!MaintenanceInit /\ Packs!RetrievalInit /\ Compression!CompressionInit /\ Recall!RecallInit
  /\ (focus # "tools" => tool_policy = [allow_writes |-> FALSE, require_confirmation |-> TRUE]) /\ Tools!ToolInit
  /\ Causes!CounterfactualInit
  /\ (focus # "requests" => auth = {}) /\ Http!ApiInit
  /\ Intake!IngestionInit

Next ==
  /\ UNCHANGED focus
  /\ IF focus = "memory" THEN Memory!MemoryNext ELSE focus # "tools" => UNCHANGED memoryVars
  /\ IF focus = "belief" THEN Belief!BeliefNext ELSE UNCHANGED beliefVars
  /\ IF focus = "truth" THEN Truth!TruthNext ELSE UNCHANGED truthVars
  /\ IF focus = "agents" THEN Agents!MultiAgentNext ELSE UNCHANGED agentVars
  /\ IF focus = "cache" THEN Cache!CacheNext ELSE UNCHANGED cacheVars
  /\ IF focus = "access" THEN Access!GovernanceNext ELSE UNCHANGED accessVars
  /\ IF focus = "graphs" THEN Graphs!FederationNext ELSE UNCHANGED graphVars
  /\ IF focus = "vault" THEN Vault!ConfidentialNext ELSE UNCHANGED vaultVars
  /\ IF focus = "codec" THEN Codec!CodecNext ELSE UNCHANGED record
  /\ IF focus = "files" THEN Snapshots!SnapshotNext ELSE UNCHANGED filesVars
  /\ IF focus = "query" THEN Query!QueryNext ELSE focus \notin {"upkeep", "packs", "causes", "requests"} => UNCHANGED queryVars
  /\ IF focus = "upkeep" THEN Upkeep!MaintenanceNext ELSE UNCHANGED upkeepVars
  /\ IF focus = "packs" THEN Packs!RetrievalNext ELSE UNCHANGED packVars
  /\ IF focus = "compression" THEN Compression!CompressionNext ELSE UNCHANGED compressionVars
  /\ IF focus = "recall" THEN Recall!RecallNext ELSE UNCHANGED recallVars
  /\ IF focus = "tools" THEN Tools!ToolNext ELSE UNCHANGED toolVars
  /\ IF focus = "causes" THEN Causes!CounterfactualNext ELSE UNCHANGED causeVars
  /\ IF focus = "requests" THEN Http!ApiNext ELSE UNCHANGED requestVars
  /\ IF focus = "intake"   \* sources touch nothing of the review: once is enough
     THEN Intake!DocumentNext \/ (reviewed = <<>> /\ Intake!SourceNext)
     ELSE UNCHANGED intakeVars

-----------------------------------------------------------------------------
(***************************************************************************)
(* Whatever is explained is explained by all there is: an answer shows the *)
(* disagreement behind it, a plan without gaps means that the belief may   *)
(* be acted on, and what a retraction takes down and what explains it are  *)
(* the same, seen from either end.  What was extracted from a document is  *)
(* said there, where its excerpt says.  A compressed context exceeds its   *)
(* budget for what is required only and surfaces contradictions; a stream  *)
(* that was cut says what it left out.                                     *)
(***************************************************************************)
BeliefsExplained ==
  /\ focus = "belief" => Belief!DisagreementIsShown /\ Belief!NoGapMeansSettled
  /\ focus = "truth" => Truth!ExplanationsMatchRetractions /\ Truth!InvalidationIsExplained
  /\ focus = "intake" => Intake!EvidenceIsExact
  /\ focus = "compression" => Compression!BudgetSpentOnRequired /\ Compression!ContradictionsSurface
  /\ focus = "packs" => Packs!StreamSaysWhatIsMissing

(***************************************************************************)
(* Whatever is read is what is there.  Queries: the index leaves nothing   *)
(* out, contradictions are mutual, paths are the ways there are for both   *)
(* searches, a statement is read as it is written and answered within its  *)
(* clauses; incremental maintenance misses nothing it looks for; an        *)
(* evidence pack says nothing the graph does not.  Of causes, what is      *)
(* found down the links is found up them, and an intervention affects only *)
(* what is near it.  An encrypted log that can be read holds every         *)
(* acknowledged append; every record decodes to itself and no torn one to  *)
(* anything; memories come back by meaning within the filters, and by      *)
(* activation for a reason.                                                *)
(***************************************************************************)
ReadsAreTrue ==
  /\ focus = "query" =>
       /\ Query!IndexLeavesNothingOut /\ Query!ContradictionsAreMutual /\ Query!PathsAreWays
       /\ Query!TokensReadBack /\ Query!StatementsReadBack /\ Query!QuestionsParse
       /\ Query!WalkersAgree /\ Query!ClausesNarrow
  /\ focus = "upkeep" => Upkeep!IncrementalRunsCover
  /\ focus = "packs" => Packs!PackIsGrounded
  /\ focus = "causes" => Causes!CausesMirrorEffects /\ Causes!ImpactIsNear
  /\ focus = "vault" => Vault!AckedReadBack
  /\ focus = "codec" => Codec!RecordsReadBack
  /\ focus = "recall" => Recall!MeaningRespectsFilters /\ Recall!ActivationExplains

(***************************************************************************)
(* Maintenance destroys nothing that nobody reviewed.  A tool's answer is  *)
(* on the audit log as it is, and writes a memory only where that is       *)
(* allowed; a tenant of the API is shown its own, and a plan for the graph *)
(* is of what a reviewer approved.                                         *)
(***************************************************************************)
NothingUnpermitted ==
  /\ focus = "upkeep" => Upkeep!DestructionIsReviewed
  /\ focus = "tools" => Tools!AnswersAreAudited /\ Tools!WritesArePermitted
  /\ focus = "requests" => Http!TenantsSeeTheirOwn
  /\ focus = "intake" => Intake!PlansAreReviewed

(***************************************************************************)
(* What a step may never do, of each service: a late claim change what was *)
(* believed before, the working set drop a recent item, a rotation of keys *)
(* lose a text, an event change what a query answers for an earlier        *)
(* transaction time, a maintenance job run without taking note of it, a    *)
(* tool write unconfirmed, one tenant's write change what another is       *)
(* answered.                                                               *)
(***************************************************************************)
HistoryStands ==
  /\ Belief!EarlierBeliefStays
  /\ Cache!WorkingSetIsRecent
  /\ Vault!RotationKeepsAll
  /\ [][focus = "query" => Query!PastAnswersStay]_queryVars
  /\ Upkeep!EachRunIsRecorded
  /\ [][focus = "tools" => Tools!WritesAreConfirmed]_<<memoryVars, toolVars>>
  /\ [][focus = "requests" => Http!TenantsDoNotInterfere]_<<queryVars, requestVars>>
=============================================================================
