---------------------------- MODULE MemoryRecall ----------------------------
(***************************************************************************)
(* Recall of agent memories: the vector index and the retriever that       *)
(* filters its hits (rg-ai), and activation that spreads from seeds over   *)
(* the storage (rg-memory-activation).  Embeddings are sequences of small  *)
(* integers or Nan.  Of a page rank only whether it is positive is kept,   *)
(* so that which memories a limit cuts is any choice of so many.           *)
(***************************************************************************)
EXTENDS Integers, Sequences, FiniteSets, SequencesExt

CONSTANTS
  Entity,      \* of the storage: id and the words of its id and name
  Source,      \* of the storage
  Assertion,   \* of the storage: id, subject, object entities, sources
  MemoryInput, \* memories that may be recorded
  VectorInput, \* vector records that may be indexed: id, kind, memory, embedding
  Embedding,   \* that may be asked for
  Seed,        \* what activation starts from
  Iterations, MaxPathDepth,
  MaxMemories  \* bound of the exploration

VARIABLES memories, vectors, recall_last

recallVars == <<memories, vectors, recall_last>>

Nan == 99
None == {}
Put(f, key, value) == [k \in DOMAIN f \cup {key} |-> IF k = key THEN value ELSE f[k]]
Current(m) == m.status \in {"Active", "Reinforced"}
HoldsAt(m, option) == \A t \in option : m.from <= t /\ \A end \in m.until : t < end

-----------------------------------------------------------------------------
(***************************************************************************)
(* Memories of the storage.                                                *)
(***************************************************************************)
\* A slip the properties must notice: the superseded memory stays as it was.
AppliedAlone(m) == Put(memories, m.id, m)

Recorded(m) ==
  Put([i \in DOMAIN memories |->
         IF i \in m.supersedes THEN [memories[i] EXCEPT !.status = "Superseded"] ELSE memories[i]], m.id, m)

RecordAgentMemory(m) ==
  /\ Cardinality(DOMAIN memories) < MaxMemories
  /\ m.id \notin DOMAIN memories /\ m.sources # {} /\ m.sources \subseteq Source
  /\ m.related \subseteq {e.id : e \in Entity} /\ m.supersedes \subseteq DOMAIN memories
  /\ memories' = Recorded(m)
  /\ UNCHANGED <<vectors, recall_last>>

-----------------------------------------------------------------------------
(***************************************************************************)
(* The vector index.  Its dimension is the first record's, and stays when  *)
(* every record is deleted.                                                *)
(***************************************************************************)
Dot(v, w) == FoldLeft(LAMBDA sum, i : sum + v[i] * w[i], 0, [i \in DOMAIN v |-> i])

ValidateEmbedding(v) ==
  CASE v = <<>> -> "EmptyEmbedding"
    [] v # <<>> /\ Nan \in ToSet(v) -> "NonFiniteEmbedding"
    [] v # <<>> /\ Nan \notin ToSet(v) -> IF Dot(v, v) = 0 THEN "ZeroMagnitudeEmbedding" ELSE "ok"

ValidateDimension(v) == \A d \in vectors.dimension : Len(v) = d
Refusal(v) ==
  IF ValidateEmbedding(v) # "ok" THEN ValidateEmbedding(v)
  ELSE IF ValidateDimension(v) THEN "ok" ELSE "DimensionMismatch"

UpsertEmbedding(r) ==
  /\ recall_last' = Refusal(r.embedding)
  /\ vectors' = IF Refusal(r.embedding) # "ok" THEN vectors
                ELSE [records |-> Put(vectors.records, r.id, r),
                      dimension |-> IF vectors.dimension = None THEN {Len(r.embedding)} ELSE vectors.dimension]
  /\ UNCHANGED memories

Delete(id) ==
  /\ id \in DOMAIN vectors.records
  /\ vectors' = [vectors EXCEPT !.records = [k \in DOMAIN @ \ {id} |-> @[k]]]
  /\ recall_last' = "deleted" /\ UNCHANGED memories

\* By cosine similarity to the query, the lesser id first among equals.
Closer(query, r, s) ==
  LET Squared(x) == Dot(query, x) * (IF Dot(query, x) < 0 THEN -Dot(query, x) ELSE Dot(query, x))
      left == Squared(r.embedding) * Dot(s.embedding, s.embedding)
      right == Squared(s.embedding) * Dot(r.embedding, r.embedding)
  IN  left > right \/ (left = right /\ r.id < s.id)

Search(query, limit) ==
  LET hits == SetToSortSeq({vectors.records[i] : i \in DOMAIN vectors.records}, LAMBDA r, s : Closer(query, r, s))
  IN  IF limit = 0 THEN [error |-> "LimitMustBePositive", hits |-> <<>>]
      ELSE IF Refusal(query) # "ok" THEN [error |-> Refusal(query), hits |-> <<>>]
      ELSE [error |-> "ok", hits |-> SubSeq(hits, 1, IF limit < Len(hits) THEN limit ELSE Len(hits))]

-----------------------------------------------------------------------------
(***************************************************************************)
(* The retriever: what the filters leave of the storage's memories, and of *)
(* those, when a meaning is asked for, the ones the index hits.            *)
(***************************************************************************)
FilteredMemories(q) ==
  {i \in DOMAIN memories :
     LET m == memories[i]
     IN  /\ q.agent \in {None, {m.agent}} /\ q.type \in {None, {m.type}}
         /\ HoldsAt(m, q.valid_at)
         /\ q.include_superseded \/ Current(m)
         /\ \A e \in q.related : e \in m.related}

Retrieve(q, semantic) ==
  LET hits == Search(semantic, 1 + Cardinality(DOMAIN vectors.records)).hits   \* no limit
      ours(r) == r.kind = "AgentMemory" /\ r.memory \in FilteredMemories(q)
  IN  SelectSeq(hits, ours)

-----------------------------------------------------------------------------
(***************************************************************************)
(* Activation.  Entities, assertions, sources and memories are connected   *)
(* where one names the other; a node of an unknown source is one too.      *)
(***************************************************************************)
Node(kind, id) == <<kind, id>>
EntityNode(id) == Node("entity", id)
SourceNode(id) == Node("source", id)
MemoryNode(id) == Node("memory", id)
Connect(S, node) == {<<s, node>> : s \in S} \cup {<<node, s>> : s \in S}

Connections ==
  UNION ({Connect({EntityNode(e) : e \in {a.subject} \cup a.objects} \cup {SourceNode(s) : s \in a.sources},
                  Node("assertion", a.id)) : a \in Assertion}
         \cup {Connect({EntityNode(e) : e \in memories[i].related} \cup {SourceNode(s) : s \in memories[i].sources}
                       \cup {MemoryNode(j) : j \in memories[i].supersedes}, MemoryNode(i)) : i \in DOMAIN memories})

Neighbors(edges, node) == {e[2] : e \in {x \in edges : x[1] = node}}

MemoryVisible(m, seed) ==
  /\ seed.agent \in {None, {m.agent}} /\ HoldsAt(m, seed.valid_at)
  /\ seed.include_superseded \/ Current(m)

SeedNodes(seed) == {EntityNode(e) : e \in seed.entities} \cup {MemoryNode(i) : i \in seed.memories}

\* What a profile prefers, what the query names, and the agent's own memories besides.
Personalized(seed, profile) ==
  SeedNodes(seed) \cup {EntityNode(e) : e \in profile.preferred}
  \cup {EntityNode(e.id) : e \in {x \in Entity : x.words \cap seed.query # {}}}
  \cup {MemoryNode(i) : i \in {j \in DOMAIN memories : \/ {memories[j].agent} = seed.agent
                                                         \/ memories[j].agent = profile.agent
                                                         \/ memories[j].words \cap seed.query # {}}}

\* Every node starts with a rank, and keeps one while its neighbors have.
PageRank(seed, profile) ==
  LET edges == Connections
      nodes == {EntityNode(e.id) : e \in Entity} \cup {SourceNode(s) : s \in Source}
               \cup {MemoryNode(i) : i \in DOMAIN memories} \cup {e[1] : e \in edges}
      step(ranked, n) == (nodes \cap Personalized(seed, profile)) \cup UNION {Neighbors(edges, r) : r \in ranked}
  IN  FoldLeft(step, nodes, [n \in 1..Iterations |-> n])

\* Breadth first, one path to each node that is new.
ShortestPath(start, target) ==
  LET edges == Connections
      grow(b, n) ==
        LET fresh == UNION {Neighbors(edges, Last(p)) : p \in b.queue} \ b.visited
        IN  IF target \in b.visited THEN b
            ELSE [visited |-> b.visited \cup fresh,
                  queue |-> {Append(CHOOSE p \in b.queue : x \in Neighbors(edges, Last(p)), x) : x \in fresh}]
      end == FoldLeft(grow, [visited |-> {start}, queue |-> {<<start>>}], [n \in 1..MaxPathDepth |-> n])
  IN  {p \in end.queue : Last(p) = target}

PathsToNode(seed, target) == UNION {ShortestPath(s, target) : s \in SeedNodes(seed)}

\* The results a limit leaves are one of these.
ActivatedMemories(seed) ==
  LET visible == {i \in DOMAIN memories : MemoryVisible(memories[i], seed)}
  IN  {chosen \in SUBSET visible :
         IF \A n \in seed.limit : Cardinality(visible) <= n THEN chosen = visible ELSE Cardinality(chosen) \in seed.limit}

Activated(seed, profile) ==
  {[memories |-> {[id |-> i, current_truth |-> Current(memories[i]), paths |-> PathsToNode(seed, MemoryNode(i))] : i \in chosen},
    others |-> {n \in PageRank(seed, profile) : n[1] # "memory"}] : chosen \in ActivatedMemories(seed)}

RecallInit == memories = [i \in {} |-> 0] /\ vectors = [records |-> [i \in {} |-> 0], dimension |-> None] /\ recall_last = "ok"

RecallNext ==
  \/ \E m \in MemoryInput : RecordAgentMemory(m)
  \/ \E r \in VectorInput : UpsertEmbedding(r)
  \/ \E id \in DOMAIN vectors.records : Delete(id)

-----------------------------------------------------------------------------
(***************************************************************************)
(* However memories and vectors came and went, vectors that are compared   *)
(* have one length, and a search by meaning returns, nearest first, just   *)
(* the memories that the filters leave and some vector stands for, once    *)
(* for each vector (search, filtered_memories).                            *)
(***************************************************************************)
MeaningRespectsFilters ==
  /\ \A i \in DOMAIN vectors.records : {Len(vectors.records[i].embedding)} = vectors.dimension
  /\ \A query \in Embedding, seed \in Seed : Refusal(query) = "ok" =>
       LET q == [agent |-> seed.agent, type |-> None, valid_at |-> seed.valid_at,
                 include_superseded |-> seed.include_superseded, related |-> seed.entities]
           found == Retrieve(q, query)
       IN  /\ {found[n].memory : n \in DOMAIN found} =
                FilteredMemories(q) \cap {vectors.records[i].memory : i \in {j \in DOMAIN vectors.records :
                                                                               vectors.records[j].kind = "AgentMemory"}}
           /\ \A n \in DOMAIN found : n = 1 \/ Closer(query, found[n - 1], found[n])

(***************************************************************************)
(* A memory that activation calls the current truth has been superseded by *)
(* none, though memories of other agents may; each path that explains one  *)
(* leads from a seed to it over things that name each other, and there is  *)
(* one from every seed that is near enough; what else is activated names   *)
(* something or was asked for (activate, shortest_path).                   *)
(***************************************************************************)
RECURSIVE Within(_, _)
Within(nodes, depth) ==
  IF depth = 0 THEN nodes
  ELSE Within(nodes \cup {e[2] : e \in {x \in Connections : x[1] \in nodes}}, depth - 1)

ActivationExplains ==
  \A seed \in Seed :
    LET profile == [agent |-> "ann", preferred |-> {}]
        near(s, target, depth) == target \in Within({s}, depth)
    IN  \A result \in Activated(seed, profile) :
          /\ \A m \in result.memories :
               /\ m.current_truth => \A i \in DOMAIN memories : m.id \notin memories[i].supersedes
               /\ \A p \in m.paths : /\ p[1] \in SeedNodes(seed) /\ Last(p) = MemoryNode(m.id)
                                     /\ \A n \in 2..Len(p) : <<p[n - 1], p[n]>> \in Connections
                                     /\ Len(p) = 1 \/ ~near(p[1], Last(p), Len(p) - 2)
               /\ {p[1] : p \in m.paths} = {s \in SeedNodes(seed) : near(s, MemoryNode(m.id), MaxPathDepth)}
          /\ \A n \in result.others : n \in Personalized(seed, profile) \/ \E e \in Connections : e[1] = n
=============================================================================
