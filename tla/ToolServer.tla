----------------------------- MODULE ToolServer -----------------------------
(***************************************************************************)
(* The tool server (rg-mcp-server) over a storage and an agent memory, and *)
(* what rg-agent-security adds to every answer: provenance, trust, and an  *)
(* event of the audit log.  Texts are what is recognised in them, results  *)
(* what they show of sources, assertions and memories.                     *)
(***************************************************************************)
EXTENDS GraphQuery, FiniteSetsExt

CONSTANTS
  StoredSource, \* of the storage: id to trust, in percent, where there is one
  CitedBy,      \* sources that each assertion names
  Request,      \* jsonrpc, method, named (a tool or a resource), args, and the risk of their text in percent
  Agent, MaxJournal, MaxCalls

VARIABLES
  service, journal,    \* of the agent memory
  policy,              \* whether writes are allowed, and must be confirmed
  audit_log, response

Memories == INSTANCE AgentMemory WITH Reader <- Agent, Write <- {}

Canonical ==
  [search_memory |-> "search_context", retrieve_context_for_task |-> "search_context",
   query_graph |-> "get_evidence_pack", get_entity_state |-> "get_evidence_pack",
   get_timeline |-> "get_entity_timeline", find_contradictions |-> "detect_conflicts",
   simulate_counterfactual |-> "run_counterfactual", write_agent_memory |-> "write_memory"]
CanonicalToolName(name) == IF name \in DOMAIN Canonical THEN Canonical[name] ELSE name

ObjectSchema(properties, required) == [properties |-> properties, required |-> required]
Tools ==
  [search_context |-> ObjectSchema([query |-> "string", agent_id |-> "string", limit |-> "integer"], {"query"}),
   get_evidence_pack |->
     ObjectSchema([entity_id |-> "string", question |-> "string", valid_at |-> "integer"], {"entity_id"}),
   get_entity_timeline |-> ObjectSchema([entity_id |-> "string", valid_at |-> "integer"], {"entity_id"}),
   find_paths |-> ObjectSchema([start_entity_id |-> "string", end_entity_id |-> "string", max_depth |-> "integer",
                                valid_at |-> "integer"], {"start_entity_id"}),
   detect_conflicts |-> ObjectSchema([entity_id |-> "string"], {}),
   run_counterfactual |->
     ObjectSchema([intervention_type |-> "string", assertion_id |-> "string", event_id |-> "string",
                   max_depth |-> "integer", valid_at |-> "integer"], {"intervention_type"}),
   write_memory |->
     ObjectSchema([agent_id |-> "string", memory_id |-> "string", memory_type |-> "string", content |-> "string",
                   valid_from |-> "integer", confidence |-> "number", source_ids |-> "array",
                   related_entity_ids |-> "array", confirm_write |-> "true"],
                  {"agent_id", "memory_id", "memory_type", "content", "valid_from", "confidence", "source_ids"})]

(***************************************************************************)
(* Arguments: a function from names to values, each of a type; a property  *)
(* whose schema is a constant takes that value only.  The values an enum   *)
(* lists are not looked at here.                                           *)
(***************************************************************************)
OfType(value, type) ==
  \/ value.type = type
  \/ type = "number" /\ value.type = "integer"
  \/ type = "true" /\ value = [type |-> "boolean", is |-> TRUE]

ValidateArguments(schema, args) ==
  /\ DOMAIN args \subseteq DOMAIN schema.properties
  /\ schema.required \subseteq DOMAIN args
  /\ \A key \in DOMAIN args : OfType(args[key], schema.properties[key])

Text(args, key, default) == IF key \in DOMAIN args /\ args[key].type = "string" THEN args[key].is ELSE default
Whole(args, key) == IF key \in DOMAIN args /\ args[key].type = "integer" THEN {args[key].is} ELSE None
Natural(args, key, default) ==   \* a negative number is no limit
  IF \E n \in Whole(args, key) : n >= 0 THEN CHOOSE n \in Whole(args, key) : TRUE ELSE default
Texts(args, key) == IF key \in DOMAIN args /\ args[key].type = "array" THEN args[key].is ELSE {}

QuarantineRecommended(r) == r.risk >= 65

(***************************************************************************)
(* What answers carry: provenance is what the content shows, found under   *)
(* the names that stand for ids; the trust of sources is the least one     *)
(* known of them.                                                          *)
(***************************************************************************)
Shown(sources, assertions, memories) == [sources |-> sources, assertions |-> assertions, memories |-> memories]
Nothing == Shown({}, {}, {})
Ok(shown) == [error |-> FALSE, shown |-> shown]
ExecutionError == [error |-> TRUE, shown |-> Nothing]

FromScores(sources) ==
  LET known == UNION {StoredSource[s] : s \in sources \cap DOMAIN StoredSource}
  IN  IF known = {} THEN "unknown"
      ELSE CASE Min(known) >= 80 -> "trusted" [] Min(known) \in 50..79 -> "mixed" [] OTHER -> "untrusted"

Security(scope, tool, provenance, trust) ==
  [scope |-> scope, tool |-> tool, provenance |-> provenance, trust |-> trust, audit |-> Len(audit_log) + 1]

Record(tool, sources, allowed, reason) ==
  audit_log' = Append(audit_log, [tool |-> tool, sources |-> sources, allowed |-> allowed, reason |-> reason])
Respond(result, security) == response' = {[error |-> result.error, shown |-> result.shown, security |-> security]}

SecureDenied(tool, result, scope, reason) ==
  /\ Record(tool, {}, FALSE, reason)
  /\ Respond(result, Security(scope, tool, Nothing, "unknown"))

SecureResult(tool, result) ==
  IF result.error
  THEN SecureDenied(tool, result, "Denied", "tool execution error")
  ELSE /\ Record(tool, result.shown.sources, TRUE, "allowed")
       /\ Respond(result, Security("Tool", tool, result.shown, FromScores(result.shown.sources)))

(***************************************************************************)
(* The tools that read.  Which memories a search finds first is left open. *)
(***************************************************************************)
SourcesCited(ids) == UNION {CitedBy[i] : i \in ids}
AssertionsForEntity(entity, at) ==
  {i \in DOMAIN graph : entity \in Keys("by_entity", graph[i]) /\ At(at, graph[i].valid)}
ContradictionsForEntity(entity) ==   \* as the subject of one of the two
  {c \in ContradictionsOf(Graph) : \A e \in entity : e \in {graph[c.a].subject, graph[c.b].subject}}

SearchContext(args) ==
  LET agent == Text(args, "agent_id", "agent")
      found == Memories!RetrieveMemory(agent, "GraphTemporal", 9, FALSE)
      limit == Natural(args, "limit", 5)
  IN  {Ok(Shown(UNION {service.memories[m].sources : m \in S}, {}, S)) :
         S \in kSubset(Min({limit, Cardinality(found)}), found)}

GetEvidencePack(args) ==
  LET ids == AssertionsForEntity(Text(args, "entity_id", ""), Whole(args, "valid_at"))
  IN  Ok(Shown(SourcesCited(ids), ids, {}))

GetEntityTimeline(args) == GetEvidencePack(args)   \* the assertions without the text of their sources

FindPaths(args) ==
  LET paths == ExecutePath([start |-> Text(args, "start_entity_id", ""),
                            end |-> {Text(args, "end_entity_id", "")} \ {""}, predicates |-> <<>>,
                            valid_at |-> Whole(args, "valid_at"), max_depth |-> Natural(args, "max_depth", 2),
                            min_confidence |-> None])
      ids == UNION {{p[n] : n \in DOMAIN p} : p \in paths}
  IN  Ok(Shown(SourcesCited(ids), ids, {}))

DetectConflicts(args) ==   \* the assertions, but not their sources
  Ok(Shown({}, UNION {{c.a, c.b} : c \in ContradictionsForEntity({Text(args, "entity_id", "")} \ {""})}, {}))

RunCounterfactual(args) ==
  IF Text(args, "intervention_type", "") \in {"remove_assertion", "remove_event"} THEN Ok(Nothing) ELSE ExecutionError

ReadTool(tool, args) ==
  CASE tool = "search_context" -> SearchContext(args)
    [] tool = "get_evidence_pack" -> {GetEvidencePack(args)}
    [] tool = "get_entity_timeline" -> {GetEntityTimeline(args)}
    [] tool = "find_paths" -> {FindPaths(args)}
    [] tool = "detect_conflicts" -> {DetectConflicts(args)}
    [] tool = "run_counterfactual" -> {RunCounterfactual(args)}

(***************************************************************************)
(* The tool that writes: a memory of the agent named, for itself alone.    *)
(***************************************************************************)
Confirmed(args) == "confirm_write" \in DOMAIN args /\ OfType(args["confirm_write"], "true")

\* A slip the properties must notice: a confirmation stands in for the permission.
MayWriteIfConfirmed(args) == policy.allow_writes \/ Confirmed(args)

MayWrite(args) ==
  policy.allow_writes /\ (policy.require_confirmation => Confirmed(args))

MemoryToWrite(args) ==
  [id |-> Text(args, "memory_id", ""), supersedes |-> {}, contradicts |-> {}, lifecycle |-> "Active",
   readers |-> {Text(args, "agent_id", "")}, public |-> FALSE,
   valid |-> IF Whole(args, "valid_from") = {} THEN 0 ELSE CHOOSE n \in Whole(args, "valid_from") : TRUE,
   sources |-> Texts(args, "source_ids")]

WriteMemory(args) ==
  LET w == MemoryToWrite(args)
  IN  IF MayWrite(args) /\ Memories!ValidateWrite(w)
      THEN Memories!WriteMemory(w) /\ SecureResult("write_memory", Ok(Shown(w.sources, {}, {w.id})))
      ELSE SecureResult("write_memory", ExecutionError) /\ UNCHANGED <<service, journal>>

CallTool(r, tool) ==
  CASE ~ValidateArguments(Tools[tool], r.args) ->
         SecureDenied(tool, ExecutionError, "Denied", "schema validation failed") /\ UNCHANGED <<service, journal>>
    [] ValidateArguments(Tools[tool], r.args) /\ QuarantineRecommended(r) ->
         SecureDenied(tool, ExecutionError, "Quarantine", "quarantine") /\ UNCHANGED <<service, journal>>
    [] OTHER ->
         IF tool = "write_memory" THEN WriteMemory(r.args)
         ELSE \E result \in ReadTool(tool, r.args) : SecureResult(tool, result) /\ UNCHANGED <<service, journal>>

(***************************************************************************)
(* Resources, which are read without leaving an event.                     *)
(***************************************************************************)
KnownResource(kind, id) ==
  CASE kind = "entities" -> id \in Entities
    [] kind = "assertions" -> id \in DOMAIN graph
    [] kind = "sources" -> id \in DOMAIN StoredSource
    [] OTHER -> kind \in {"memories", "timelines"}

ReadResource(kind, id) ==
  CASE kind \in {"entities", "timelines"} ->
         LET ids == AssertionsForEntity(id, None) IN Shown(SourcesCited(ids), ids, {})
    [] kind = "assertions" -> Shown(CitedBy[id], {id}, {})
    [] kind = "sources" -> Shown({id}, {}, {})
    [] kind = "memories" ->
         LET found == Memories!RetrieveMemory(id, "GraphTemporal", 9, TRUE)
         IN  Shown(UNION {service.memories[m].sources : m \in found}, {}, found)

ProtocolError(code) == response' = {[code |-> code]} /\ UNCHANGED <<service, journal, audit_log>>
Unaudited(shown) ==
  response' = {[error |-> FALSE, shown |-> shown]} /\ UNCHANGED <<service, journal, audit_log>>

HandleRequest(r) ==
  /\ Len(audit_log) < MaxCalls
  /\ UNCHANGED <<graph, tx, index, policy>>
  /\ CASE r.jsonrpc # "2.0" -> ProtocolError("-32600")
       [] r.jsonrpc = "2.0" /\ r.method = "resources/read" ->
            IF r.named # <<>> /\ KnownResource(r.named[1], r.named[2])
            THEN Unaudited(ReadResource(r.named[1], r.named[2])) ELSE ProtocolError("-32602")
       [] r.jsonrpc = "2.0" /\ r.method = "tools/call" ->
            IF r.named # <<>> /\ CanonicalToolName(r.named[1]) \in DOMAIN Tools
            THEN CallTool(r, CanonicalToolName(r.named[1])) ELSE ProtocolError("-32602")
       [] r.jsonrpc = "2.0" /\ r.method \in {"tools/list", "resources/templates/list"} -> Unaudited(Nothing)
       [] OTHER -> ProtocolError("-32601")

ToolInit ==
  /\ graph = [i \in {a.id : a \in Assertion} |->
                LET a == CHOOSE b \in Assertion : b.id = i
                IN  [id |-> i, subject |-> a.subject, predicate |-> a.predicate, object |-> a.object, valid |-> a.valid,
                     context |-> a.context, confidence |-> a.confidence, status |-> "Active",
                     known |-> [start |-> 0, end |-> None]]]
  /\ tx = 0 /\ index = NoIndex
  /\ service = Memories!NewService(0) /\ journal = <<>>
  /\ policy \in [allow_writes : BOOLEAN, require_confirmation : BOOLEAN]
  /\ audit_log = <<>> /\ response = {}

ToolNext == \E r \in Request : HandleRequest(r)

-----------------------------------------------------------------------------
(***************************************************************************)
(* Every answer of a tool names its own event of the audit log, which says *)
(* allowed exactly if the answer is no error and names the sources the     *)
(* answer shows; the trust it states holds of every source that has one    *)
(* (secure_result).                                                        *)
(***************************************************************************)
AnswersAreAudited ==
  \A answer \in {r \in response : "security" \in DOMAIN r} :
    LET event == audit_log[answer.security.audit]
    IN  /\ answer.security.audit = Len(audit_log)
        /\ event.tool = answer.security.tool /\ event.allowed = ~answer.error
        /\ event.sources = answer.shown.sources
        /\ event.allowed => answer.security.provenance = answer.shown
        /\ answer.security.trust = "trusted" =>
             \A s \in answer.shown.sources \cap DOMAIN StoredSource : \A t \in StoredSource[s] : t >= 80

(***************************************************************************)
(* A memory is written only by an allowed call, on a server that allows    *)
(* writes; and each call that was allowed to write wrote one, which its    *)
(* agent finds and no other does (write_memory).                           *)
(***************************************************************************)
WritesArePermitted ==
  /\ Len(journal) = Cardinality({n \in DOMAIN audit_log : audit_log[n].tool = "write_memory" /\ audit_log[n].allowed})
  /\ journal # <<>> => policy.allow_writes
  /\ \A m \in DOMAIN service.memories : \A reader \in Agent :
       m \in Memories!RetrieveMemory(reader, "GraphTemporal", 9, FALSE) <=> reader \in service.memories[m].readers

\* Whoever writes confirmed it, where the policy asks for that.
WritesAreConfirmed ==
  journal' # journal =>
    \E r \in Request : HandleRequest(r) /\ (policy.require_confirmation => Confirmed(r.args))
=============================================================================
