---------------------------- MODULE ApiRequests ----------------------------
(***************************************************************************)
(* What a request of the HTTP API does (rg-api): who may send it, which    *)
(* tenant it speaks for, what it writes and what it is answered.  A write  *)
(* is one step here; ApiWritePath.tla has its steps.  A question is the    *)
(* words looked for that it contains and the entities it names.            *)
(***************************************************************************)
EXTENDS GraphQuery, FiniteSetsExt

CONSTANTS
  Account,       \* service accounts that may be configured: key, tenant, roles
  Request,       \* route, key, body
  StoredEntity, StoredSource,
  DerivedId,     \* <<subject, predicate, object, source>> to the id it gives by slugify
  CitedBy,       \* sources by id of an assertion
  DefaultLimit, MaxLimit, MaxPathDepth

VARIABLES
  auth,          \* AuthConfig: the accounts, one to a key
  answer         \* the last response, and the tenant it was given to

Packs == INSTANCE Retrieval WITH
  PredicateSays <- [p \in {} |-> {}], Slice <- {}, Budget <- {}, pack <- answer, stream <- answer

-----------------------------------------------------------------------------
(***************************************************************************)
(* Who sends it (auth_middleware).  Without accounts everybody may.        *)
(***************************************************************************)
Role == <<"Reader", "Writer", "Admin">>
RoleRank(role) == CHOOSE n \in DOMAIN Role : Role[n] = role
HasRole(account, required) == \E role \in account.roles : RoleRank(role) >= RoleRank(required)

RequiredRole(route) ==
  CASE route = "health" -> None
    [] route \in {"query", "path", "evidence-pack", "context-pack", "entity", "state", "assertion", "source"} -> {"Reader"}
    [] OTHER -> {"Writer"}

Authenticated(r) == {a \in auth : a.key \in r.key}
Principal(r) == IF RequiredRole(r.route) = None THEN {} ELSE Authenticated(r)
Refused(r) ==
  auth # {} /\ \E role \in RequiredRole(r.route) : \A a \in Authenticated(r) : ~HasRole(a, role)

TenantContext(r) == {a.tenant : a \in Principal(r)}
OutOfScope(context, tenant) == tenant # None /\ context \notin {None, tenant}
ScopedOptionalContext(context, tenant) == IF tenant # None THEN tenant ELSE context

-----------------------------------------------------------------------------
(***************************************************************************)
(* What is written: the assertion of the request, under its id or one made *)
(* of its texts, in the context of the tenant.                             *)
(***************************************************************************)
AssertionIdFromRequest(b) ==
  IF b.id # None THEN CHOOSE i \in b.id : TRUE
  ELSE DerivedId[<<b.subject, b.predicate, IF b.object.kind \in {"Entity", "Text"} THEN b.object.of ELSE "value",
                   IF b.sources = <<>> THEN "source" ELSE b.sources[1]>>]

AddAssertionCommand(b, tenant) ==
  [id |-> AssertionIdFromRequest(b), subject |-> b.subject, predicate |-> b.predicate, object |-> b.object,
   valid |-> b.valid, confidence |-> b.confidence,
   context |-> CHOOSE c \in {"Global"} \cup ScopedOptionalContext(b.context, tenant) :
                 c = "Global" => ScopedOptionalContext(b.context, tenant) \in {None, {"Global"}}]

Executes(b) ==   \* EventLog::execute accepts it
  /\ {b.subject} \cup {e \in {b.object.of} : IsEntity(b.object)} \subseteq StoredEntity
  /\ b.sources # <<>> /\ ToSet(b.sources) \subseteq StoredSource
  /\ AssertionIdFromRequest(b) \notin DOMAIN graph

Shown(status, assertions, paths) == [status |-> status, assertions |-> assertions, paths |-> paths]
Error(status) == Shown(status, <<>>, {})

PostStatus(b, tenant) ==
  CASE \E end \in b.valid.end : end < b.valid.start -> 400
    [] (\A end \in b.valid.end : end >= b.valid.start) /\ b.confidence \notin 0..100 -> 400
    [] OutOfScope(b.context, tenant) -> 403
    [] ~Executes(b) -> 409
    [] OTHER -> 200

-----------------------------------------------------------------------------
(***************************************************************************)
(* What is read.  The limits are those of the server.                      *)
(***************************************************************************)
NormalizeQueryLimit(limit) == IF limit = None THEN {DefaultLimit} ELSE limit
LimitExceeded(limit) == \E n \in limit : n > MaxLimit

GraphQueryFromRequest(b, tenant) ==
  [b EXCEPT !.limit = NormalizeQueryLimit(@), !.context = ScopedOptionalContext(@, tenant)]

OfTenant(ids, tenant) == SelectSeq(ids, LAMBDA i : \A t \in tenant : graph[i].context = t)
RetainPathsForTenant(paths, tenant) ==
  {p \in paths : \A n \in DOMAIN p : \A t \in tenant : graph[p[n]].context = t}
RetainEvidenceForTenant(pack, tenant) ==
  Shown(200, OfTenant(pack.assertions, tenant), RetainPathsForTenant(pack.paths, tenant))

ExecuteQuery(b, tenant) ==
  CASE LimitExceeded(b.limit) -> Error(400)
    [] OutOfScope(b.context, tenant) -> Error(403)
    [] OTHER -> Shown(200, ExecuteGraph(GraphQueryFromRequest(b, tenant)), {})

ExecutePathRequest(b, tenant) ==
  IF b.max_depth > MaxPathDepth THEN Error(400)
  ELSE Shown(200, <<>>, RetainPathsForTenant(ExecutePath(b), tenant))

EvidencePack(b, tenant) ==
  CASE LimitExceeded(b.graph_query.limit) -> Error(400)
    [] OutOfScope(b.graph_query.context, tenant) -> Error(403)
    [] \E p \in b.path_query : p.max_depth > MaxPathDepth -> Error(400)
    [] OTHER -> RetainEvidenceForTenant(
                  Packs!Generate(GraphQueryFromRequest(b.graph_query, tenant), b.path_query), tenant)

\* A question: the predicate its words say, the first entity it names.
Says ==
  <<<<"WORKED_AT", {"work", "worked", "employ", "job"}>>, <<"CEO_OF", {"ceo", "chief executive"}>>,
    <<"OWNS", {"own", "owns", "ownership", "acquired"}>>, <<"SUPPLIES", {"supply", "supplier", "chain"}>>,
    <<"LOCATED_IN", {"located", "location", "based", "where is"}>>>>
InferPredicate(words) ==
  LET said == {n \in DOMAIN Says : Says[n][2] \cap words # {}}
  IN  IF said = {} THEN None ELSE {Says[Min(said)][1]}
InferEntityFromQuestion(named) ==
  IF named \cap StoredEntity = {} THEN None ELSE {Min(named \cap StoredEntity)}

FirstOf(given, inferred) == IF given = <<>> THEN inferred ELSE {given[1]}

\* The paths go two hops deep, whatever depth the server allows others.
AiContextPack(b, tenant) ==
  LET subject == FirstOf(b.entity_ids, InferEntityFromQuestion(b.named))
      predicate == FirstOf(b.predicates, InferPredicate(b.words))
      query == [subject |-> subject, predicate |-> predicate, object |-> None, valid_at |-> b.valid_at,
                known_at |-> b.known_at, context |-> b.context, min_confidence |-> b.min_confidence, limit |-> b.limit]
      paths == {[start |-> s, end |-> None, predicates |-> SetToSeq(predicate), valid_at |-> b.valid_at,
                 max_depth |-> 2, min_confidence |-> b.min_confidence] : s \in subject}
  IN  CASE b.blank -> Error(400)
        [] OutOfScope(b.context, tenant) -> Error(403)
        [] LimitExceeded(b.limit) -> Error(400)
        [] OTHER -> RetainEvidenceForTenant(Packs!Generate(GraphQueryFromRequest(query, tenant), paths), tenant)

GetEntityState(b, tenant) ==
  IF b.id \notin StoredEntity THEN Error(404)
  ELSE Shown(200, OfTenant(SetToSortSeq({i \in DOMAIN graph : graph[i].subject = b.id /\ At(b.valid_at, graph[i].valid)}, <),
                           tenant), {})
GetAssertion(b, tenant) ==
  IF b.id \in DOMAIN graph /\ OfTenant(<<b.id>>, tenant) # <<>> THEN Shown(200, <<b.id>>, {}) ELSE Error(404)
Exists(known) == IF known THEN Shown(200, <<>>, {}) ELSE Error(404)   \* entities and sources are of all tenants

Read(r, tenant) ==
  CASE r.route = "query" -> ExecuteQuery(r.body, tenant)
    [] r.route = "path" -> ExecutePathRequest(r.body, tenant)
    [] r.route = "evidence-pack" -> EvidencePack(r.body, tenant)
    [] r.route = "context-pack" -> AiContextPack(r.body, tenant)
    [] r.route = "state" -> GetEntityState(r.body, tenant)
    [] r.route = "assertion" -> GetAssertion(r.body, tenant)
    [] r.route = "entity" -> Exists(r.body.id \in StoredEntity)
    [] r.route = "source" -> Exists(r.body.id \in StoredSource)
    [] r.route = "health" -> Exists(TRUE)

-----------------------------------------------------------------------------
Answered(r, response) ==
  answer' = {[route |-> r.route, body |-> r.body, tenant |-> TenantContext(r), shown |-> response]}

Respond(r) ==
  /\ UNCHANGED auth
  /\ IF Refused(r)
     THEN Answered(r, Error(IF Authenticated(r) = {} THEN 401 ELSE 403)) /\ UNCHANGED queryVars
     ELSE IF r.route = "assertions"
     THEN LET status == PostStatus(r.body, TenantContext(r))
          IN  /\ Answered(r, Shown(status, IF status = 200 THEN <<AssertionIdFromRequest(r.body)>> ELSE <<>>, {}))
              /\ IF status = 200 THEN AddAssertion(AddAssertionCommand(r.body, TenantContext(r))) ELSE UNCHANGED queryVars
     ELSE Answered(r, Read(r, TenantContext(r))) /\ UNCHANGED queryVars

ApiInit ==
  /\ QueryInit
  /\ auth \in {A \in SUBSET Account : \A a, b \in A : a.key = b.key => a = b}
  /\ answer = {}

ApiNext == \E r \in Request : Respond(r)

-----------------------------------------------------------------------------
(***************************************************************************)
(* A tenant is shown assertions and paths of its own context only, and of  *)
(* those, what a graph that holds nothing else would have shown it: that   *)
(* paths are searched through every tenant's assertions, and filtered      *)
(* after, makes no difference to a path (retain_paths_for_tenant); an      *)
(* evidence pack may lose a path and keep the tenant's part of it.         *)
(***************************************************************************)
OwnGraph(tenant) == [i \in {j \in DOMAIN graph : {graph[j].context} = tenant} |-> graph[i]]
Own(tenant) == INSTANCE GraphQuery WITH graph <- OwnGraph(tenant)

TenantsSeeTheirOwn ==
  \A given \in {g \in answer : g.tenant # None} :
    /\ \A i \in ToSet(given.shown.assertions) \cup UNION {ToSet(p) : p \in given.shown.paths} :
         i \in DOMAIN OwnGraph(given.tenant)
    /\ given.route = "query" /\ given.shown.status = 200 =>
         given.shown.assertions = Own(given.tenant)!ExecuteGraph([given.body EXCEPT
           !.context = None, !.limit = NormalizeQueryLimit(@)])
    /\ given.route = "path" /\ given.shown.status = 200 => given.shown.paths = Own(given.tenant)!ExecutePath(given.body)

(***************************************************************************)
(* What one tenant writes changes nothing that another is answered by a    *)
(* query, a path, the state of an entity or an assertion.                  *)
(***************************************************************************)
TenantsDoNotInterfere ==
  \A given \in answer' : given.tenant # None /\ graph' # graph =>
    \A a \in auth : {a.tenant} # given.tenant =>
      \A r \in {q \in Request : q.route \in {"query", "path", "state", "assertion"}} :
        Read(r, {a.tenant})' = Read(r, {a.tenant})
=============================================================================
