-------------------------------- MODULE Rgql --------------------------------
(***************************************************************************)
(* The query language (rgql): lexer, parser, plan and execution over the   *)
(* storage and the path and contradiction searches of GraphQuery.tla.  A   *)
(* token carries what its text reads as: a number, a date being one, or a  *)
(* duration.  Parsers answer sets, empty when the text is refused.         *)
(***************************************************************************)
EXTENDS GraphQuery

CONSTANTS
  Entity,      \* entities of the storage in the order of ids: id, type, name
  Statement,   \* statements that are asked
  Text         \* texts that are read, sequences of characters

-----------------------------------------------------------------------------
(***************************************************************************)
(* Characters to tokens.                                                   *)
(***************************************************************************)
Letter == {"a", "b", "_"}
Numeral == {"0", "1"}
Mark == [m \in {"(", ")", "|", ","} |-> m]

\* The length of the longest beginning of text whose places all pass.
Span(text, Passes(_)) ==
  CHOOSE n \in 0..Len(text) : (\A i \in 1..n : Passes(i)) /\ (n = Len(text) \/ ~Passes(n + 1))

NumberLength(text) ==
  Span(text, LAMBDA i : /\ text[i] \in (Letter \ {"_"}) \cup Numeral \cup {"."}
                        /\ ~(text[i] = "." /\ i < Len(text) /\ text[i + 1] = "."))

WordLength(text) == Span(text, LAMBDA i : text[i] \in Letter \cup Numeral \cup {"-"})

RECURSIVE Lex(_)
Lex(text) ==
  LET token(kind, n, skip) ==
        {<<[kind |-> kind, chars |-> SubSeq(text, 1 + skip, n + skip)]>> \o rest :
           rest \in Lex(SubSeq(text, n + 1 + 2 * skip, Len(text)))}
  IN  CASE text = <<>> -> {<<>>}
        [] text # <<>> /\ text[1] = " " -> Lex(Tail(text))
        [] text # <<>> /\ text[1] \in DOMAIN Mark -> token(Mark[text[1]], 1, 0)
        [] text # <<>> /\ text[1] = "." -> IF Len(text) > 1 /\ text[2] = "." THEN token("..", 2, 0) ELSE {}
        [] text # <<>> /\ text[1] = "\"" ->
             LET n == Span(Tail(text), LAMBDA i : text[i + 1] # "\"")
             IN  IF n + 1 = Len(text) THEN {} ELSE token("string", n, 1)
        [] text # <<>> /\ text[1] \in Numeral -> token("number", NumberLength(text), 0)
        [] text # <<>> /\ text[1] \in Letter -> token("word", WordLength(text), 0)
        [] OTHER -> {}

-----------------------------------------------------------------------------
(***************************************************************************)
(* Tokens to statements.  What a parser read, and the rest.                *)
(***************************************************************************)
Token(kind, text) == [kind |-> kind, text |-> text, num |-> {}, span |-> {}]
Word(w) == Token("word", w)
Str(s) == Token("string", s)
Sign(s) == Token(s, s)
Num(n) == [Token("number", "n") EXCEPT !.num = {n}]
Days(n) == [Token("number", "d") EXCEPT !.span = {n}]

Read(value, rest) == [value |-> value, rest |-> rest]
Expect(ts, kinds) == {Read(t, Tail(ts)) : t \in {u \in {ts[i] : i \in DOMAIN ts \cap {1}} : u.kind \in kinds}}
AnyWord(ts) == {Read(r.value.text, r.rest) : r \in Expect(ts, {"word"})}
Keyword(ts, w) == {r \in AnyWord(ts) : r.value = w}   \* whatever the case of its letters
Literal(ts) == Expect(ts, {"string", "number", "word"})
Number(ts) == UNION {{Read(n, r.rest) : n \in r.value.num} : r \in Literal(ts)}

Selector(kind, name) == [kind |-> kind, name |-> name]

CallString(ts) ==
  UNION {UNION {{Read(s.value.text, close.rest) : close \in Expect(s.rest, {")"})} :
                  s \in Expect(open.rest, {"string"})} : open \in Expect(ts, {"("})}

ParseEntitySelector(ts) ==
  UNION {IF Expect(w.rest, {"("}) = {} THEN {Read(Selector("Type", w.value), w.rest)}
         ELSE {Read(IF w.value = "Id" THEN Selector("Id", s.value)
                    ELSE [kind |-> "TypedName", type |-> w.value, name |-> s.value], s.rest) :
                 s \in CallString(w.rest)} : w \in AnyWord(ts)}

RECURSIVE WordList(_, _)
WordList(ts, sign) ==
  UNION {IF Expect(w.rest, {sign}) = {} THEN {Read(<<w.value>>, w.rest)}
         ELSE {Read(<<w.value>> \o more.value, more.rest) : more \in WordList(Tail(w.rest), sign)} :
           w \in AnyWord(ts)}

During(ts) ==   \* nothing says that it ends after it starts
  UNION {UNION {{Read(<<start.value, end.value>>, end.rest) : end \in Number(dots.rest)} :
                  dots \in Expect(start.rest, {".."})} : start \in Number(ts)}

ClausesOf ==
  [Find |-> {"VALID_AT", "KNOWN_AT", "WITH", "MIN_CONFIDENCE", "CONTRADICTIONS", "LIMIT", "RETURN"},
   Path |-> {"VALID_AT", "VALID_DURING", "MIN_CONFIDENCE", "MAX_DEPTH", "RETURN"},
   Causes |-> {"WITHIN", "MIN_CONFIDENCE", "MAX_DEPTH", "RETURN"},
   Contradictions |-> {"VALID_AT", "KNOWN_AT", "RETURN"},
   Counterfactual |-> {"VALID_AT", "MAX_DEPTH", "RETURN"}]

ClauseKeyword == UNION {ClausesOf[k] : k \in DOMAIN ClausesOf} \ {"WITHIN"}

Clause(name, ts) ==
  CASE name \in {"VALID_AT", "KNOWN_AT", "MIN_CONFIDENCE", "LIMIT", "MAX_DEPTH"} -> Number(ts)
    [] name = "VALID_DURING" -> During(ts)
    [] name = "WITHIN" -> UNION {{Read(n, r.rest) : n \in r.value.span} : r \in Literal(ts)}
    [] name = "WITH" -> {Read(TRUE, r.rest) : r \in Keyword(ts, "EVIDENCE")}
    [] name = "CONTRADICTIONS" -> {Read(TRUE, ts)}
    [] name = "RETURN" -> WordList(ts, ",")

NoClauses == [c \in ClauseKeyword \cup {"WITHIN"} |-> None]

RECURSIVE ParseClauses(_, _)
ParseClauses(st, ts) ==   \* the last of two clauses of one name holds
  IF ts = <<>> THEN {st}
  ELSE UNION {UNION {ParseClauses([st EXCEPT !.clauses[w.value] =
                        IF st.kind = "Find" /\ w.value = "RETURN" THEN None ELSE {c.value}], c.rest) :
                       c \in Clause(w.value, w.rest)} :
                w \in {r \in AnyWord(ts) : r.value \in ClausesOf[st.kind]}}

Stated(kind, entity, via, object) ==
  [kind |-> kind, entity |-> entity, via |-> via, object |-> object, clauses |-> NoClauses]

Optional(ts, keyword, Parse(_), missing) ==
  IF Keyword(ts, keyword) = {} THEN {Read(missing, ts)} ELSE Parse(Tail(ts))

SomeSelector(ts) == {Read({s.value}, s.rest) : s \in ParseEntitySelector(ts)}

ParseFind(ts) ==
  UNION {UNION {UNION {ParseClauses(Stated("Find", e.value, p.value, o.value), o.rest) :
                  o \in IF p.value = <<>> \/ p.rest = <<>>
                           \/ \E w \in AnyWord(p.rest) : w.value \in ClauseKeyword
                        THEN {Read(None, p.rest)} ELSE SomeSelector(p.rest)} :
           p \in Optional(e.rest, "WHERE", LAMBDA x : {Read(<<w.value>>, w.rest) : w \in AnyWord(x)}, <<>>)} :
           e \in SomeSelector(ts)}

ParsePath(ts) ==
  UNION {UNION {UNION {UNION {ParseClauses(Stated("Path", e.value, via.value, o.value), via.rest) :
                 via \in Optional(o.rest, "VIA", LAMBDA x : WordList(x, "|"), <<>>)} :
           o \in Optional(e.rest, "TO", SomeSelector, None)} :
           e \in SomeSelector(f.rest)} : f \in Keyword(ts, "FROM")}

ParseCauses(ts) ==
  UNION {UNION {UNION {ParseClauses(Stated("Causes", {Selector("Event", s.value)}, <<>>, None), s.rest) :
                         s \in CallString(e.rest)} : e \in Keyword(f.rest, "Event")} : f \in Keyword(ts, "OF")}

ParseContradictions(ts) ==
  UNION {ParseClauses(Stated("Contradictions", e.value, <<>>, None), e.rest) :
           e \in Optional(ts, "FOR", SomeSelector, None)}

ParseCounterfactual(ts) ==
  UNION {UNION {UNION {ParseClauses(Stated("Counterfactual", {Selector(k.value, s.value)}, <<>>, None), s.rest) :
                         s \in CallString(k.rest)} :
                  k \in {r \in AnyWord(f.rest) : r.value \in {"ASSERTION", "EVENT"}}} : f \in Keyword(ts, "REMOVE")}

ParseStatement(ts) ==
  UNION {CASE w.value \in {"FIND", "MATCH"} -> ParseFind(w.rest)
           [] w.value = "PATH" -> ParsePath(w.rest)
           [] w.value = "CAUSES" -> ParseCauses(w.rest)
           [] w.value = "CONTRADICTIONS" -> ParseContradictions(w.rest)
           [] w.value = "COUNTERFACTUAL" -> ParseCounterfactual(w.rest)
           [] OTHER -> {} : w \in AnyWord(ts)}

Depth(st) == IF st.clauses["MAX_DEPTH"] = None THEN 3 ELSE CHOOSE d \in st.clauses["MAX_DEPTH"] : TRUE

(***************************************************************************)
(* The plan of a statement: its operators, in order.                       *)
(***************************************************************************)
HasTemporalClause(st) ==
  \E c \in {"VALID_AT", "KNOWN_AT", "VALID_DURING", "WITHIN"} : st.clauses[c] # None

Operators(st) ==
  LET temporal == IF HasTemporalClause(st) THEN <<"TemporalFilter">> ELSE <<>>
      given(clause, operator) == IF st.clauses[clause] = None THEN <<>> ELSE <<operator>>
  IN  CASE st.kind = "Find" ->
             <<"KeywordSearch">> \o temporal \o <<"GraphExpansion">> \o given("CONTRADICTIONS", "ContradictionCheck")
               \o <<"Rerank", "Compress">> \o given("WITH", "Cite")
        [] st.kind = "Path" ->
             <<"PathSearch">> \o temporal \o <<"GraphExpansion", "Rerank", "Compress", "Cite">>
        [] st.kind = "Causes" -> <<"CausalExpansion", "TemporalFilter", "Rerank", "Compress", "Cite">>
        [] st.kind = "Contradictions" ->
             <<"TemporalFilter", "GraphExpansion", "ContradictionCheck", "Compress", "Cite">>
        [] st.kind = "Counterfactual" -> <<"CausalExpansion", "GraphExpansion", "Rerank", "Cite">>

Expansions(st) == Cardinality({"GraphExpansion", "PathSearch", "CausalExpansion"} \cap ToSet(Operators(st)))

(***************************************************************************)
(* A question in words, as far as it is looked at, to the text of a query. *)
(***************************************************************************)
CompileNaturalLanguage(asks) ==
  CASE "work" \in asks.about ->
         {<<Word("MATCH"), Word("Entity"), Sign("("), Str(asks.subject), Sign(")"), Word("WHERE"), Word("worked_at")>>
            \o (IF asks.date = None THEN <<>>
                ELSE <<Word("VALID_AT"), [Str("date") EXCEPT !.num = asks.date]>>)
            \o (IF asks.evidence THEN <<Word("WITH"), Word("EVIDENCE")>> ELSE <<>>)}
    [] "work" \notin asks.about /\ "path" \in asks.about ->
         {<<Word("PATH"), Word("FROM"), Word("Entity"), Sign("("), Str("unknown"), Sign(")"), Word("VIA"),
            Word("related_to"), Word("RETURN"), Word("paths"), Sign(","), Word("evidence")>>}
    [] asks.about = {"cause"} ->
         {<<Word("CAUSES"), Word("OF"), Word("Event"), Sign("("), Str("unknown"), Sign(")"), Word("RETURN"),
            Word("causal_paths"), Sign(","), Word("mechanisms"), Sign(","), Word("sources")>>}
    [] OTHER -> {}

-----------------------------------------------------------------------------
(***************************************************************************)
(* Execution of what reads the graph: rows, or that it failed.             *)
(***************************************************************************)
TypeMatches(e, type) == type = e.type \/ (e.type = "Organization" /\ type = "Company")

ResolveEntityId(s) ==
  LET first(Passes(_)) == {Entity[i].id : i \in {j \in DOMAIN Entity :
                             Passes(Entity[j]) /\ \A k \in 1..(j - 1) : ~Passes(Entity[k])}}
      named == first(LAMBDA e : /\ s.type = "Entity" \/ TypeMatches(e, s.type)
                                /\ s.name \in {e.id, e.name})
  IN  CASE s.kind = "Id" -> {s.name}
        [] s.kind = "Type" -> first(LAMBDA e : TypeMatches(e, s.name))
        [] s.kind = "TypedName" ->
             IF named # {} THEN named ELSE first(LAMBDA e : e.id = s.name)

Resolve(selectors) == UNION {ResolveEntityId(s) : s \in selectors}
Unresolved(selectors) == \E s \in selectors : ResolveEntityId(s) = {}

Rows(found) == [outcome |-> "ok", rows |-> found]
Failed(why) == [outcome |-> why, rows |-> {}]

ExecuteFind(st) ==   \* a selector by type alone does not restrict the subject
  LET subject == {s \in st.entity : s.kind # "Type"}
  IN  IF Unresolved(subject \cup st.object) THEN Failed("unknown entity")
      ELSE Rows(ToSet(ExecuteGraph(
             [subject |-> Resolve(subject), predicate |-> ToSet(st.via),
              object |-> {[kind |-> "Entity", of |-> e] : e \in Resolve(st.object)},
              valid_at |-> st.clauses["VALID_AT"], known_at |-> st.clauses["KNOWN_AT"], context |-> None,
              min_confidence |-> st.clauses["MIN_CONFIDENCE"], limit |-> st.clauses["LIMIT"]])))

FollowsVia(a, st) == st.via = <<>> \/ a.predicate \in ToSet(st.via)

\* A slip the properties must notice: the predicates of VIA come hop by hop.
EdgeMatchesFirst(a, st) == (st.via = <<>> \/ a.predicate = st.via[1]) /\ At(st.clauses["VALID_AT"], a.valid)

EdgeMatchesPath(a, st) ==
  /\ FollowsVia(a, st) /\ At(st.clauses["VALID_AT"], a.valid)
  /\ \A d \in st.clauses["VALID_DURING"] : Overlaps(a.valid, [start |-> d[1], end |-> {d[2]}])
  /\ \A m \in st.clauses["MIN_CONFIDENCE"] : a.confidence >= m

RECURSIVE WalkPaths(_, _, _, _, _)
WalkPaths(st, end, current, visited, hops) ==
  IF Len(hops) >= Depth(st) THEN {}
  ELSE UNION {LET next == graph[i].object.of
              IN  {p \in {Append(hops, i)} : Asked(end, next)}
                    \cup WalkPaths(st, end, next, visited \cup {next}, Append(hops, i)) :
                i \in {j \in Edges(current, visited) : EdgeMatchesPath(graph[j], st)}}

\* An interval that ends before it starts is refused where the first edge is compared with it.
Backwards(st, start) ==
  /\ \E d \in st.clauses["VALID_DURING"] : d[2] < d[1]
  /\ Depth(st) > 0
  /\ \E a \in Graph : a.subject = start /\ FollowsVia(a, st) /\ At(st.clauses["VALID_AT"], a.valid)

ExecutePathStatement(st) ==
  IF Unresolved(st.entity \cup st.object) THEN Failed("unknown entity")
  ELSE LET start == CHOOSE e \in Resolve(st.entity) : TRUE
       IN  IF Backwards(st, start) THEN Failed("panic")
           ELSE Rows(WalkPaths(st, Resolve(st.object), start, {start}, <<>>))

DetectContradictions(st) ==   \* KNOWN_AT is not looked at; an unknown entity restricts nothing
  LET all == ContradictionsOf({a \in Graph : At(st.clauses["VALID_AT"], a.valid)})
      about(e) == {a.id : a \in {b \in Graph : b.subject = e \/ b.object = [kind |-> "Entity", of |-> e]}}
  IN  Rows({c \in all : \A e \in Resolve(st.entity) : {c.a, c.b} \cap about(e) # {}})

Execute(st) ==
  CASE st.kind = "Find" -> ExecuteFind(st)
    [] st.kind = "Path" -> ExecutePathStatement(st)
    [] st.kind = "Contradictions" -> DetectContradictions(st)

-----------------------------------------------------------------------------
(***************************************************************************)
(* The text of a statement whose clauses are written in a given order.     *)
(***************************************************************************)
WriteSelector(s) ==
  IF s.kind = "Type" THEN <<Word(s.name)>>
  ELSE <<Word(IF s.kind = "TypedName" THEN s.type ELSE s.kind), Sign("("), Str(s.name), Sign(")")>>

WriteList(ws, sign) == FlattenSeq([i \in DOMAIN ws |-> (IF i = 1 THEN <<>> ELSE <<Sign(sign)>>) \o <<Word(ws[i])>>])
Given(keyword, selectors) == FlattenSeq([s \in DOMAIN selectors |-> <<Word(keyword)>> \o WriteSelector(selectors[s])])

WriteClause(st, c) ==
  LET v == CHOOSE x \in st.clauses[c] : TRUE
  IN  <<Word(c)>> \o
      CASE c = "WITHIN" -> <<Days(v)>>
        [] c = "WITH" -> <<Word("EVIDENCE")>>
        [] c = "CONTRADICTIONS" -> <<>>
        [] c = "VALID_DURING" -> <<Num(v[1]), Sign(".."), Num(v[2])>>
        [] c = "RETURN" -> WriteList(v, ",")
        [] OTHER -> <<Num(v)>>

WriteHead(st) ==
  LET entity == SetToSeq(st.entity)  object == SetToSeq(st.object)
  IN  CASE st.kind = "Find" -> <<Word("MATCH")>> \o WriteSelector(entity[1]) \o
             (IF st.via = <<>> THEN <<>> ELSE <<Word("WHERE"), Word(st.via[1])>>)
             \o (IF object = <<>> THEN <<>> ELSE WriteSelector(object[1]))
        [] st.kind = "Path" -> <<Word("PATH")>> \o Given("FROM", entity) \o Given("TO", object)
             \o (IF st.via = <<>> THEN <<>> ELSE <<Word("VIA")>> \o WriteList(st.via, "|"))
        [] st.kind = "Causes" -> <<Word("CAUSES")>> \o Given("OF", entity)
        [] st.kind = "Contradictions" -> <<Word("CONTRADICTIONS")>> \o Given("FOR", entity)
        [] st.kind = "Counterfactual" -> <<Word("COUNTERFACTUAL")>> \o Given("REMOVE", entity)

Clauses(st) == {c \in DOMAIN st.clauses : st.clauses[c] # None}
Write(st, order) == WriteHead(st) \o FlattenSeq([i \in DOMAIN order |-> WriteClause(st, order[i])])

(***************************************************************************)
(* A statement is read as it is written, whatever the order of its         *)
(* clauses; cut short it is refused or asks with fewer clauses; and a      *)
(* clause more never takes an operator out of the plan (Parser, plan).     *)
(***************************************************************************)
StatementsReadBack ==
  graph = [i \in {} |-> 0] =>
    \A st \in Statement : \A order \in SetToSeqs(Clauses(st)) :
      LET text == Write(st, order)
      IN  /\ ParseStatement(text) = {st}
          /\ \A n \in 0..(Len(text) - 1), c \in Clauses(st) :
               \A cut \in ParseStatement(SubSeq(text, 1, n)) :
                 c \in Clauses(cut) => c = "RETURN" \/ cut.clauses[c] = st.clauses[c]
          /\ \A c \in Clauses(st) :
               ToSet(Operators([st EXCEPT !.clauses[c] = None])) \subseteq ToSet(Operators(st))

(***************************************************************************)
(* The tokens of a text, written with blanks between them, are read as the *)
(* same tokens, and nothing but blanks and quotes is lost (Lexer).         *)
(***************************************************************************)
Spell(token) == IF token.kind = "string" THEN <<"\"">> \o token.chars \o <<"\"">> ELSE token.chars

TokensReadBack ==
  graph = [i \in {} |-> 0] =>
    \A text \in Text : \A tokens \in Lex(text) :
      /\ Lex(FlattenSeq([i \in DOMAIN tokens |-> Spell(tokens[i]) \o <<" ">>])) = {tokens}
      /\ SelectSeq(text, LAMBDA c : c # " ")
           = SelectSeq(FlattenSeq([i \in DOMAIN tokens |-> Spell(tokens[i])]), LAMBDA c : c # " ")

(***************************************************************************)
(* A question about work, paths or causes compiles to a text that is a     *)
(* statement, and the date and the evidence it asks for are in it          *)
(* (compile_natural_language).                                             *)
(***************************************************************************)
QuestionsParse ==
  \A asks \in [about : SUBSET {"work", "path", "cause"}, subject : {"Ann"}, date : {None, {20240102}},
               evidence : BOOLEAN] :
    \A text \in CompileNaturalLanguage(asks) :
      \E st \in ParseStatement(text) :
        st.kind = "Find" => st.clauses["VALID_AT"] = asks.date /\ (st.clauses["WITH"] = {TRUE}) = asks.evidence

(***************************************************************************)
(* The two path searches agree: without VIA and VALID_DURING the language  *)
(* finds what a path query finds, and with VIA at least what a query finds *)
(* that names these predicates hop by hop (walk_paths, search_paths).      *)
(***************************************************************************)
WalkersAgree ==
  index = NoIndex => \A st \in {s \in Statement : s.kind = "Path" /\ s.clauses["VALID_DURING"] = None} :
    LET answer == Execute(st)
        query(via) == [start |-> CHOOSE e \in Resolve(st.entity) : TRUE, end |-> Resolve(st.object),
                       predicates |-> via, valid_at |-> st.clauses["VALID_AT"], max_depth |-> Depth(st),
                       min_confidence |-> st.clauses["MIN_CONFIDENCE"]]
    IN  answer.outcome = "ok" =>
          /\ answer.rows = {p \in ExecutePath(query(<<>>)) : \A n \in DOMAIN p : FollowsVia(graph[p[n]], st)}
          /\ ExecutePath(query(st.via)) \subseteq answer.rows

(***************************************************************************)
(* A clause more only narrows the answer: what a statement without it      *)
(* answers includes what the statement answers.  A limit counts what the   *)
(* other clauses leave, and a greater depth finds more (execute).          *)
(***************************************************************************)
ClausesNarrow ==
  index = NoIndex => \A st \in {s \in Statement : s.kind \in {"Find", "Path", "Contradictions"}} :
    \A c \in Clauses(st) \ {"MAX_DEPTH"} :
      c = "LIMIT" \/ st.clauses["LIMIT"] = None =>
        Execute(st).rows \subseteq Execute([st EXCEPT !.clauses[c] = None]).rows
=============================================================================
