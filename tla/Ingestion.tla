----------------------------- MODULE Ingestion -----------------------------
(***************************************************************************)
(* From documents to commands (rg-ingest) and from sources of any kind to  *)
(* candidates for review (rg-ingest-multimodal).  A text is a sequence of  *)
(* tokens, one byte each: words, numbers, the marks the readers look for.  *)
(* Places in a text count from 0 and a range ends before its second bound. *)
(***************************************************************************)
EXTENDS Integers, SequencesExt, FiniteSetsExt

CONSTANTS
  Document,      \* source id and content, read line by line
  OtherCandidate,\* what another extractor (the trait is public) may offer
  Input,         \* a source of a modality: id, modality, content
  Adapter,       \* modalities an adapter is registered for
  Lower,         \* words, in any case, to their lower case
  Numeral,       \* tokens that read as integers, to their value
  Decimal,       \* tokens that read as decimals, to hundredths
  MaxReviewed

VARIABLES
  reviewed,      \* candidates with the status a reviewer gave them
  outcome        \* the last call, what it was given and what it made of it

None == {}
Blank == {" ", "\r", "\t", "\n"}
Part(text, from, to) == SubSeq(text, from + 1, to)
Find(text, words, from) ==
  LET at == {n \in from..(Len(text) - Len(words)) : Part(text, n, n + Len(words)) = words}
  IN  IF at = {} THEN None ELSE {Min(at)}
Cuts(text, mark) ==
  LET ends == SetToSortSeq({n \in DOMAIN text : text[n] = mark} \cup {Len(text) + 1}, <)
  IN  [k \in DOMAIN ends |-> [from |-> IF k = 1 THEN 0 ELSE ends[k - 1], to |-> ends[k] - 1]]
Trimmed(text, r) ==
  LET solid == {n \in (r.from + 1)..r.to : text[n] \notin Blank}
  IN  IF solid = {} THEN [from |-> r.to, to |-> r.to] ELSE [from |-> Min(solid) - 1, to |-> Max(solid)]
TrimmedParts(text, mark) ==
  LET cuts == Cuts(text, mark)
  IN  [k \in DOMAIN cuts |-> Part(text, Trimmed(text, cuts[k]).from, Trimmed(text, cuts[k]).to)]
Trim(text) == LET r == Trimmed(text, [from |-> 0, to |-> Len(text)]) IN Part(text, r.from, r.to)
StripField(part, prefix) == IF IsPrefix(<<prefix>>, part) THEN {Trim(Tail(part))} ELSE None

\* The slug of a text: what is neither a word nor kept becomes one dash.
Slug(text, kept) ==
  LET letters == [n \in DOMAIN text |-> IF text[n] \in DOMAIN Lower THEN Lower[text[n]]
                                        ELSE IF text[n] \in kept THEN text[n] ELSE "-"]
      places == SetToSortSeq({n \in DOMAIN text : letters[n] = "-" =>
                  n > 1 /\ letters[n - 1] # "-" /\ \E m \in n..Len(text) : letters[m] # "-"}, <)
  IN  [k \in DOMAIN places |-> letters[places[k]]]

ParseInteger(text) == IF Len(text) = 1 /\ text[1] \in DOMAIN Numeral THEN {Numeral[text[1]]} ELSE None
ParseConfidence(text) ==
  IF Len(text) = 1 /\ text[1] \in DOMAIN Decimal THEN {Decimal[text[1]]} \cap 0..100 ELSE None
ParseValidTime(text) ==
  UNION {LET until == SubSeq(text, at + 2, Len(text))
         IN  {v \in [start : ParseInteger(Part(text, 0, at)),
                     end : IF until = <<>> THEN {None} ELSE {{n} : n \in ParseInteger(until)}] :
                \A end \in v.end : v.start <= end} : at \in Find(text, <<"..">>, 0)}

Failed(kind) == [error |-> {kind}, candidates |-> <<>>]
Gave(candidates) == [error |-> None, candidates |-> candidates]
Whole(outcomes) ==   \* the first failure is the outcome of all
  LET bad == {k \in DOMAIN outcomes : outcomes[k].error # None}
  IN  IF bad # {} THEN outcomes[Min(bad)]
      ELSE Gave(FlattenSeq([k \in DOMAIN outcomes |-> outcomes[k].candidates]))

-----------------------------------------------------------------------------
(***************************************************************************)
(* A document: its lines are the chunks, each of them one candidate or     *)
(* none.  One line that cannot be read fails the document.                 *)
(***************************************************************************)
Chunk(d) ==
  LET lines == Cuts(d.content, "\n")
      trimmed == SelectSeq([k \in DOMAIN lines |-> Trimmed(d.content, lines[k])], LAMBDA r : r.from < r.to)
  IN  [k \in DOMAIN trimmed |->
        [source |-> d.source, byte_start |-> trimmed[k].from, text |-> Part(d.content, trimmed[k].from, trimmed[k].to)]]

SourceExcerpt(chunk, evidence, at) ==
  [source |-> chunk.source, text |-> evidence, byte_start |-> chunk.byte_start + at,
   byte_end |-> chunk.byte_start + at + Len(evidence)]

ExtractCandidates(chunk) ==
  LET parts == TrimmedParts(Tail(chunk.text), "|")
      valid == StripField(parts[4], "valid=")
      confidence == StripField(parts[5], "confidence=")
      evidence == StripField(parts[6], "evidence=")
      times == UNION {ParseValidTime(v) : v \in valid}
      sure == UNION {ParseConfidence(c) : c \in confidence}
      found == {<<e, Find(chunk.text, e, 0)>> : e \in evidence}
  IN  CASE chunk.text[1] # "candidate:" -> Gave(<<>>)
        [] chunk.text[1] = "candidate:" /\ Len(parts) # 6 -> Failed("MalformedCandidateLine")
        [] OTHER ->
             CASE valid = None -> Failed("MalformedCandidateLine")
               [] valid # None /\ times = None -> Failed("InvalidValidTime")
               [] times # None /\ confidence = None -> Failed("MalformedCandidateLine")
               [] times # None /\ confidence # None /\ sure = None -> Failed("InvalidConfidence")
               [] times # None /\ sure # None /\ evidence = None -> Failed("MalformedCandidateLine")
               [] times # None /\ sure # None /\ \E f \in found : f[2] = None -> Failed("EvidenceNotFound")
               [] OTHER -> Gave(SetToSeq(
                    {[subject |-> parts[1], predicate |-> parts[2], object |-> parts[3], valid |-> {v},
                      confidence |-> c, excerpt |-> SourceExcerpt(chunk, f[1], Min(f[2]))] :
                     v \in times, c \in sure, f \in found}))

ExtractDocument(d) ==
  LET chunks == Chunk(d) IN Whole([k \in DOMAIN chunks |-> ExtractCandidates(chunks[k])])

-----------------------------------------------------------------------------
(***************************************************************************)
(* The plan for what was reviewed: nothing while a candidate is pending;   *)
(* an entity for each text of what was approved, named by the first text   *)
(* that gives its id, then the assertions, in order.                       *)
(***************************************************************************)
Slugify(text) == LET slug == Slug(text, {"_"}) IN IF slug = <<>> THEN <<"unknown">> ELSE slug
EntityIdForText(text) == <<"entity", "-">> \o Slugify(text)
AssertionIdForCandidate(c) ==
  EntityIdForText(c.subject) \o <<"-">> \o Slugify(c.predicate) \o <<"-">> \o EntityIdForText(c.object)
    \o <<"-">> \o Slugify(c.excerpt.source)

CreateEntities(texts) ==
  [id \in {EntityIdForText(t) : t \in ToSet(texts)} |->
     texts[Min({n \in DOMAIN texts : EntityIdForText(texts[n]) = id})]]
AssertionOf(c) ==
  [id |-> AssertionIdForCandidate(c), subject |-> EntityIdForText(c.subject), predicate |-> Slugify(c.predicate),
   object |-> EntityIdForText(c.object), valid |-> c.valid, confidence |-> c.confidence, source |-> c.excerpt.source]

NoPlan(why) == [error |-> {why}, entities |-> [t \in {} |-> t], assertions |-> <<>>]
CommandsForReviewed(candidates) ==
  LET stops == {n \in DOMAIN candidates :
                  \/ candidates[n].status = "Pending"
                  \/ (candidates[n].status = "Approved" /\ candidates[n].candidate.valid = None)}
      approved == SelectSeq(candidates, LAMBDA r : r.status = "Approved")
  IN  IF stops # {}
      THEN NoPlan(IF candidates[Min(stops)].status = "Pending" THEN "CandidateRequiresApproval" ELSE "MissingValidTime")
      ELSE [error |-> None,
            entities |-> CreateEntities(FlattenSeq(
              [n \in DOMAIN approved |-> <<approved[n].candidate.subject, approved[n].candidate.object>>])),
            assertions |-> [n \in DOMAIN approved |-> AssertionOf(approved[n].candidate)]]

-----------------------------------------------------------------------------
(***************************************************************************)
(* A source of any modality.  A byte that is no text becomes the three of  *)
(* the replacement character before anything is looked for.                *)
(***************************************************************************)
ToLossyText(content) ==
  FlattenSeq([n \in DOMAIN content |-> IF content[n] = "invalid" THEN <<"ef", "bf", "bd">> ELSE <<content[n]>>])

CandidateId(kind, texts) ==
  <<kind, Slug(FlattenSeq([n \in DOMAIN texts |-> IF n = 1 THEN texts[1] ELSE <<"-">> \o texts[n]]), {})>>
ACandidate(kind, texts, valid, confidence, evidence, at) ==
  [id |-> CandidateId(kind, texts), texts |-> texts, valid |-> valid, confidence |-> confidence,
   evidence_id |-> <<at, at + Len(evidence)>>, text |-> evidence, status |-> "PendingReview"]
DefaultConfidence == 60

\* With the evidence where the text first says it (add_exact_evidence).
WithExactEvidence(text, kind, texts, valid, confidence, evidence) ==
  LET at == Find(text, evidence, 0)
  IN  IF at = None THEN Failed("EvidenceNotFound")
      ELSE Gave(<<ACandidate(kind, texts, valid, confidence, evidence, Min(at))>>)

OptionalField(parts, key) ==
  LET having == {n \in DOMAIN parts : StripField(parts[n], key) # None}
  IN  IF having = {} THEN None ELSE StripField(parts[Min(having)], key)
ConfidenceField(parts) ==
  IF OptionalField(parts, "confidence=") = None THEN {DefaultConfidence}
  ELSE UNION {ParseConfidence(c) : c \in OptionalField(parts, "confidence=")}
TimeField(kind, parts) ==   \* the values to choose from: none where it cannot be read
  LET given == OptionalField(parts, IF kind = "assertion" THEN "valid=" ELSE "time=")
  IN  IF given = None \/ kind \notin {"assertion", "event"} THEN {None}
      ELSE {{v} : v \in UNION {IF kind = "assertion" THEN ParseValidTime(g)
                             ELSE {[start |-> n, end |-> {n}] : n \in ParseInteger(g)} : g \in given}}

\* The words a directive of each kind begins with, before its fields.
Directive == [entity |-> 1, assertion |-> 3, event |-> 1, causal |-> 2]
DirectiveMark == [entity |-> "entity:", assertion |-> "assertion:", event |-> "event:", causal |-> "causal:"]

ReadDirective(text, kind, line) ==
  LET parts == TrimmedParts(Tail(line), "|")
      evidence == OptionalField(parts, "evidence=")
  IN  CASE Len(parts) < Directive[kind] \/ evidence = None -> Failed("MalformedDirective")
        [] Len(parts) >= Directive[kind] /\ \E e \in evidence : Find(text, e, 0) = None -> Failed("EvidenceNotFound")
        [] OTHER ->
             IF TimeField(kind, parts) = {} THEN Failed("InvalidValidTime")
             ELSE IF ConfidenceField(parts) = None THEN Failed("InvalidConfidence")
             ELSE WithExactEvidence(text, kind, SubSeq(parts, 1, Directive[kind]),
                    CHOOSE t \in TimeField(kind, parts) : TRUE, Min(ConfidenceField(parts)),
                    CHOOSE e \in evidence : TRUE)

ExtractDirectives(text) ==
  LET lines == SelectSeq(TrimmedParts(text, "\n"), LAMBDA line : line # <<>>)
      kinds(line) == {kind \in DOMAIN Directive : line[1] = DirectiveMark[kind]}
  IN  Whole([n \in DOMAIN lines |-> IF kinds(lines[n]) = {} THEN Gave(<<>>)
               ELSE ReadDirective(text, CHOOSE kind \in kinds(lines[n]) : TRUE, lines[n])])

ExtractCsvRows(text) ==
  LET lines == TrimmedParts(text, "\n")
      rows == [n \in 1..(Len(lines) - 1) |-> TrimmedParts(lines[n + 1], ",")]
      full == SelectSeq(rows, LAMBDA row : Len(row) >= 4 /\ \A n \in DOMAIN row : row[n] # <<>>)
  IN  Whole([n \in DOMAIN full |->
        WithExactEvidence(text, "assertion", SubSeq(full[n], 1, 3), None, DefaultConfidence, full[n][4])])

\* What is between the next two quotes after the colon after the field's name.
JsonStringField(text, field) ==
  UNION {UNION {UNION {{Part(text, open + 1, close) : close \in Find(text, <<"\"">>, open + 1)} :
                       open \in Find(text, <<"\"">>, colon + 1)} :
                colon \in Find(text, <<":">>, at + 3)} :
         at \in Find(text, <<"\"", field, "\"">>, 0)}
ExtractJsonEntity(text) ==
  LET named == JsonStringField(text, "entity")
      evidence == JsonStringField(text, "evidence")
  IN  IF named = None THEN Gave(<<>>)
      ELSE LET name == CHOOSE n \in named : TRUE
           IN  WithExactEvidence(text, "entity", <<name>>, None, DefaultConfidence,
                                 CHOOSE e \in IF evidence = None THEN named ELSE evidence : TRUE)

Between(text, open, close) ==
  UNION {{Trim(Part(text, from + 1, to)) : to \in Find(text, <<close>>, from + 1)} : from \in Find(text, <<open>>, 0)}
ExtractHtmlTitle(text) ==
  LET title == Between(text, "<title>", "</title>")
  IN  IF title = None THEN Gave(<<>>)
      ELSE LET name == CHOOSE t \in title : TRUE
           IN  WithExactEvidence(text, "entity", <<name>>, None, DefaultConfidence, name)

ExtractStructured(input, text, given) ==   \* only where no directive gave one
  LET gave(kind) == \E n \in DOMAIN given : given[n].id[1] = kind
  IN  CASE input.modality = "Csv" /\ ~gave("assertion") -> ExtractCsvRows(text)
        [] input.modality = "Json" /\ ~gave("entity") -> ExtractJsonEntity(text)
        [] input.modality = "Html" /\ ~gave("entity") -> ExtractHtmlTitle(text)
        [] OTHER -> Gave(<<>>)

\* Snippets are sorted and, of one id, the first is kept.
EvidenceSnippets(input, text, candidates) ==
  LET ids == {candidates[n].evidence_id : n \in DOMAIN candidates}
  IN  [id \in ids \cup {<<"full">>} |->
         IF id = <<"full">> THEN text ELSE candidates[Min({n \in DOMAIN candidates : candidates[n].evidence_id = id})].text]
ReviewTasks(input, candidates) ==   \* how many there are for each target
  [target \in {<<"source", input.id>>} \cup {candidates[n].id : n \in DOMAIN candidates} |->
     IF target[1] = "source" THEN 1 ELSE Cardinality({n \in DOMAIN candidates : candidates[n].id = target})]
EmbeddingsFor(evidence) == {<<"source">>} \cup DOMAIN evidence

Batch(input, text, gave) ==
  [error |-> gave.error, candidates |-> gave.candidates,
   evidence |-> EvidenceSnippets(input, text, gave.candidates),
   embeddings |-> EmbeddingsFor(EvidenceSnippets(input, text, gave.candidates)),
   review_tasks |-> ReviewTasks(input, gave.candidates)]

IngestWithModality(modality, input) ==
  LET text == ToLossyText(input.content)
      directives == ExtractDirectives(text)
  IN  IF input.modality # modality THEN Batch(input, text, Failed("AdapterMismatch"))
      ELSE Batch(input, text, Whole(<<directives, ExtractStructured(input, text, directives.candidates)>>))

RegistryIngest(input) ==
  IF input.modality \in Adapter THEN IngestWithModality(input.modality, input)
  ELSE Batch(input, ToLossyText(input.content), Failed("NoAdapterRegistered"))

-----------------------------------------------------------------------------
Pending(candidates) == [n \in DOMAIN candidates |-> [candidate |-> candidates[n], status |-> "Pending"]]
Made(call, of, result) == outcome' = {[call |-> call, of |-> of, result |-> result]}

Extract(d) ==
  /\ Len(reviewed) < MaxReviewed
  /\ Made("extract", d, ExtractDocument(d))
  /\ reviewed' = reviewed \o Pending(ExtractDocument(d).candidates)

Offer(c) ==
  /\ Len(reviewed) < MaxReviewed
  /\ reviewed' = reviewed \o Pending(<<c>>)
  /\ UNCHANGED outcome

AskModel(d) ==   \* both providers are interfaces only
  Made("extract", d, Failed("ExternalLlmDisabled")) /\ UNCHANGED reviewed

Review(n, status) == reviewed' = [reviewed EXCEPT ![n].status = status] /\ UNCHANGED outcome

Plan == Made("plan", reviewed, CommandsForReviewed(reviewed)) /\ UNCHANGED reviewed

Ingest(input) == Made("ingest", input, RegistryIngest(input)) /\ UNCHANGED reviewed
AskAdapter(modality, input) == Made("ingest", input, IngestWithModality(modality, input)) /\ UNCHANGED reviewed

IngestionInit == reviewed = <<>> /\ outcome = None

DocumentNext ==
  \/ \E d \in Document : Extract(d) \/ AskModel(d)
  \/ \E c \in OtherCandidate : Offer(c)
  \/ \E n \in DOMAIN reviewed, status \in {"Approved", "Rejected"} : Review(n, status)
  \/ Plan
SourceNext == \E input \in Input : Ingest(input) \/ \E modality \in Adapter : AskAdapter(modality, input)
IngestionNext == DocumentNext \/ SourceNext

-----------------------------------------------------------------------------
(***************************************************************************)
(* Evidence can be looked up: the excerpt of a candidate is what its       *)
(* document says at its range, and a line that names its evidence never    *)
(* fails for want of it; what a source gave is pending, has a task for its *)
(* review, and its evidence is a snippet of the text at that range.        *)
(***************************************************************************)
EvidenceIsExact ==
  /\ \A e \in {o \in outcome : o.call = "extract"} :
       /\ \A c \in ToSet(e.result.candidates) :
            Part(e.of.content, c.excerpt.byte_start, c.excerpt.byte_end) = c.excerpt.text
       /\ e.result.error # {"EvidenceNotFound"}
  /\ \A i \in {o \in outcome : o.call = "ingest"} :
       LET text == ToLossyText(i.of.content)
       IN  /\ i.result.error # {"EvidenceNotFound"}
           /\ \A c \in ToSet(i.result.candidates) :
                /\ c.status = "PendingReview" /\ c.id \in DOMAIN i.result.review_tasks
                /\ c.evidence_id \in DOMAIN i.result.evidence \cap i.result.embeddings
                /\ Part(text, c.evidence_id[1], c.evidence_id[2]) = i.result.evidence[c.evidence_id]

(***************************************************************************)
(* A plan is of the approved and of nothing else: an assertion for each of *)
(* them, of two entities the same plan creates; every entity it creates is *)
(* of an approved candidate and named by a text that gives its id.         *)
(***************************************************************************)
PlansAreReviewed ==
  \A p \in {o \in outcome : o.call = "plan" /\ o.result.error = None} :
    LET approved == SelectSeq(p.of, LAMBDA r : r.status = "Approved")
    IN  /\ Len(p.result.assertions) = Len(approved) /\ \A r \in ToSet(p.of) : r.status # "Pending"
        /\ \A n \in DOMAIN approved :
             LET a == p.result.assertions[n]
             IN  /\ {a.subject, a.object} \subseteq DOMAIN p.result.entities /\ a.valid # None
                 /\ a.source = approved[n].candidate.excerpt.source
        /\ \A id \in DOMAIN p.result.entities :
             /\ EntityIdForText(p.result.entities[id]) = id
             /\ \E r \in ToSet(approved) : p.result.entities[id] \in {r.candidate.subject, r.candidate.object}
=============================================================================
