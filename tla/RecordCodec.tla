---------------------------- MODULE RecordCodec ----------------------------
(***************************************************************************)
(* The text of the log's records (rg-storage, encode_event_record to       *)
(* required).  A text is a sequence of characters; a word that only the    *)
(* code writes, a tag or a checksum, counts as one character, and the      *)
(* checksum stands for what was summed.  What a decoder answers is a set:  *)
(* empty when it refuses, else the value it read.                          *)
(***************************************************************************)
EXTENDS Naturals, Sequences, FiniteSets, TLC, SequencesExt

CONSTANT Written   \* records that are written: sequence, key and event

VARIABLE record

(***************************************************************************)
(* Numbers and parts.  A part is preceded by its length, once escaped.     *)
(***************************************************************************)
Digit == <<"0", "1", "2", "3", "4", "5", "6", "7", "8", "9">>

RECURSIVE Digits(_)
Digits(n) == (IF n < 10 THEN <<>> ELSE Digits(n \div 10)) \o <<Digit[(n % 10) + 1]>>

ParseNumber(text) ==
  IF text = <<>> \/ \E c \in ToSet(text) : c \notin ToSet(Digit) THEN {}
  ELSE LET value[n \in 0..Len(text)] ==
             IF n = 0 THEN 0 ELSE 10 * value[n - 1] + (CHOOSE d \in 0..9 : Digit[d + 1] = text[n])
       IN  {value[Len(text)]}

Escapes == {<<"\\", "\\">>, <<"\n", "n">>, <<"\r", "r">>, <<"\t", "t">>}

\* A slip the properties must notice: the escape character itself is not escaped.
EscapeControls(part) ==
  FlattenSeq([i \in DOMAIN part |->
    IF \E e \in Escapes : e[1] = part[i] /\ part[i] # "\\"
    THEN <<"\\", (CHOOSE e \in Escapes : e[1] = part[i])[2]>> ELSE <<part[i]>>])

EscapePart(part) ==
  IF ToSet(part) \cap {e[1] : e \in Escapes} = {} THEN part ELSE
  FlattenSeq([i \in DOMAIN part |->
    IF \E e \in Escapes : e[1] = part[i]
    THEN <<"\\", (CHOOSE e \in Escapes : e[1] = part[i])[2]>> ELSE <<part[i]>>])

First(text, c) == CHOOSE i \in DOMAIN text : text[i] = c /\ \A j \in 1..(i - 1) : text[j] # c

RECURSIVE UnescapePart(_)
UnescapePart(part) ==
  IF "\\" \notin ToSet(part) THEN {part}
  ELSE LET i == First(part, "\\")
       IN  IF i = Len(part) THEN {}
           ELSE {SubSeq(part, 1, i - 1) \o <<e[1]>> \o rest :
                   e \in {f \in Escapes : f[2] = part[i + 1]},
                   rest \in UnescapePart(SubSeq(part, i + 2, Len(part)))}

EncodeParts(parts) ==
  FlattenSeq([i \in DOMAIN parts |->
    LET escaped == EscapePart(parts[i]) IN Digits(Len(escaped)) \o <<":">> \o escaped])

RECURSIVE DecodeParts(_)
DecodeParts(text) ==
  IF text = <<>> THEN {<<>>}
  ELSE IF ":" \notin ToSet(text) THEN {}
  ELSE LET colon == First(text, ":")
       IN  UNION {IF colon + len > Len(text) THEN {}
                  ELSE {<<part>> \o rest :
                          part \in UnescapePart(SubSeq(text, colon + 1, colon + len)),
                          rest \in DecodeParts(SubSeq(text, colon + len + 1, Len(text)))} :
                    len \in ParseNumber(SubSeq(text, 1, colon - 1))}

Required(parts, i) == IF i \in DOMAIN parts THEN {parts[i]} ELSE {}

(***************************************************************************)
(* The forms of a field: a text, a number, a number or nothing, an option, *)
(* a list of names, an interval, one of some variants, and properties, a   *)
(* list of names and values counted first.                                 *)
(***************************************************************************)
Maybe(number) == IF number = {} THEN <<>> ELSE Digits(CHOOSE n \in number : TRUE)
ParseMaybe(text) == IF text = <<>> THEN {{}} ELSE {{n} : n \in ParseNumber(text)}

EncodeVariant(v) == EncodeParts(<<<<v.tag>>>> \o v.of)
DecodeVariant(text, tags) ==   \* the parts after those of its variant are ignored
  UNION {IF parts # <<>> /\ Len(parts[1]) = 1 /\ parts[1][1] \in DOMAIN tags
            /\ Len(parts) > tags[parts[1][1]]
         THEN {[tag |-> parts[1][1], of |-> SubSeq(parts, 2, tags[parts[1][1]] + 1)]} ELSE {} :
           parts \in DecodeParts(text)}

ValueTags == [t \in {"Entity", "Text", "Integer", "Decimal", "Boolean", "Time", "Null"} |->
                IF t = "Null" THEN 0 ELSE 1]
TypeTags == [t \in {"Person", "Organization", "Place", "Event", "Document", "Concept", "WebPage",
                    "SensorReading", "Custom"} |-> IF t = "Custom" THEN 1 ELSE 0]
ScopeTags == [Global |-> 0, Named |-> 1]
Words == {"Active", "Retracted", "Superseded", "Disputed", "Semantic", "Correction", "Candidate"}

EncodeField(form, v) ==
  CASE form = "text" -> v
    [] form = "word" -> <<v>>
    [] form = "number" -> Digits(v)
    [] form = "maybe" -> Maybe(v)
    [] form = "option" -> EncodeParts(IF v = {} THEN <<<<"None">>>> ELSE <<<<"Some">>, CHOOSE t \in v : TRUE>>)
    [] form = "list" -> EncodeParts(v)
    [] form = "interval" -> EncodeParts(<<Digits(v.start), Maybe(v.end)>>)
    [] form \in {"value", "type", "scope"} -> EncodeVariant(v)
    [] form = "properties" ->
         EncodeParts(<<Digits(Len(v))>> \o
           FlattenSeq([i \in DOMAIN v |-> <<v[i].name, EncodeVariant(v[i].value)>>]))

DecodeOption(text) ==
  UNION {CASE parts = <<>> -> {}
           [] parts # <<>> /\ parts[1] = <<"None">> -> {{}}
           [] parts # <<>> /\ parts[1] = <<"Some">> -> {{t} : t \in Required(parts, 2)}
           [] OTHER -> {} : parts \in DecodeParts(text)}

DecodeInterval(text) ==
  UNION {{[start |-> start, end |-> end] :
            start \in UNION {ParseNumber(t) : t \in Required(parts, 1)},
            end \in UNION {ParseMaybe(t) : t \in Required(parts, 2)}} : parts \in DecodeParts(text)}

DecodeProperties(text) ==
  UNION {UNION {IF Len(parts) # 1 + 2 * n THEN {}
                ELSE IF \E i \in 1..n : DecodeVariant(parts[2 * i + 1], ValueTags) = {} THEN {}
                ELSE {[i \in 1..n |->
                        [name |-> parts[2 * i],
                         value |-> CHOOSE v \in DecodeVariant(parts[2 * i + 1], ValueTags) : TRUE]]} :
                  n \in UNION {ParseNumber(t) : t \in Required(parts, 1)}} : parts \in DecodeParts(text)}

DecodeField(form, text) ==
  CASE form = "text" -> {text}
    [] form = "word" -> IF Len(text) = 1 /\ text[1] \in Words THEN {text[1]} ELSE {}
    [] form = "number" -> ParseNumber(text)
    [] form = "maybe" -> ParseMaybe(text)
    [] form = "option" -> DecodeOption(text)
    [] form = "list" -> DecodeParts(text)
    [] form = "interval" ->  {i \in DecodeInterval(text) : \A end \in i.end : i.start < end}
    [] form = "value" -> DecodeVariant(text, ValueTags)
    [] form = "type" -> DecodeVariant(text, TypeTags)
    [] form = "scope" -> DecodeVariant(text, ScopeTags)
    [] form = "properties" -> DecodeProperties(text)

(***************************************************************************)
(* The fields of each thing, in the order they are written and read.       *)
(***************************************************************************)
EntityFields    == <<"text", "type", "option", "properties", "number">>
AssertionFields == <<"text", "text", "text", "value", "interval", "interval", "number", "list", "scope", "word">>
SourceFields    == <<"text", "type", "option", "text", "number", "maybe">>
LinkFields      == <<"text", "text", "text", "number", "option", "list">>
MemoryFields    == <<"text", "text", "word", "text", "interval", "number", "list", "list", "list", "word">>

Whole == [EntityCreated |-> EntityFields, AssertionAdded |-> AssertionFields,
          SourceAdded |-> SourceFields, CausalLinkAdded |-> LinkFields,
          AgentMemoryRecorded |-> MemoryFields]   \* in one part, nested
Flat == [AssertionRetracted |-> <<"text">>, EvidenceLinked |-> <<"text", "text">>,
         EntityMerged |-> <<"text", "text">>, ConfidenceUpdated |-> <<"text", "number", "list">>]

EncodeFields(forms, values) == [i \in DOMAIN forms |-> EncodeField(forms[i], values[i])]

DecodeFields(forms, parts) ==   \* further parts are not looked at
  IF Len(parts) < Len(forms) \/ \E i \in DOMAIN forms : DecodeField(forms[i], parts[i]) = {} THEN {}
  ELSE {[i \in DOMAIN forms |-> CHOOSE v \in DecodeField(forms[i], parts[i]) : TRUE]}

EncodeEvent(e) ==
  EncodeParts(<<<<e.kind>>, e.id, Digits(e.tx)>> \o
    IF e.kind \in DOMAIN Whole THEN <<EncodeParts(EncodeFields(Whole[e.kind], e.of))>>
    ELSE EncodeFields(Flat[e.kind], e.of))

DecodeBody(kind, parts) ==
  IF kind \in DOMAIN Whole
  THEN UNION {DecodeFields(Whole[kind], inner) : inner \in UNION {DecodeParts(t) : t \in Required(parts, 4)}}
  ELSE DecodeFields(Flat[kind], SubSeq(parts, 4, Len(parts)))

DecodeEvent(text) ==
  UNION {IF Len(parts) < 3 \/ Len(parts[1]) # 1 THEN {}
         ELSE IF parts[1][1] \notin DOMAIN Whole \cup DOMAIN Flat THEN {}
         ELSE {[kind |-> parts[1][1], id |-> parts[2], tx |-> tx, of |-> values] :
                 tx \in ParseNumber(parts[3]), values \in DecodeBody(parts[1][1], parts)} :
           parts \in DecodeParts(text)}

(***************************************************************************)
(* A record: sequence, checksum, version, and the metadata of its event.   *)
(* The event itself, in a line without a kind or of version 1, is how      *)
(* older logs were written and is still read.                              *)
(***************************************************************************)
Checksum(parts) == <<ToString(parts)>>
Summed(sequence, id, tx, key, payload) ==
  Checksum(<<Digits(sequence), <<"2">>, id, tx, key, payload>>)

EncodeRecord(r) ==
  LET payload == EncodeEvent(r.event)
      tx == Digits(r.event.tx)
      key == IF r.key = {} THEN <<>> ELSE CHOOSE k \in r.key : TRUE
  IN  EncodeParts(<<<<"RGEVENT">>, Digits(r.sequence), Summed(r.sequence, r.event.id, tx, key, payload),
                    <<"2">>, r.event.id, tx, key, payload>>)

DecodeVersioned(parts, expected) ==
  IF Len(parts) < 8 THEN {}
  ELSE {[sequence |-> expected, key |-> IF parts[7] = <<>> THEN {} ELSE {parts[7]}, event |-> e] :
          e \in {f \in DecodeEvent(parts[8]) :
                   /\ ParseNumber(parts[2]) = {expected} /\ parts[4] = <<"2">>
                   /\ parts[3] = Checksum(<<Digits(expected), <<"2">>, parts[5],
                                            parts[6], parts[7], parts[8]>>)
                   /\ f.id = parts[5] /\ ParseNumber(parts[6]) = {f.tx}}}

DecodeLegacy(text, expected) ==
  {[sequence |-> expected, key |-> {}, event |-> e] : e \in DecodeEvent(text)}

DecodeRecord(text, expected) ==
  UNION {CASE Required(parts, 1) # {<<"RGEVENT">>} -> DecodeLegacy(text, expected)
           [] Len(parts) = 4 /\ Required(parts, 2) = {<<"1">>} ->
                IF parts[3] = Checksum(<<parts[4]>>) THEN DecodeLegacy(parts[4], expected) ELSE {}
           [] OTHER -> DecodeVersioned(parts, expected) : parts \in DecodeParts(text)}

CodecInit == record \in Written
CodecNext == record' \in Written

(***************************************************************************)
(* A reader of the log gets what was written or is told that it cannot be  *)
(* read: each record is one line that decodes to itself, at its number and *)
(* no other, but for a key that is empty; every proper beginning of it,    *)
(* alone or with another record run onto it, is refused, and so is an      *)
(* event in the old form when it is cut; a whole record hides what follows *)
(* it (encode_event_record, decode_event_record).                          *)
(***************************************************************************)
RecordsReadBack ==
  LET text == EncodeRecord(record)
      read == [record EXCEPT !.key = @ \ {<<>>}]
      Cut(t) == {SubSeq(t, 1, n) : n \in 0..(Len(t) - 1)}
  IN  /\ DecodeRecord(text, record.sequence) = {read}
      /\ DecodeRecord(text, record.sequence + 1) = {}
      /\ ToSet(text) \cap {"\n", "\r"} = {}
      /\ \A torn \in Cut(text) :
           /\ DecodeRecord(torn, record.sequence) = {}
           /\ torn # <<>> => DecodeRecord(torn \o text, record.sequence) = {}
      /\ DecodeRecord(text \o text, record.sequence) = {read}
      /\ DecodeEvent(EncodeEvent(record.event)) = {record.event}
      /\ \A torn \in Cut(EncodeEvent(record.event)) : DecodeRecord(torn, record.sequence) = {}
=============================================================================
