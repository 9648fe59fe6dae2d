--------------------------- MODULE CognitiveCache ---------------------------
(***************************************************************************)
(* The cognitive cache: entries under permission aware keys, the index of  *)
(* what each entry depends on, summaries that go stale, and the working    *)
(* set of an agent.  The six caches (entities, evidence packs, paths,      *)
(* memories, neighbourhoods, contexts) are one code over one kind of key;  *)
(* the cache an entry is in is part of its key here, as its namespace is.  *)
(*                                                                         *)
(* The crate leaves it to its caller to track what it inserts and to drop  *)
(* what the index names when something changes; the actions are what such  *)
(* a caller does under the exclusive borrow each of these calls takes.     *)
(***************************************************************************)
EXTENDS Naturals, Sequences, SequencesExt

CONSTANTS
  Key,       \* cache, scope, subject, times and policy epoch of an entry
  Thing,     \* entities, assertions and sources
  Assertion, \* those of them that are assertions
  Reads,     \* what an entry or a summary may have been read from
  Summary,   \* summaries tracked
  Capacity,  \* of the working set
  MaxClock   \* bound of the exploration: changes of things

VARIABLES
  entries,      \* cached_at and the things read, of each cached key
  index,        \* by_entity, by_assertion and by_source: pairs of thing and key
  tracked,      \* the dependencies last tracked of each key
  summaries,    \* of each one, the assertions that index it and whether it is stale
  working_set,  \* hot items of an agent, the latest last
  changed,      \* when each thing last changed
  clock

cacheVars == <<entries, index, tracked, summaries, working_set, changed, clock>>

KeysFor(thing) == {k \in Key : <<thing, k>> \in index}

Track(key, things) ==
  /\ index' = index \cup (things \X {key})
  /\ tracked' = [k \in DOMAIN tracked \cup {key} |-> IF k = key THEN things ELSE tracked[k]]

Fill(key, things) ==
  /\ entries' = [k \in DOMAIN entries \cup {key} |->
                   IF k = key THEN [at |-> clock, on |-> things] ELSE entries[k]]
  /\ Track(key, things)
  /\ UNCHANGED <<summaries, working_set, changed, clock>>

InvalidateKeys(keys) == entries' = [k \in DOMAIN entries \ keys |-> entries[k]]

MarkChanged(assertion) ==
  [s \in DOMAIN summaries |->
     IF assertion \in summaries[s].on THEN [summaries[s] EXCEPT !.stale = TRUE]
     ELSE summaries[s]]

(***************************************************************************)
(* A change of one thing, and a contradiction between two assertions,      *)
(* whose affected keys are those of either.                                *)
(***************************************************************************)
Change(thing) ==
  /\ clock < MaxClock
  /\ clock' = clock + 1
  /\ changed' = [changed EXCEPT ![thing] = clock + 1]
  /\ InvalidateKeys(KeysFor(thing))
  /\ summaries' = IF thing \in Assertion THEN MarkChanged(thing) ELSE summaries
  /\ UNCHANGED <<index, tracked, working_set>>

\* A slip the properties must notice: only keys that read both assertions.
AffectedByBoth(a, b) == KeysFor(a) \cap KeysFor(b)

AffectedKeys(a, b) == KeysFor(a) \cup KeysFor(b)

Contradict(a, b) ==
  /\ clock < MaxClock
  /\ clock' = clock + 1
  /\ changed' = [changed EXCEPT ![a] = clock + 1, ![b] = clock + 1]
  /\ InvalidateKeys(AffectedKeys(a, b))
  /\ UNCHANGED <<index, tracked, summaries, working_set>>

TrackSummary(s, things) ==  \* the index keeps what it depended on before
  /\ LET before == IF s \in DOMAIN summaries THEN summaries[s].on ELSE {}
     IN  summaries' = [t \in DOMAIN summaries \cup {s} |->
                         IF t = s THEN [on |-> before \cup (things \cap Assertion), stale |-> FALSE]
                         ELSE summaries[t]]
  /\ UNCHANGED <<entries, index, tracked, working_set, changed, clock>>

Remember(item) ==
  LET others == SelectSeq(working_set, LAMBDA x : x # item)
      latest == IF Capacity = 0 THEN others ELSE Append(others, item)
      excess == IF Len(latest) > Capacity THEN Len(latest) - Capacity ELSE 0
  IN  /\ working_set' = SubSeq(latest, excess + 1, Len(latest))
      /\ UNCHANGED <<entries, index, tracked, summaries, changed, clock>>

CacheInit ==
  /\ entries = <<>> /\ index = {} /\ tracked = <<>> /\ summaries = <<>>
  /\ working_set = <<>> /\ changed = [t \in Thing |-> 0] /\ clock = 0

CacheNext ==
  \/ \E k \in Key, things \in Reads : Fill(k, things)
  \/ \E t \in Thing : Change(t) \/ Remember(t)
  \/ \E a, b \in Assertion : a # b /\ Contradict(a, b)
  \/ \E s \in Summary, things \in Reads : TrackSummary(s, things)

(***************************************************************************)
(* Nothing the caches still offer was read before a thing it was read from *)
(* changed, however often a key was filled again with other dependencies;  *)
(* and the index names every key for each thing it is tracked to depend on *)
(* (TemporalInvalidationIndex::track, invalidate_keys).                    *)
(***************************************************************************)
CachedIsFresh ==
  /\ \A k \in DOMAIN entries : \A t \in entries[k].on : changed[t] <= entries[k].at
  /\ \A k \in DOMAIN tracked : \A t \in tracked[k] : k \in KeysFor(t)

(***************************************************************************)
(* The working set holds no item twice and never more than its capacity,   *)
(* and what it drops is the item remembered longest ago: an item stays     *)
(* through every step but a newer one that found the set full              *)
(* (remember_recent).                                                      *)
(***************************************************************************)
WorkingSetIsRecent ==
  [][/\ Len(working_set') <= Capacity
     /\ \A i, j \in DOMAIN working_set' : working_set'[i] = working_set'[j] => i = j
     /\ \A i \in DOMAIN working_set :
          working_set[i] \notin ToSet(working_set') => i = 1 /\ Len(working_set) = Capacity
    ]_cacheVars
=============================================================================
