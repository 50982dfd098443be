--------------------------- MODULE ResponseCache ---------------------------
(***************************************************************************)
(* internal/cache (semantic_cache.go, layer_integration.go, graph_layer.go)*)
(* under internal/optimization/pipeline.go: a query goes through the exact *)
(* cache, the semantic cache and the graph, and is answered by the         *)
(* optimizer's decision when none of them has it.  The key of a request is *)
(* the hash of its text, so the text stands for the key.  The exact cache    *)
(* has no mutex: the layer serves one request at a time, as everything that *)
(* uses it does.                                                           *)
(***************************************************************************)
EXTENDS Integers, FiniteSets

CONSTANTS
  Query,             \* texts of requests
  Close,             \* CosineSimilarity >= similarityThreshold, with a rank:
                     \* 0 is below the threshold, 2 nearer than 1
  SemanticEnabled,   \* cfg.Optimizations.SemanticCache.Enabled
  MaxEntries,        \* c.maxCacheSize: Validate takes any, and left out it is 0
  EntryTTL,          \* entry.TTL, in ticks
  MaxClock           \* bound of the clock

ASSUME ResponseCacheAssumption ==
  /\ IsFiniteSet(Query)
  /\ Close \in [Query \X Query -> 0..3]
  /\ \A q \in Query : Close[<<q, q>>] = 3
  /\ SemanticEnabled \in BOOLEAN
  /\ MaxEntries \in Int
  /\ EntryTTL \in Nat \ {0}
  /\ MaxClock \in Nat

VARIABLES
  graphAnswers,   \* the queries lookupGraph can answer, kept elsewhere
  clock,
  exact,      \* l.exactCache: query -> response
  entries,    \* c.entries: query -> [response, at]
  answer      \* the last PipelineResponse: [intent, source, content]

cacheLayerVars == <<clock, exact, entries, answer>>

\* "ruling" is the text of an optimization decision, "empty" the empty string.
Response == {"claude", "ruling", "empty"}
Intents == {"lookup", "cache_bypass"}
SafeIntents == {"lookup"}   \* shouldUseCacheForIntent
Sources == {"none", "exact_cache", "semantic_cache", "graph", "optimizer"}
Answers == [intent : Intents, source : Sources,
            content : Response \cup {"graph", "none"}]

NoMap == [q \in {} |-> 0]

LayerInit ==
  /\ clock = 0
  /\ exact = NoMap /\ entries = NoMap
  /\ answer = [intent |-> "lookup", source |-> "none", content |-> "none"]
-----------------------------------------------------------------------------
Put(f, k, v) == [q \in DOMAIN f \cup {k} |-> IF q = k THEN v ELSE f[q]]
Drop(f, S) == [q \in DOMAIN f \ S |-> f[q]]

\* evictOldest: by the time of storing, in map order among equals.
Evictable(f) == {k \in DOMAIN f : \A j \in DOMAIN f : f[k].at <= f[j].at}

\* A full cache drops an entry, even when the key is already in it; one that is
\* full while empty, with a limit of 0, has none to drop.
Room ==
  IF Cardinality(DOMAIN entries) >= MaxEntries /\ DOMAIN entries # {}
  THEN {Drop(entries, {k}) : k \in Evictable(entries)}
  ELSE {entries}

\* What SemanticCache.Store leaves: an empty response is refused before
\* anything is touched.
Stored(q, r) ==
  IF r = "empty" THEN {entries}
  ELSE {Put(f, q, [response |-> r, at |-> clock]) : f \in Room}

\* Faulty variant: the semantic cache is filled for storable answers, the exact
\* one only for new queries.
LayerStoreNewOnly(q, r) ==
  /\ exact' = IF q \in DOMAIN exact THEN exact ELSE Put(exact, q, r)
  /\ entries' \in Stored(q, r)

\* Layer.Store: the exact cache takes everything, the semantic cache's error is
\* dropped.
LayerStore(q, r) ==
  /\ exact' = Put(exact, q, r)
  /\ entries' \in Stored(q, r)

\* SemanticCache.Lookup: the nearest entry that is not expired.
Fresh == {k \in DOMAIN entries : clock - entries[k].at <= EntryTTL}
Best(q) == {k \in Fresh : Close[<<q, k>>] > 0 /\ \A j \in Fresh : Close[<<q, k>>] >= Close[<<q, j>>]}
SemanticHit(q) == SemanticEnabled /\ Best(q) # {}

Answer(i, s, c) == answer' = [intent |-> i, source |-> s, content |-> c]
-----------------------------------------------------------------------------
(* Process, by the layer that answers                                      *)

\* LookupExact asks neither the intent nor the age.
ProcessExact(q, i) ==
  /\ q \in DOMAIN exact
  /\ Answer(i, "exact_cache", exact[q])
  /\ UNCHANGED <<clock, exact, entries>>

\* A semantic hit, for the intents taken for safe (the goroutine it starts only
\* counts it).
ProcessSemantic(q, i) ==
  /\ q \notin DOMAIN exact
  /\ i \in SafeIntents
  /\ SemanticHit(q)
  /\ \E k \in Best(q) : Answer(i, "semantic_cache", entries[k].response)
  /\ UNCHANGED <<clock, exact, entries>>

Missed(q, i) == q \notin DOMAIN exact /\ ~(i \in SafeIntents /\ SemanticHit(q))

ProcessGraph(q, i) ==
  /\ Missed(q, i)
  /\ q \in graphAnswers
  /\ Answer(i, "graph", "graph")
  /\ UNCHANGED <<clock, exact, entries>>

\* No layer has it: the text of the decision is answered, and stored.
ProcessOptimizer(q, i) ==
  /\ Missed(q, i)
  /\ q \notin graphAnswers
  /\ Answer(i, "optimizer", "ruling")
  /\ LayerStore(q, "ruling")
  /\ UNCHANGED clock

\* CacheGraphLayer.Store by a caller that has an answer of Claude's.
StoreAnswer(q, r) ==
  /\ r \in {"claude", "empty"}
  /\ LayerStore(q, r)
  /\ UNCHANGED <<clock, answer>>

\* Layer.Prune reaches the semantic cache only.
Prune ==
  /\ entries' = Drop(entries, {k \in DOMAIN entries : clock - entries[k].at > EntryTTL})
  /\ UNCHANGED <<clock, exact, answer>>

\* Layer.Clear.
ClearCaches ==
  /\ exact' = NoMap /\ entries' = NoMap
  /\ UNCHANGED <<clock, answer>>

ClockTick ==
  /\ clock < MaxClock
  /\ clock' = clock + 1
  /\ UNCHANGED <<exact, entries, answer>>

LayerNext ==
  \/ \E q \in Query, i \in Intents :
       ProcessExact(q, i) \/ ProcessSemantic(q, i) \/ ProcessGraph(q, i)
         \/ ProcessOptimizer(q, i)
  \/ \E q \in Query, r \in Response : StoreAnswer(q, r)
  \/ Prune \/ ClearCaches \/ ClockTick

-----------------------------------------------------------------------------
(* What must hold                                                          *)

LayerTypeOK ==
  /\ clock \in Nat
  /\ DOMAIN exact \subseteq Query /\ exact \in [DOMAIN exact -> Response]
  /\ DOMAIN entries \subseteq Query
  /\ entries \in [DOMAIN entries -> [response : Response \ {"empty"}, at : Nat]]
  /\ answer \in Answers

\* Both caches give the same answer to a query: whatever the semantic cache
\* has for it is what the exact cache has, unless an empty response, which the
\* semantic cache refuses, came after it.
CachesAgree ==
  \A q \in DOMAIN entries :
    /\ q \in DOMAIN exact
    /\ exact[q] \in {entries[q].response, "empty"}

\* The semantic cache stays within its limit, although eviction is decided
\* before the key is looked up; with a limit below 1 it holds one entry.
EntryLimit == IF MaxEntries < 1 THEN 1 ELSE MaxEntries
SemanticBound == Cardinality(DOMAIN entries) <= EntryLimit

\* Filled, overwritten, evicted and cleared separately, the two caches agree and
\* the limited one stays within its limit.
CachesAreSound == CachesAgree /\ SemanticBound
=============================================================================
