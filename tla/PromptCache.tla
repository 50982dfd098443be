---------------------------- MODULE PromptCache ----------------------------
(***************************************************************************)
(* internal/batch/cache_aware.go: the CacheManager keeps prompts and       *)
(* responses under the hash of their content.  A hash stands for its       *)
(* content; how alike two contents are is a constant, in percent.          *)
(* LastAccessedAt is set with CreatedAt and never again, so one time is    *)
(* kept for both.                                                          *)
(***************************************************************************)
EXTENDS Integers, FiniteSets

CONSTANTS
  Prompt,        \* contents
  Model,         \* spellings of model names
  Likeness,      \* calculateSimilarity of two contents, in percent
  MaxCacheSize,  \* cm.maxCacheSize
  CacheTTL       \* cm.cacheTTL, in ticks

ASSUME CacheAssumption ==
  /\ IsFiniteSet(Prompt)
  /\ Likeness \in [Prompt \X Prompt -> 0..100]
  /\ \A p \in Prompt : Likeness[<<p, p>>] = 100
  /\ MaxCacheSize \in Nat \ {0}
  /\ CacheTTL \in Nat \ {0}

VARIABLES
  prompts,     \* cm.prompts, a map from hashes to entries
  responses    \* cm.responses

cacheVars == <<prompts, responses>>

Entry == [model : Model, at : Nat]

CacheInit ==
  /\ prompts = [h \in {} |-> 0]
  /\ responses = [h \in {} |-> 0]

Without(f, h) == [k \in DOMAIN f \ {h} |-> f[k]]
With(f, h, e) == [k \in DOMAIN f \cup {h} |-> IF k = h THEN e ELSE f[k]]
Size(f, g) == Cardinality(DOMAIN f) + Cardinality(DOMAIN g)

\* The oldest hashes of a map, in whatever order the map is visited.
Oldest(f) == {h \in DOMAIN f : \A k \in DOMAIN f : f[h].at <= f[k].at}

\* The hashes evictIfNeeded may choose: an oldest prompt, or an oldest response
\* older than it.  Without prompts the zero time is older than every response,
\* and none is chosen.
Victims(f, g) ==
  {h \in Oldest(f) : \A k \in DOMAIN g : ~(g[k].at < f[h].at)}
  \cup {k \in Oldest(g) : DOMAIN f # {} /\ \A h \in Oldest(f) : g[k].at < f[h].at}

\* evictIfNeeded, after a store: one hash at most leaves, out of both maps.
EvictIfNeeded(f, g) ==
  IF Size(f, g) > MaxCacheSize /\ Victims(f, g) # {}
  THEN \E h \in Victims(f, g) :
         /\ prompts' = Without(f, h)
         /\ responses' = Without(g, h)
  ELSE prompts' = f /\ responses' = g

CachePrompt(h, m, t) ==
  EvictIfNeeded(With(prompts, h, [model |-> m, at |-> t]), responses)

CacheResponse(h, m, t) ==
  EvictIfNeeded(prompts, With(responses, h, [model |-> m, at |-> t]))

\* time.Since(CreatedAt) < cacheTTL
Live(e, t) == t - e.at < CacheTTL

\* ClearExpiredEntries keeps an entry whose age is the TTL exactly.
ClearExpired(t) ==
  LET Kept(f) == [h \in {k \in DOMAIN f : t - f[k].at <= CacheTTL} |-> f[h]]
  IN prompts' = Kept(prompts) /\ responses' = Kept(responses)

\* FindSimilarPrompt: the same content, else any live prompt of the model that
\* is alike enough, in map order.
Similar(p, m, threshold, t) ==
  LET exact == {h \in DOMAIN prompts \cap {p} :
                  prompts[h].model = m /\ Live(prompts[h], t)}
  IN IF exact # {} THEN exact
     ELSE {h \in DOMAIN prompts :
             /\ prompts[h].model = m
             /\ Live(prompts[h], t)
             /\ Likeness[<<h, p>>] >= threshold}

\* findSimilarPromptLocked asks nothing of the age, so an expired entry of the
\* same content hides a live one that is alike.
SimilarLocked(p, m, threshold) ==
  LET exact == {h \in DOMAIN prompts \cap {p} : prompts[h].model = m}
  IN IF exact # {} THEN exact
     ELSE {h \in DOMAIN prompts :
             prompts[h].model = m /\ Likeness[<<h, p>>] >= threshold}

\* Faulty variant: the age of what findSimilarPromptLocked finds is not read.
UsableOfAnyAge(p, m, t) == SimilarLocked(p, m, 90)

\* GetCacheOptimizations: CachedPromptHash, from 90% on and after a second look
\* at the age.
Usable(p, m, t) == {h \in SimilarLocked(p, m, 90) : Live(prompts[h], t)}
-----------------------------------------------------------------------------
CacheTypeOK ==
  /\ DOMAIN prompts \subseteq Prompt /\ prompts \in [DOMAIN prompts -> Entry]
  /\ DOMAIN responses \subseteq Prompt /\ responses \in [DOMAIN responses -> Entry]
=============================================================================
