----------------------------- MODULE Optimizer -----------------------------
(***************************************************************************)
(* internal/optimization/optimizer.go and metrics.go over the router and   *)
(* the prompt cache it owns: cache first, then batch, then a cheaper       *)
(* model, then the direct call.  o.mu is held for every operation.  The    *)
(* router and the cache are also used on their own (cmd/load-test, and the *)
(* package's API): which of the three a run of the system is, is chosen    *)
(* once.                                                                   *)
(***************************************************************************)
EXTENDS BatchRouter, PromptCache

\* What is cached for a request is its prompt.
ASSUME InfoAssumption == \A r \in Request : Info[r].prompt \in Prompt

VARIABLES
  owner,     \* "optimizer", "router" or "cache": who the callers talk to
  metrics    \* the counters of optimization.Metrics

vars == <<routerVars, cacheVars, now, owner, metrics>>

Counters == {"totalRequests", "cacheHits", "batchRequests", "modelSwitches",
             "directRequests"}

Init ==
  /\ now = 0
  /\ owner \in {"optimizer", "router", "cache"}
  /\ RouterInit
  /\ owner # "router" => strategy = "auto"
  /\ CacheInit
  /\ metrics = [c \in Counters |-> 0]

\* The Record methods: the total and one counter each.
Record(c) == metrics' = [k \in Counters |->
                           IF k \in {"totalRequests", c} THEN metrics[k] + 1
                           ELSE metrics[k]]

\* validateInput takes any spelling of the three models.
Valid(q) == q.model \in Model

\* What Optimize tells the router of a request: no intent, no query, a wait of
\* five minutes.
ForRouter(q) == [q EXCEPT !.intent = "general", !.bulk = FALSE, !.wait = 300]

\* Layer 1: a stored prompt at 85% likeness.
HitCache(r) ==
  /\ outcome' = [outcome EXCEPT ![r] = "hit"]
  /\ Record("cacheHits")
  /\ UNCHANGED <<strategy, minSavingsPercent, useDetector,
                 detectorConfidence, queue, recent, arrivals>>

\* Which counter a routed request goes to; the router's error counts as direct.
RecordRoute(r) ==
  CASE outcome'[r] \in {"auto", "always"} -> Record("batchRequests")
    [] outcome'[r] = "switched" -> Record("modelSwitches")
    [] OTHER -> Record("directRequests")

\* Optimize.
Optimize(r) ==
  /\ owner = "optimizer"
  /\ outcome[r] = "new"
  /\ Valid(Info[r])
  /\ IF Similar(Info[r].prompt, Info[r].model, 85, now) # {}
     THEN HitCache(r)
     ELSE /\ MakeRoutingDecision(r, ForRouter(Info[r]))
          /\ RecordRoute(r)
  /\ UNCHANGED <<cacheVars, now, owner>>

\* Optimizer.CacheResponse, for a request that was sent: the prompt is stored,
\* the response is dropped.
StoreResponse(r) ==
  /\ owner = "optimizer"
  /\ outcome[r] \notin {"new", "hit"}
  /\ CachePrompt(Info[r].prompt, Info[r].model, now)
  /\ UNCHANGED <<routerVars, now, owner, metrics>>

\* The router, called by itself.
RouteOnly(r) ==
  /\ owner = "router"
  /\ outcome[r] = "new"
  /\ MakeRoutingDecision(r, Info[r])
  /\ UNCHANGED <<cacheVars, now, owner, metrics>>

Flush ==
  /\ owner # "cache"
  /\ FlushQueue
  /\ UNCHANGED <<cacheVars, now, owner, metrics>>

Configure ==
  /\ owner # "cache"
  /\ \/ \E s \in Strategies : SetStrategy(s)
     \/ \E p \in Percents : SetMinSavingsPercent(p)
     \/ \E p \in Percents : owner = "router" /\ SetDetectorConfidence(p)
     \/ \E on \in BOOLEAN : owner = "router" /\ EnableDetector(on)
  /\ UNCHANGED <<cacheVars, now, owner, metrics>>

\* The cache manager, called by itself: only here are responses stored.
CacheOnly(p, m) ==
  /\ owner = "cache"
  /\ CachePrompt(p, m, now) \/ CacheResponse(p, m, now)
  /\ UNCHANGED <<routerVars, now, owner, metrics>>

Expire ==
  /\ owner # "router"
  /\ ClearExpired(now)
  /\ UNCHANGED <<routerVars, now, owner, metrics>>

Tick ==
  /\ now < MaxTime
  /\ now' = now + 1
  /\ UNCHANGED <<routerVars, cacheVars, owner, metrics>>

Next ==
  \/ \E r \in Request : Optimize(r) \/ StoreResponse(r) \/ RouteOnly(r)
  \/ \E p \in Prompt, m \in Model : CacheOnly(p, m)
  \/ Flush \/ Configure \/ Expire \/ Tick

Spec == Init /\ [][Next]_vars
-----------------------------------------------------------------------------
(* What must hold                                                          *)

TypeOK ==
  /\ RouterTypeOK
  /\ CacheTypeOK
  /\ owner \in {"optimizer", "router", "cache"}
  /\ metrics \in [Counters -> Nat]

\* The counters account for the requests: the strategies add up to the total,
\* and the batched ones are those queued and those flushed, over hits, errors
\* and changes of strategy.
MetricsAccount ==
  owner = "optimizer" =>
    /\ metrics["totalRequests"] = Cardinality({r \in Request : outcome[r] # "new"})
    /\ metrics["totalRequests"] = metrics["cacheHits"] + metrics["batchRequests"]
                              + metrics["modelSwitches"] + metrics["directRequests"]
    /\ metrics["batchRequests"] =
         Len(queue) + Cardinality({r \in Request : outcome[r] = "flushed"})

\* What GetCacheOptimizations suggests is what a lookup would find: never an
\* expired prompt, although expired ones stay in the map until somebody clears
\* them, and never one of another model.
SuggestionsAreLive ==
  \A p \in Prompt, m \in Model :
    /\ Usable(p, m, now) \subseteq Similar(p, m, 85, now)
    /\ \A h \in Similar(p, m, 85, now) : Live(prompts[h], now)

\* Eviction keeps the cache of a router or an optimizer within its size: they
\* store prompts only.  Where responses are stored too it need not: responses
\* alone are never evicted, since the search starts from the zero time, and
\* each prompt stored later removes one of them and stays.
PromptsWithinSize == owner # "cache" => Cardinality(DOMAIN prompts) <= MaxCacheSize

\* The optimizer's books and its cache together.
OptimizerIsSound == TypeOK /\ MetricsAccount /\ SuggestionsAreLive /\ PromptsWithinSize
=============================================================================
