--------------------------- MODULE CachesAndGraph ---------------------------
(***************************************************************************)
(* The pipeline's cache layers and the code graph the indexer writes.  The *)
(* layers only read the graph, and of it only whether a query "who calls   *)
(* f" has an answer, so a behaviour runs one of the two: the graph, or the *)
(* caches over a graph whose answers change at any time.                   *)
(***************************************************************************)
EXTENDS CodeGraph, ResponseCache

CONSTANT AsksFor    \* the function whose callers a query asks for, or "none"

ASSUME AsksAssumption == DOMAIN AsksFor = Query

VARIABLE part       \* which of the two this behaviour runs

vars == <<part, graphVars, graphAnswers, cacheLayerVars>>

\* isGraphQuery, extractEntityName and lookupGraph: a query that names no
\* function, or one without callers, has no answer.
Answerable(callers) == {q \in Query : AsksFor[q] # "none" /\ callers[q] # {}}
CallersIn == [q \in Query |-> FindCallers(AsksFor[q])]

Init ==
  /\ part \in {"graph", "caches"}
  /\ GraphInit /\ LayerInit
  /\ graphAnswers = {}

GraphStep ==
  /\ part = "graph"
  /\ GraphNext
  /\ graphAnswers' = Answerable(CallersIn')
  /\ UNCHANGED <<part, cacheLayerVars>>

GraphChanges ==
  /\ part = "caches"
  /\ \E callers \in [Query -> {{}, Query}] : graphAnswers' = Answerable(callers)
  /\ UNCHANGED <<part, graphVars, cacheLayerVars>>

CacheStep ==
  /\ part = "caches"
  /\ LayerNext
  /\ UNCHANGED <<part, graphVars, graphAnswers>>

Next == GraphStep \/ GraphChanges \/ CacheStep

Spec == Init /\ [][Next]_vars

TypeOK ==
  /\ LayerTypeOK
  /\ nodes \subseteq Nat \X STRING
  /\ graphAnswers \subseteq Query

\* The graph the caches answer from, over failing and dying indexers.
GraphIsSound == TypeOK /\ TrackedIsStored /\ CheckedEdgesHaveEnds
=============================================================================
