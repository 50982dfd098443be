------------------------ MODULE CachesAndGraphProofs ------------------------
(***************************************************************************)
(* Proofs about CachesAndGraph, for any queries, likeness, limits, files   *)
(* and number of indexers.  The two caches agree because whatever enters   *)
(* one of them goes through LayerStore; the graph is sound although a file *)
(* is written row by row, because what a worker has behind it is in the    *)
(* nodes table or was there when Clear emptied it.                         *)
(***************************************************************************)
EXTENDS CachesAndGraph, FiniteSetTheorems, TLAPS

Entity == Nat \X STRING
Stage == {"none", "nodes", "edges"}
Job == [stage : Stage, entities : SUBSET Entity, calls : SUBSET (Entity \X Entity),
        all : SUBSET Entity]
Row == [response : Response \ {"empty"}, at : Nat]

\* The rows a worker has behind it were written; with the last one it goes on to
\* the edges.
WrittenSoFar ==
  \A w \in Worker :
    /\ job[w].all \ job[w].entities \subseteq nodes \cup deleted
    /\ job[w].stage = "edges" => job[w].entities = {}

GraphInv ==
  /\ text \in Text
  /\ job \in [Worker -> Job]
  /\ nodes \subseteq Entity
  /\ WrittenSoFar
  /\ TrackedIsStored
  /\ CheckedEdgesHaveEnds

CacheInv ==
  /\ LayerTypeOK
  /\ CachesAgree
  /\ SemanticBound

Inv == GraphInv /\ CacheInv /\ graphAnswers \subseteq Query
-----------------------------------------------------------------------------
(* The parsers and the two maps                                            *)

\* What a parser makes of a file are lines and names.
LEMMA ParsedType ==
  ASSUME NEW c \in Text
  PROVE  /\ Entities(c) \subseteq Entity
         /\ Calls(c) \subseteq Entity \X Entity
<1>1. Len(c) \in Nat /\ \A l \in 1..Len(c) : c[l].name \in STRING
  <2>1. c \in Seq(Line)
    BY GraphAssumption
  <2>2. Len(c) \in Nat /\ \A l \in 1..Len(c) : c[l] \in Line
    BY <2>1
  <2> QED BY <2>2 DEF Line
<1>2. Entities(c) \subseteq Entity
  BY <1>1 DEF Entities, Entity
<1>3. Functions(c) \subseteq Entity
  BY <1>2 DEF Functions
<1>4. Calls(c) \subseteq Functions(c) \X Functions(c)
  BY DEF Calls
<1> QED BY <1>2, <1>3, <1>4

\* Parsed is the job of a worker that has written nothing.
LEMMA ParsedIsJob ==
  ASSUME NEW c \in Text
  PROVE  /\ Parsed(c) \in Job
         /\ Parsed(c).all = Parsed(c).entities
         /\ Parsed(c).stage = "nodes"
  BY ParsedType DEF Parsed, Job, Stage

\* A map with a key put in, or keys dropped.
LEMMA PutIs ==
  ASSUME NEW T, NEW f, f \in [DOMAIN f -> T], NEW k, NEW v \in T
  PROVE  /\ DOMAIN Put(f, k, v) = DOMAIN f \cup {k}
         /\ Put(f, k, v)[k] = v
         /\ \A q \in DOMAIN f : q # k => Put(f, k, v)[q] = f[q]
         /\ Put(f, k, v) \in [DOMAIN f \cup {k} -> T]
  BY DEF Put

LEMMA DropIs ==
  ASSUME NEW T, NEW f, f \in [DOMAIN f -> T], NEW S
  PROVE  /\ DOMAIN Drop(f, S) = DOMAIN f \ S
         /\ \A q \in DOMAIN f \ S : Drop(f, S)[q] = f[q]
         /\ Drop(f, S) \in [DOMAIN f \ S -> T]
  BY DEF Drop
-----------------------------------------------------------------------------
(* Init                                                                    *)

\* The limit that holds, whatever the configured one.
LEMMA LimitIs ==
  MaxEntries \in Int /\ EntryLimit \in Nat /\ EntryLimit >= 1 /\ EntryLimit >= MaxEntries
BY ResponseCacheAssumption DEF EntryLimit

LEMMA InitInv == Init => Inv
<1> SUFFICES ASSUME Init PROVE Inv
  OBVIOUS
<1>1. GraphInv
  BY DEF Init, GraphInit, GraphInv, NoJob, Job, Stage, WrittenSoFar, TrackedIsStored,
         CheckedEdgesHaveEnds
<1>2. LayerTypeOK /\ CachesAgree
  BY DEF Init, LayerInit, NoMap, LayerTypeOK, CachesAgree, Answers, Intents, Sources, Response
<1>3. DOMAIN entries = {}
  BY DEF Init, LayerInit, NoMap
<1>4. SemanticBound
  BY <1>3, FS_EmptySet, LimitIs DEF SemanticBound
<1> QED BY <1>1, <1>2, <1>4 DEF Init, Inv, CacheInv
-----------------------------------------------------------------------------
(* The graph                                                               *)

\* A file is read and parsed: by an indexer, by the watcher, after a change.
LEMMA ReadStep ==
  ASSUME GraphInv, NEW w \in Worker, job' = [job EXCEPT ![w] = Parsed(text)],
         UNCHANGED <<text, nodes, edges, tracked, loose, deleted>>
  PROVE  GraphInv'
<1>1. /\ Parsed(text) \in Job /\ Parsed(text).all = Parsed(text).entities
      /\ Parsed(text).stage = "nodes"
  BY ParsedIsJob DEF GraphInv
<1>2. job' \in [Worker -> Job]
  BY <1>1 DEF GraphInv
<1>3. \A v \in Worker : job'[v] = IF v = w THEN Parsed(text) ELSE job[v]
  BY DEF GraphInv
<1>4. WrittenSoFar'
  BY <1>1, <1>3 DEF GraphInv, WrittenSoFar
<1> QED BY <1>2, <1>4 DEF GraphInv, TrackedIsStored, CheckedEdgesHaveEnds

\* A row goes in, or its id is there already and the worker gives up.
LEMMA CreateNodeStep ==
  ASSUME GraphInv, NEW w \in Worker, NEW e \in job[w].entities, CreateNode(w, e)
  PROVE  GraphInv'
<1>1. job[w] \in Job /\ e \in Entity /\ NoJob \in Job
  BY DEF GraphInv, Job, Stage, NoJob
<1>2. CASE e \in nodes
  <2>1. job' = [job EXCEPT ![w] = NoJob]
        /\ UNCHANGED <<text, nodes, edges, tracked, loose, deleted>>
    BY <1>2 DEF CreateNode
  <2>2. job' \in [Worker -> Job] /\ \A v \in Worker : job'[v] = IF v = w THEN NoJob ELSE job[v]
    BY <1>1, <2>1 DEF GraphInv
  <2>3. WrittenSoFar'
    BY <2>1, <2>2 DEF GraphInv, WrittenSoFar, NoJob
  <2> QED BY <2>1, <2>2, <2>3 DEF GraphInv, TrackedIsStored, CheckedEdgesHaveEnds
<1>3. CASE e \notin nodes
  <2>1. /\ nodes' = nodes \cup {e}
        /\ job' = [job EXCEPT ![w].entities = @ \ {e}]
        /\ UNCHANGED <<text, edges, tracked, loose, deleted>>
    BY <1>3 DEF CreateNode
  <2>2. /\ job' \in [Worker -> Job]
        /\ \A v \in Worker : v # w => job'[v] = job[v]
        /\ job'[w].all = job[w].all /\ job'[w].stage = job[w].stage
        /\ job'[w].entities = job[w].entities \ {e}
    BY <1>1, <2>1 DEF GraphInv, Job
  <2>3. WrittenSoFar'
    BY <2>1, <2>2 DEF GraphInv, WrittenSoFar
  <2> QED BY <1>1, <2>1, <2>2, <2>3 DEF GraphInv, TrackedIsStored, CheckedEdgesHaveEnds
<1> QED BY <1>2, <1>3

\* An edge: with the check on, both its ends are there.
LEMMA CreateEdgeStep ==
  ASSUME GraphInv, NEW w \in Worker, NEW c \in job[w].calls, NEW enforced \in BOOLEAN,
         CreateEdge(w, c, enforced)
  PROVE  GraphInv'
<1>1. job[w] \in Job
  BY DEF GraphInv
<1>2. /\ job' \in [Worker -> Job]
      /\ \A v \in Worker : /\ job'[v].all = job[v].all /\ job'[v].stage = job[v].stage
                           /\ job'[v].entities = job[v].entities
  BY <1>1 DEF GraphInv, Job, CreateEdge
<1>3. UNCHANGED <<text, nodes, tracked, deleted>>
  BY DEF CreateEdge
<1>4. WrittenSoFar' /\ TrackedIsStored'
  BY <1>2, <1>3 DEF GraphInv, WrittenSoFar, TrackedIsStored
<1>5. CheckedEdgesHaveEnds'
  BY <1>3 DEF GraphInv, CreateEdge, CheckedEdgesHaveEnds
<1> QED BY <1>2, <1>3, <1>4, <1>5 DEF GraphInv

\* The rows of a file are all in.
LEMMA DoneStep ==
  ASSUME GraphInv, NEW w \in Worker, NodesDone(w) \/ Track(w)
  PROVE  GraphInv'
<1>1. job[w] \in Job /\ NoJob \in Job
  BY DEF GraphInv, Job, Stage, NoJob
<1>2. job' \in [Worker -> Job]
  BY <1>1 DEF GraphInv, Job, Stage, NodesDone, Track
<1>3. UNCHANGED <<text, nodes, edges, loose, deleted>>
  BY DEF NodesDone, Track
<1>4. WrittenSoFar'
  BY <1>1, <1>3 DEF GraphInv, Job, WrittenSoFar, NoJob, NodesDone, Track
<1>5. TrackedIsStored'
  BY <1>3 DEF GraphInv, WrittenSoFar, TrackedIsStored, NodesDone, Track
<1> QED BY <1>2, <1>3, <1>4, <1>5 DEF GraphInv, CheckedEdgesHaveEnds

\* Saves of the file, Clear and restarts of the process.
LEMMA OutsideStep ==
  ASSUME GraphInv, (\E c \in Text : Edit(c)) \/ ClearGraph \/ Restart
  PROVE  GraphInv'
<1>1. CASE \E c \in Text : Edit(c)
  BY <1>1 DEF Edit, GraphInv, WrittenSoFar, TrackedIsStored, CheckedEdgesHaveEnds
<1>2. CASE ClearGraph
  BY <1>2 DEF ClearGraph, GraphInv, WrittenSoFar, TrackedIsStored, CheckedEdgesHaveEnds
<1>3. CASE Restart
  BY <1>3 DEF Restart, GraphInv, WrittenSoFar, TrackedIsStored, CheckedEdgesHaveEnds,
              NoJob, Job, Stage
<1> QED BY <1>1, <1>2, <1>3

LEMMA GraphNextInv == GraphInv /\ GraphNext => GraphInv'
<1> SUFFICES ASSUME GraphInv, GraphNext PROVE GraphInv'
  OBVIOUS
<1>1. ASSUME NEW w \in Worker, Read(w) PROVE GraphInv'
  BY <1>1, ReadStep DEF Read
<1>2. CASE Watch \/ Debounced
  BY <1>2, ReadStep, GraphAssumption DEF Watch, Debounced
<1>3. ASSUME NEW w \in Worker, NodesDone(w) \/ Track(w) PROVE GraphInv'
  BY <1>3, DoneStep
<1>4. ASSUME NEW w \in Worker, NEW e \in job[w].entities, CreateNode(w, e) PROVE GraphInv'
  BY <1>4, CreateNodeStep
<1>5. ASSUME NEW w \in Worker, NEW c \in job[w].calls, NEW b \in BOOLEAN, CreateEdge(w, c, b)
      PROVE  GraphInv'
  BY <1>5, CreateEdgeStep
<1>6. CASE (\E c \in Text : Edit(c)) \/ ClearGraph \/ Restart
  BY <1>6, OutsideStep
<1> QED BY <1>1, <1>2, <1>3, <1>4, <1>5, <1>6 DEF GraphNext
-----------------------------------------------------------------------------
(* The caches                                                              *)

LEMMA EntriesFinite ==
  ASSUME LayerTypeOK
  PROVE  IsFiniteSet(DOMAIN entries) /\ Cardinality(DOMAIN entries) \in Nat
  BY ResponseCacheAssumption, FS_Subset, FS_CardinalityType DEF LayerTypeOK

\* Making room never leaves more than one place short of the limit.
LEMMA RoomFor ==
  ASSUME CacheInv, NEW f \in Room
  PROVE  /\ DOMAIN f \subseteq DOMAIN entries
         /\ \A k \in DOMAIN f : f[k] = entries[k]
         /\ f \in [DOMAIN f -> Row]
         /\ IsFiniteSet(DOMAIN f) /\ Cardinality(DOMAIN f) \in Nat
         /\ Cardinality(DOMAIN f) < EntryLimit
<1>1. IsFiniteSet(DOMAIN entries) /\ Cardinality(DOMAIN entries) \in Nat
  BY EntriesFinite DEF CacheInv
<1>2. entries \in [DOMAIN entries -> Row]
  BY DEF CacheInv, LayerTypeOK, Row
<1>3. CASE Cardinality(DOMAIN entries) >= MaxEntries /\ DOMAIN entries # {}
  <2>1. PICK k \in DOMAIN entries : f = Drop(entries, {k})
    BY <1>3 DEF Room, Evictable
  <2>2. /\ DOMAIN f = DOMAIN entries \ {k}
        /\ \A q \in DOMAIN f : f[q] = entries[q]
        /\ f \in [DOMAIN f -> Row]
    <3>1. /\ DOMAIN Drop(entries, {k}) = DOMAIN entries \ {k}
          /\ \A q \in DOMAIN entries \ {k} : Drop(entries, {k})[q] = entries[q]
          /\ Drop(entries, {k}) \in [DOMAIN entries \ {k} -> Row]
      BY <1>2, DropIs
    <3> QED BY <2>1, <3>1
  <2>3. IsFiniteSet(DOMAIN f) /\ Cardinality(DOMAIN f) = Cardinality(DOMAIN entries) - 1
    BY <1>1, <2>2, FS_RemoveElement
  <2>4. Cardinality(DOMAIN f) \in Nat
    BY <2>3, FS_CardinalityType
  <2> QED BY <1>1, <2>2, <2>3, <2>4, LimitIs DEF CacheInv, SemanticBound
<1>4. CASE ~(Cardinality(DOMAIN entries) >= MaxEntries /\ DOMAIN entries # {})
  <2>1. f = entries
    BY <1>4 DEF Room
  <2>2. DOMAIN entries = {} => Cardinality(DOMAIN entries) = 0
    BY FS_EmptySet
  <2> DEFINE n == Cardinality(DOMAIN entries)
  <2>3. n \in Nat /\ (n = 0 \/ ~(n >= MaxEntries))
    BY <1>1, <1>4, <2>2, Zenon
  <2>4. n < EntryLimit
    <3> HIDE DEF n
    <3> QED BY <2>3, LimitIs
  <2> QED BY <1>1, <1>2, <2>1, <2>4
<1> QED BY <1>3, <1>4

\* Layer.Store keeps the caches in step and within the limit.
LEMMA LayerStoreStep ==
  ASSUME CacheInv, NEW q \in Query, NEW r \in Response, LayerStore(q, r),
         clock' = clock, answer' \in Answers
  PROVE  CacheInv'
<1>1. /\ DOMAIN exact' = DOMAIN exact \cup {q}
      /\ exact'[q] = r
      /\ \A k \in DOMAIN exact : k # q => exact'[k] = exact[k]
      /\ exact' \in [DOMAIN exact' -> Response]
  <2>1. exact \in [DOMAIN exact -> Response] /\ exact' = Put(exact, q, r)
    BY DEF CacheInv, LayerTypeOK, LayerStore
  <2>2. /\ DOMAIN Put(exact, q, r) = DOMAIN exact \cup {q}
        /\ Put(exact, q, r)[q] = r
        /\ \A k \in DOMAIN exact : k # q => Put(exact, q, r)[k] = exact[k]
        /\ Put(exact, q, r) \in [DOMAIN exact \cup {q} -> Response]
    BY <2>1, PutIs
  <2> QED BY <2>1, <2>2
<1>2. CASE r = "empty"
  <2>1. entries' = entries
    BY <1>2 DEF LayerStore, Stored
  <2> QED BY <1>1, <1>2, <2>1 DEF CacheInv, LayerTypeOK, CachesAgree, SemanticBound
<1>3. CASE r # "empty"
  <2>1. PICK f \in Room :
          entries' = Put(f, q, [response |-> r, at |-> clock])
    BY <1>3 DEF LayerStore, Stored
  <2>2. /\ DOMAIN f \subseteq DOMAIN entries
        /\ \A k \in DOMAIN f : f[k] = entries[k]
        /\ f \in [DOMAIN f -> Row]
        /\ IsFiniteSet(DOMAIN f) /\ Cardinality(DOMAIN f) \in Nat
        /\ Cardinality(DOMAIN f) < EntryLimit
    BY RoomFor
  <2>3. [response |-> r, at |-> clock] \in Row
    BY <1>3 DEF Row, CacheInv, LayerTypeOK
  <2>4. /\ DOMAIN entries' = DOMAIN f \cup {q}
        /\ entries'[q] = [response |-> r, at |-> clock]
        /\ \A k \in DOMAIN f : k # q => entries'[k] = f[k]
        /\ entries' \in [DOMAIN entries' -> Row]
    <3> DEFINE v == [response |-> r, at |-> clock]
    <3>1. v \in Row
      BY <2>3
    <3> HIDE DEF v
    <3>2. /\ DOMAIN Put(f, q, v) = DOMAIN f \cup {q}
          /\ Put(f, q, v)[q] = v
          /\ \A k \in DOMAIN f : k # q => Put(f, q, v)[k] = f[k]
          /\ Put(f, q, v) \in [DOMAIN f \cup {q} -> Row]
      BY <2>2, <3>1, PutIs
    <3>3. entries' = Put(f, q, v)
      BY <2>1 DEF v
    <3>4. v = [response |-> r, at |-> clock]
      BY DEF v
    <3> QED BY <3>2, <3>3, <3>4
  <2>5. LayerTypeOK'
    BY <1>1, <2>2, <2>4 DEF CacheInv, LayerTypeOK, Row
  <2>6. CachesAgree'
    BY <1>1, <2>2, <2>4 DEF CacheInv, CachesAgree
  <2>7. Cardinality(DOMAIN entries') <= Cardinality(DOMAIN f) + 1
    <3>1. CASE q \in DOMAIN f
      <4>1. DOMAIN entries' = DOMAIN f
        BY <2>4, <3>1
      <4> QED BY <2>2, <4>1
    <3>2. CASE q \notin DOMAIN f
      <4>1. Cardinality(DOMAIN f \cup {q}) = Cardinality(DOMAIN f) + 1
        BY <2>2, <3>2, FS_AddElement
      <4>2. DOMAIN entries' = DOMAIN f \cup {q}
        BY <2>4
      <4> QED BY <2>2, <4>1, <4>2
    <3> QED BY <3>1, <3>2
  <2>8. SemanticBound'
    <3>1. IsFiniteSet(DOMAIN entries')
      BY <2>2, <2>4, FS_AddElement
    <3> QED BY <2>2, <2>7, <3>1, FS_CardinalityType, LimitIs DEF SemanticBound
  <2> QED BY <2>5, <2>6, <2>8 DEF CacheInv
<1> QED BY <1>2, <1>3

\* A hit changes the answer only.
LEMMA HitStep ==
  ASSUME CacheInv, NEW q \in Query, NEW i \in Intents,
         ProcessExact(q, i) \/ ProcessSemantic(q, i) \/ ProcessGraph(q, i)
  PROVE  CacheInv'
<1>1. UNCHANGED <<clock, exact, entries>>
  BY DEF ProcessExact, ProcessSemantic, ProcessGraph
<1>2. answer' \in Answers
  <2>1. CASE ProcessExact(q, i)
    <3>1. exact[q] \in Response
      BY <2>1 DEF ProcessExact, CacheInv, LayerTypeOK
    <3> QED BY <2>1, <3>1 DEF ProcessExact, Answer, Answers, Sources
  <2>2. CASE ProcessSemantic(q, i)
    <3>1. PICK k \in Best(q) : answer' = [intent |-> i, source |-> "semantic_cache",
                                          content |-> entries[k].response]
      BY <2>2 DEF ProcessSemantic, Answer
    <3>2. k \in DOMAIN entries
      BY DEF Best, Fresh
    <3>3. entries[k].response \in Response
      BY <3>2 DEF CacheInv, LayerTypeOK
    <3> QED BY <3>1, <3>3 DEF Answers, Sources
  <2>3. CASE ProcessGraph(q, i)
    BY <2>3 DEF ProcessGraph, Answer, Answers, Sources
  <2> QED BY <2>1, <2>2, <2>3
<1> QED BY <1>1, <1>2 DEF CacheInv, LayerTypeOK, CachesAgree, SemanticBound

\* Entries leave, all of them or the expired ones, and time passes.
LEMMA ShrinkStep ==
  ASSUME CacheInv, Prune \/ ClearCaches \/ ClockTick
  PROVE  CacheInv'
<1>1. CASE Prune
  <2>1. PICK S : entries' = Drop(entries, S)
    BY <1>1 DEF Prune
  <2>2. /\ DOMAIN entries' \subseteq DOMAIN entries
        /\ \A k \in DOMAIN entries' : entries'[k] = entries[k]
        /\ entries' \in [DOMAIN entries' -> Row]
    <3>1. entries \in [DOMAIN entries -> Row]
      BY DEF CacheInv, LayerTypeOK, Row
    <3>2. /\ DOMAIN Drop(entries, S) = DOMAIN entries \ S
          /\ \A k \in DOMAIN entries \ S : Drop(entries, S)[k] = entries[k]
          /\ Drop(entries, S) \in [DOMAIN entries \ S -> Row]
      BY <3>1, DropIs
    <3> QED BY <2>1, <3>2
  <2>3. Cardinality(DOMAIN entries') <= Cardinality(DOMAIN entries)
        /\ Cardinality(DOMAIN entries') \in Nat /\ Cardinality(DOMAIN entries) \in Nat
    BY <2>2, EntriesFinite, FS_Subset, FS_CardinalityType DEF CacheInv
  <2>4. LayerTypeOK' /\ CachesAgree'
    BY <1>1, <2>2 DEF Prune, CacheInv, LayerTypeOK, CachesAgree, Row
  <2>5. SemanticBound'
    BY <2>3, LimitIs DEF CacheInv, SemanticBound
  <2> QED BY <2>4, <2>5 DEF CacheInv
<1>2. CASE ClearCaches
  <2>1. DOMAIN exact' = {} /\ DOMAIN entries' = {} /\ Cardinality(DOMAIN entries') = 0
    BY <1>2, FS_EmptySet DEF ClearCaches, NoMap
  <2> QED BY <1>2, <2>1, LimitIs
          DEF ClearCaches, NoMap, CacheInv, LayerTypeOK, CachesAgree, SemanticBound
<1>3. CASE ClockTick
  BY <1>3 DEF ClockTick, CacheInv, LayerTypeOK, CachesAgree, SemanticBound
<1> QED BY <1>1, <1>2, <1>3

LEMMA LayerNextInv == CacheInv /\ LayerNext => CacheInv'
<1> SUFFICES ASSUME CacheInv, LayerNext PROVE CacheInv'
  OBVIOUS
<1>1. ASSUME NEW q \in Query, NEW i \in Intents,
             ProcessExact(q, i) \/ ProcessSemantic(q, i) \/ ProcessGraph(q, i)
      PROVE  CacheInv'
  BY <1>1, HitStep
<1>2. ASSUME NEW q \in Query, NEW i \in Intents, ProcessOptimizer(q, i) PROVE CacheInv'
  <2>1. answer' \in Answers
    BY <1>2 DEF ProcessOptimizer, Answer, Answers, Sources, Response
  <2> QED BY <1>2, <2>1, LayerStoreStep DEF ProcessOptimizer, Response
<1>3. ASSUME NEW q \in Query, NEW r \in Response, StoreAnswer(q, r) PROVE CacheInv'
  BY <1>3, LayerStoreStep DEF StoreAnswer, CacheInv, LayerTypeOK
<1>4. CASE Prune \/ ClearCaches \/ ClockTick
  BY <1>4, ShrinkStep
<1> QED BY <1>1, <1>2, <1>3, <1>4 DEF LayerNext
-----------------------------------------------------------------------------
LEMMA NextInv == Inv /\ [Next]_vars => Inv'
<1> SUFFICES ASSUME Inv, [Next]_vars PROVE Inv'
  OBVIOUS
<1>1. UNCHANGED graphVars => (GraphInv => GraphInv')
  BY DEF graphVars, GraphInv, WrittenSoFar, TrackedIsStored, CheckedEdgesHaveEnds
<1>2. UNCHANGED cacheLayerVars => (CacheInv => CacheInv')
  BY DEF cacheLayerVars, CacheInv, LayerTypeOK, CachesAgree, SemanticBound
<1>3. CASE GraphStep
  BY <1>2, <1>3, GraphNextInv DEF GraphStep, Inv, Answerable
<1>4. CASE GraphChanges
  BY <1>1, <1>2, <1>4 DEF GraphChanges, Inv, Answerable
<1>5. CASE CacheStep
  BY <1>1, <1>5, LayerNextInv DEF CacheStep, Inv
<1>6. CASE UNCHANGED vars
  BY <1>1, <1>2, <1>6 DEF vars, Inv
<1> QED BY <1>3, <1>4, <1>5, <1>6 DEF Next

LEMMA Invariant == Spec => []Inv
  BY InitInv, NextInv, PTL DEF Spec

\* Over failing and dying indexers, edits and Clear: what the indexer tracks was
\* stored, and a call recorded on a checked connection has both its functions.
THEOREM GraphStaysSound == Spec => []GraphIsSound
<1>1. Inv => GraphIsSound
  BY DEF Inv, GraphInv, CacheInv, GraphIsSound, TypeOK, Entity
<1> QED BY <1>1, Invariant, PTL

\* A query has one answer: the semantic cache never holds another one than the
\* exact cache, unless an empty response replaced that.
THEOREM CachesStayInStep == Spec => []CachesAgree
<1>1. Inv => CachesAgree
  BY DEF Inv, CacheInv
<1> QED BY <1>1, Invariant, PTL

\* The semantic cache never grows past maxCacheSize, or past one entry when that is
\* below 1.
THEOREM SemanticStaysBounded == Spec => []SemanticBound
<1>1. Inv => SemanticBound
  BY DEF Inv, CacheInv
<1> QED BY <1>1, Invariant, PTL

\* The two caches agree and the limited one is within its limit, or has one entry when
\* that is below 1.
THEOREM CachesStaySound == Spec => []CachesAreSound
<1>1. CachesAgree /\ SemanticBound => CachesAreSound
  BY DEF CachesAreSound
<1> QED BY <1>1, CachesStayInStep, SemanticStaysBounded, PTL
=============================================================================
