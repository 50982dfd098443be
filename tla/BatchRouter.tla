---------------------------- MODULE BatchRouter ----------------------------
(***************************************************************************)
(* internal/batch/router.go and detector.go: the Router decides for each   *)
(* request whether it waits in the batch queue, helped by a detector of    *)
(* non-interactive work.  Every method holds r.mu, so a method is one      *)
(* action.  Costs matter only through the test on the savings: the batch   *)
(* price is half the direct one, so the saving is 50% of any cost but zero *)
(* (0/0 is NaN, which passes no comparison).                               *)
(***************************************************************************)
EXTENDS Integers, Sequences, FiniteSets, Functions, SequencesExt

CONSTANTS
  Request,     \* the BatchRequest values, one per call
  Info,        \* the fields the code reads: model, priority, tokens, wait,
               \* intent, bulk (the query has a bulk keyword)
  MaxQueueSize,            \* r.maxQueueSize
  RequestCountWindow,      \* nid.requestCountWindow, in ticks
  RequestCountThreshold,   \* nid.requestCountThreshold
  Percents,    \* arguments of SetMinSavingsPercent and SetDetectorConfidence
  MaxTime      \* bound of the clock

ASSUME RouterAssumption ==
  /\ IsFiniteSet(Request)
  /\ MaxQueueSize \in Nat \ {0}
  /\ RequestCountWindow \in Nat \ {0}
  /\ RequestCountThreshold \in Nat \ {0}
  /\ Percents \subseteq Int
  /\ MaxTime \in Nat

VARIABLES
  now,               \* time.Now()
  strategy, minSavingsPercent, useDetector, detectorConfidence,
  queue,             \* r.queue
  recent,            \* nid.recentRequests
  outcome,           \* history: where each request is, and why
  arrivals           \* history: the times of all requests analysed

routerVars == <<strategy, minSavingsPercent, useDetector, detectorConfidence,
                queue, recent, outcome, arrivals>>

Strategies == {"never", "auto", "always", "user_choice"}
Priced == {"haiku", "sonnet", "opus"}
Outcomes == {"new", "auto", "always", "direct", "switched", "failed", "hit",
             "flushed"}

RouterInit ==
  /\ strategy \in Strategies
  /\ minSavingsPercent = 5
  /\ useDetector = TRUE
  /\ detectorConfidence = 60
  /\ queue = <<>>
  /\ recent = <<>>
  /\ outcome = [r \in Request |-> "new"]
  /\ arrivals = <<>>
-----------------------------------------------------------------------------
(* The detector                                                            *)

InWindow(s, t) == {i \in 1..Len(s) : s[i] > t - RequestCountWindow}

\* Faulty variant: trimming starts behind the first fresh request.
TrimmedTooFar(s, t) ==
  IF InWindow(s, t) = {} THEN s
  ELSE LET first == CHOOSE i \in InWindow(s, t) : \A j \in InWindow(s, t) : i <= j
       IN SubSeq(s, first + 1, Len(s))

\* recordRequest cuts the list at the first request inside the window; when
\* there is none startIdx stays 0 and the list is kept whole.
Trimmed(s, t) ==
  IF InWindow(s, t) = {} THEN s
  ELSE LET first == CHOOSE i \in InWindow(s, t) : \A j \in InWindow(s, t) : i <= j
       IN SubSeq(s, first, Len(s))

Recorded(s, t) == Append(Trimmed(s, t), t)

BatchIntents == {"batch_analysis", "bulk_processing"}  \* isNonInteractiveIntent
EligibleIntents == {"batch_analysis", "lookup"}        \* CanBatch: allowed or neutral

\* IsNonInteractive, on the list after this request: the sum of three scores,
\* in percent; it may pass 100.
Score(q, count) ==
  (IF q.intent \in BatchIntents THEN 70 ELSE 0)
  + (IF count >= RequestCountThreshold THEN 60 ELSE 0)
  + (IF q.bulk THEN 60 ELSE 0)

\* CanBatch: ten times a hundred tokens at least, and no answer expected
\* within thirty seconds (a wait of zero says nothing).
CanBatch(q) ==
  /\ q.intent \in EligibleIntents
  /\ q.tokens >= 1000
  /\ ~(q.wait > 0 /\ q.wait < 30)

\* AnalyzeRequest: an ineligible request has confidence zero.
Confidence(q, count) == IF CanBatch(q) THEN Score(q, count) ELSE 0
Detected(q, count) ==
  /\ Confidence(q, count) >= 60
  /\ Confidence(q, count) >= detectorConfidence
-----------------------------------------------------------------------------
(* The routing decision                                                    *)

Costs(q) == q.tokens > 0
SavingsWorth(q) == Costs(q) /\ minSavingsPercent <= 50

\* A cheaper model is proposed when the request is not batched; haiku is the
\* first one tried and the cheapest.
Alternative(q) == Costs(q) /\ q.model # "haiku"

AutoBatches(q, count) ==
  /\ SavingsWorth(q) \/ (useDetector /\ Detected(q, count))
  /\ Len(queue) < MaxQueueSize

\* What MakeRoutingDecision does with a request whose model has a price.
Route(q, count) ==
  CASE strategy = "always" -> "always"
    [] strategy = "auto" -> IF AutoBatches(q, count) THEN "auto"
                            ELSE IF Alternative(q) THEN "switched" ELSE "direct"
    [] OTHER -> "direct"

\* MakeRoutingDecision: an unknown model is an error before anything is
\* recorded; the detector sees the request whatever the strategy; only
\* StrategyAuto looks at the length of the queue.
MakeRoutingDecision(r, q) ==
  IF q.model \notin Priced
  THEN /\ outcome' = [outcome EXCEPT ![r] = "failed"]
       /\ UNCHANGED <<strategy, minSavingsPercent, useDetector,
                      detectorConfidence, queue, recent, arrivals>>
  ELSE LET seen == IF useDetector THEN Recorded(recent, now) ELSE recent
           route == Route(q, Cardinality(InWindow(seen, now)))
       IN /\ recent' = seen
          /\ arrivals' = IF useDetector THEN Append(arrivals, now) ELSE arrivals
          /\ outcome' = [outcome EXCEPT ![r] = route]
          /\ queue' = IF route \in {"auto", "always"} THEN Append(queue, r) ELSE queue
          /\ UNCHANGED <<strategy, minSavingsPercent, useDetector, detectorConfidence>>

\* Faulty variant: the copy for the caller holds the first request only.
FlushQueueFirst ==
  /\ queue # <<>>
  /\ queue' = <<>>
  /\ outcome' = [outcome EXCEPT ![Head(queue)] = "flushed"]
  /\ UNCHANGED <<strategy, minSavingsPercent, useDetector, detectorConfidence,
                 recent, arrivals>>

\* FlushQueue: sorted in place by the loops of PrioritySort, copied for the
\* caller, cleared.
FlushQueue ==
  /\ queue # <<>>
  /\ queue' = <<>>
  /\ outcome' = [r \in Request |->
                   IF r \in Range(queue) THEN "flushed" ELSE outcome[r]]
  /\ UNCHANGED <<strategy, minSavingsPercent, useDetector, detectorConfidence,
                 recent, arrivals>>

SetStrategy(s) ==
  /\ strategy' = s
  /\ UNCHANGED <<minSavingsPercent, useDetector, detectorConfidence, queue,
                 recent, outcome, arrivals>>

SetMinSavingsPercent(p) ==
  /\ minSavingsPercent' = p
  /\ UNCHANGED <<strategy, useDetector, detectorConfidence, queue, recent,
                 outcome, arrivals>>

EnableDetector(on) ==
  /\ useDetector' = on
  /\ UNCHANGED <<strategy, minSavingsPercent, detectorConfidence, queue,
                 recent, outcome, arrivals>>

SetDetectorConfidence(p) ==
  /\ detectorConfidence' = IF p < 0 THEN 0 ELSE IF p > 100 THEN 100 ELSE p
  /\ UNCHANGED <<strategy, minSavingsPercent, useDetector, queue, recent,
                 outcome, arrivals>>
-----------------------------------------------------------------------------
(* What must hold                                                          *)

RouterTypeOK ==
  /\ now \in Nat
  /\ strategy \in Strategies
  /\ minSavingsPercent \in Int
  /\ useDetector \in BOOLEAN
  /\ detectorConfidence \in 0..100
  /\ queue \in Seq(Request)
  /\ recent \in Seq(Nat)
  /\ outcome \in [Request -> Outcomes]
  /\ arrivals \in Seq(Nat)

\* The list the detector trims in place counts as the full record of its
\* requests would, now and for the rest of time: no request still in the
\* window is cut off, whatever the pauses between calls.
VolumeExact ==
  \A t \in now..(now + RequestCountWindow) :
    Cardinality(InWindow(recent, t)) = Cardinality(InWindow(arrivals, t))

\* The queue passes its limit only by requests of StrategyAlways: whatever was
\* queued by StrategyAuto, over any change of strategy, sits within the limit.
AutoWithinLimit ==
  \A i \in 1..Len(queue) :
    IF i > MaxQueueSize THEN outcome[queue[i]] = "always"
                        ELSE outcome[queue[i]] \in {"auto", "always"}

\* What the router decides by, the volume and the queue's limit, is right at
\* every decision.
RouterIsSound == VolumeExact /\ AutoWithinLimit

\* The router implements the ledger of requests: each one accepted or sent
\* directly once, and handed out once.
RouterPlace ==
  [r \in Request |->
    CASE outcome[r] = "new" -> "new"
      [] outcome[r] = "flushed" -> "handed"
      [] outcome[r] \in {"auto", "always"} ->
           IF r \in Range(queue) THEN "pending" ELSE "dropped"
      [] OTHER -> "refused"]
RouterLedger == INSTANCE RequestLedger WITH place <- RouterPlace
RouterLedgerSpec == RouterLedger!Spec
=============================================================================
