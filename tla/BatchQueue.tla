----------------------------- MODULE BatchQueue -----------------------------
(***************************************************************************)
(* internal/batch/queue.go: the queue of requests waiting for a batch      *)
(* submission.  Every method takes bq.mu for its whole body, so a method   *)
(* is one action.  Time is abstracted to the one thing IsReady asks of it: *)
(* has the idle timeout passed since lastFlushTime.                        *)
(***************************************************************************)
EXTENDS Integers, Sequences, FiniteSets, Functions

CONSTANTS
  Request,     \* the *BatchRequest objects callers create, one per Enqueue
  PriorityOf,  \* BatchRequest.Priority
  Sizes        \* the sizes passed to the setters (bounds the configuration)

ASSUME RequestAssumption ==
  /\ IsFiniteSet(Request)
  /\ PriorityOf \in [Request -> Nat]
ASSUME SizesAssumption == Sizes \subseteq Int

VARIABLES
  requests,        \* bq.requests, oldest first
  maxQueueSize,
  minBatchSize,
  idle,            \* time.Since(bq.lastFlushTime) > bq.idleTimeoutDuration
  totalProcessed,
  fate,            \* history: how each request left, "open" while it has not
  arrival          \* history: its place in the order of acceptance, 0 if none

queueVars == <<requests, maxQueueSize, minBatchSize, idle, totalProcessed,
               fate, arrival>>

DefaultMax == 100  \* NewBatchQueue's maxQueueSize
DefaultMin == 3    \* and minBatchSize
Fates == {"open", "refused", "dequeued", "flushed", "cleared"}

QueueTypeOK ==
  /\ requests \in Seq(Request)
  /\ maxQueueSize \in Nat \ {0}
  /\ minBatchSize \in Nat \ {0}
  /\ idle \in BOOLEAN
  /\ totalProcessed \in Nat
  /\ fate \in [Request -> Fates]
  /\ arrival \in [Request -> Nat]

\* sortByPriority's result is one of these: the same requests, the higher
\* Priority first.  Its swaps are not stable, so nothing more is promised;
\* PrioritySort models the loops and shows that they end here.
ByPriority(s) ==
  {t \in [1..Len(s) -> Range(s)] :
     /\ Range(t) = Range(s)
     /\ \A i, j \in 1..Len(s) : i < j => PriorityOf[t[i]] >= PriorityOf[t[j]]}

\* IsReady: the condition for a flush.
IsReady ==
  /\ requests # <<>>
  /\ \/ Len(requests) >= maxQueueSize
     \/ Len(requests) >= minBatchSize
     \/ idle

QueueInit ==
  /\ requests = <<>>
  /\ maxQueueSize = DefaultMax
  /\ minBatchSize = DefaultMin
  /\ idle = FALSE
  /\ totalProcessed = 0
  /\ fate = [r \in Request |-> "open"]
  /\ arrival = [r \in Request |-> 0]

Accepted == {r \in Request : arrival[r] > 0}

\* Faulty variant: a full queue reports the error after the append.
EnqueueBeforeCheck(r) ==
  /\ arrival[r] = 0 /\ fate[r] = "open"
  /\ requests' = Append(requests, r)
  /\ arrival' = [arrival EXCEPT ![r] = Cardinality(Accepted) + 1]
  /\ fate' = IF Len(requests) >= maxQueueSize
             THEN [fate EXCEPT ![r] = "refused"] ELSE fate
  /\ UNCHANGED <<maxQueueSize, minBatchSize, idle, totalProcessed>>

\* Faulty variant: the new request goes to the front.
EnqueueAtFront(r) ==
  /\ arrival[r] = 0 /\ fate[r] = "open"
  /\ Len(requests) < maxQueueSize
  /\ requests' = <<r>> \o requests
  /\ arrival' = [arrival EXCEPT ![r] = Cardinality(Accepted) + 1]
  /\ UNCHANGED <<maxQueueSize, minBatchSize, idle, totalProcessed, fate>>

\* Enqueue: a fresh request is appended, or refused when the queue is full.
Enqueue(r) ==
  /\ arrival[r] = 0 /\ fate[r] = "open"
  /\ \/ /\ Len(requests) < maxQueueSize
        /\ requests' = Append(requests, r)
        /\ arrival' = [arrival EXCEPT ![r] = Cardinality(Accepted) + 1]
        /\ fate' = fate
     \/ /\ Len(requests) >= maxQueueSize
        /\ fate' = [fate EXCEPT ![r] = "refused"]
        /\ UNCHANGED <<requests, arrival>>
  /\ UNCHANGED <<maxQueueSize, minBatchSize, idle, totalProcessed>>

\* Dequeue: the oldest request goes to the caller; totalProcessed and
\* lastFlushTime are left alone.
Dequeue ==
  /\ requests # <<>>
  /\ requests' = Tail(requests)
  /\ fate' = [fate EXCEPT ![Head(requests)] = "dequeued"]
  /\ UNCHANGED <<maxQueueSize, minBatchSize, idle, totalProcessed, arrival>>

\* Faulty variant: the backing array is handed out and stays queued.
FlushWithoutReset(batch) ==
  /\ requests # <<>>
  /\ batch \in ByPriority(requests)
  /\ requests' = batch
  /\ idle' = FALSE
  /\ totalProcessed' = totalProcessed + Len(requests)
  /\ fate' = [r \in Request |->
                IF r \in Range(requests) THEN "flushed" ELSE fate[r]]
  /\ UNCHANGED <<maxQueueSize, minBatchSize, arrival>>

\* Flush: sort, copy, empty the queue, restart the idle clock, count; the
\* caller gets batch.  On an empty queue it returns at once and even leaves
\* lastFlushTime as it was.
Flush(batch) ==
  /\ requests # <<>>
  /\ batch \in ByPriority(requests)
  /\ requests' = <<>>
  /\ idle' = FALSE
  /\ totalProcessed' = totalProcessed + Len(requests)
  /\ fate' = [r \in Request |->
                IF r \in Range(requests) THEN "flushed" ELSE fate[r]]
  /\ UNCHANGED <<maxQueueSize, minBatchSize, arrival>>

\* Clear: the requests are dropped, uncounted.
Clear ==
  /\ requests' = <<>>
  /\ idle' = FALSE
  /\ fate' = [r \in Request |->
                IF r \in Range(requests) THEN "cleared" ELSE fate[r]]
  /\ UNCHANGED <<maxQueueSize, minBatchSize, totalProcessed, arrival>>

\* SetMaxQueueSize and SetMinBatchSize ignore a size that is not positive;
\* the new maximum may be below the present length.
SetMaxQueueSize(n) ==
  /\ n > 0
  /\ maxQueueSize' = n
  /\ UNCHANGED <<requests, minBatchSize, idle, totalProcessed, fate, arrival>>

SetMinBatchSize(n) ==
  /\ n > 0
  /\ minBatchSize' = n
  /\ UNCHANGED <<requests, maxQueueSize, idle, totalProcessed, fate, arrival>>

\* The idle timeout passes, counted from lastFlushTime only: neither Enqueue
\* nor Dequeue restarts it.
IdleTimeout ==
  /\ idle' = TRUE
  /\ UNCHANGED <<requests, maxQueueSize, minBatchSize, totalProcessed, fate,
                 arrival>>

\* SetIdleTimeout: a longer timeout may no longer be over.
SetIdleTimeout ==
  /\ idle' = FALSE
  /\ UNCHANGED <<requests, maxQueueSize, minBatchSize, totalProcessed, fate,
                 arrival>>

QueueNext ==
  \/ \E r \in Request : Enqueue(r)
  \/ Dequeue
  \/ \E batch \in ByPriority(requests) : Flush(batch)
  \/ Clear
  \/ \E n \in Sizes : SetMaxQueueSize(n) \/ SetMinBatchSize(n)
  \/ IdleTimeout
  \/ SetIdleTimeout

QueueSpec == QueueInit /\ [][QueueNext]_queueVars
-----------------------------------------------------------------------------
(* What must hold                                                          *)

\* No request object sits in two slots, and the ones queued are exactly the
\* ones accepted that have not left: nothing is lost, kept or handed out twice
\* by the aliasing of the slice in Dequeue and Flush.
QueuedOnce ==
  /\ IsInjective(requests)
  /\ \A r \in Request : r \in Range(requests) <=> arrival[r] > 0 /\ fate[r] = "open"

\* Dequeue is first come first served although Flush sorts in place: the queue
\* is in order of arrival in every state a caller can see.
FifoOrder ==
  \A i, j \in 1..Len(requests) :
    i < j => arrival[requests[i]] < arrival[requests[j]]

\* The statistics count a request once, when a flush hands it out.
ProcessedCount == totalProcessed = Cardinality({r \in Request : fate[r] = "flushed"})

\* The queue implements the ledger: every request accepted or refused once,
\* and once out of the queue it never comes back or leaves again.
LedgerPlace ==
  [r \in Request |->
    CASE fate[r] = "refused"                 -> "refused"
      [] fate[r] \in {"dequeued", "flushed"} -> "handed"
      [] fate[r] = "cleared"                 -> "dropped"
      [] OTHER -> IF r \in Range(requests) THEN "pending" ELSE "new"]
Ledger == INSTANCE RequestLedger WITH place <- LedgerPlace
LedgerSpec == Ledger!Spec
=============================================================================
