------------------------ MODULE BatchSubmissionProofs ------------------------
(***************************************************************************)
(* Proofs about BatchQueue, for any finite set of requests, any priorities *)
(* and any sizes given to the setters; and about BatchSubmission, for any  *)
(* finite sets of requests and submissions, any bodies and any number of   *)
(* retries.  The submission adds to the queue's invariant whose requests   *)
(* are whose and which remote batch a handler speaks of.                   *)
(***************************************************************************)
EXTENDS BatchSubmission, FunctionTheorems, FiniteSetTheorems, SequenceTheorems, TLAPS

(* The queue                                                               *)

\* Arrival numbers count acceptances, so the newest is the number of accepted
\* requests; a refused request has none.
ArrivalBound ==
  \A r \in Request : /\ arrival[r] <= Cardinality(Accepted)
                     /\ fate[r] = "refused" => arrival[r] = 0
                     /\ arrival[r] = 0 => fate[r] \in {"open", "refused"}

\* The inductive invariant: order needs the bound on the arrival numbers, and
\* every conjunct needs each request to be in at most one slot.
QueueInv ==
  /\ QueueTypeOK
  /\ QueuedOnce
  /\ ArrivalBound
  /\ FifoOrder

\* A sequence without repetition has as many elements as slots.
LEMMA LenIsCardinality ==
  ASSUME NEW S, NEW s \in Seq(S), IsInjective(s)
  PROVE  IsFiniteSet(Range(s)) /\ Cardinality(Range(s)) = Len(s)
<1>1. Len(s) \in Nat /\ s \in [1..Len(s) -> S] /\ DOMAIN s = 1..Len(s)
  BY LenProperties
<1>2. s \in Bijection(1..Len(s), Range(s))
  BY <1>1 DEF Bijection, Injection, Surjection, IsInjective, Range
<1>3. ExistsBijection(1..Len(s), Range(s))
  BY <1>2 DEF ExistsBijection
<1>4. IsFiniteSet(1..Len(s)) /\ Cardinality(1..Len(s)) = Len(s)
  BY <1>1, FS_Interval
<1> QED
  BY <1>3, <1>4, FS_Bijection

\* Appending an element that is not there adds it to the range and keeps the
\* sequence free of repetition.
LEMMA AppendFresh ==
  ASSUME NEW S, NEW s \in Seq(S), IsInjective(s), NEW e \in S, e \notin Range(s)
  PROVE  /\ IsInjective(Append(s, e))
         /\ Range(Append(s, e)) = Range(s) \cup {e}
<1>1. /\ Append(s, e) \in Seq(S)
      /\ Len(Append(s, e)) = Len(s) + 1
      /\ \A k \in 1..Len(s) : Append(s, e)[k] = s[k]
      /\ Append(s, e)[Len(s) + 1] = e
  BY AppendProperties
<1>2. Len(s) \in Nat /\ DOMAIN s = 1..Len(s) /\ DOMAIN Append(s, e) = 1..(Len(s) + 1)
  BY <1>1, LenProperties
<1>3. \A k \in 1..Len(s) : s[k] \in Range(s)
  BY <1>2 DEF Range
<1>4. IsInjective(Append(s, e))
  BY <1>1, <1>2, <1>3 DEF IsInjective
<1>5. Range(Append(s, e)) = Range(s) \cup {e}
  BY <1>1, <1>2 DEF Range
<1> QED
  BY <1>4, <1>5

\* The tail of a sequence without repetition has every element but the head.
LEMMA TailFresh ==
  ASSUME NEW S, NEW s \in Seq(S), IsInjective(s), s # <<>>
  PROVE  /\ IsInjective(Tail(s))
         /\ Range(Tail(s)) = Range(s) \ {Head(s)}
         /\ Head(s) = s[1] /\ Head(s) \in Range(s)
<1>1. /\ Tail(s) \in Seq(S)
      /\ Len(Tail(s)) = Len(s) - 1
      /\ \A k \in 1..Len(Tail(s)) : Tail(s)[k] = s[k + 1]
  BY HeadTailProperties
<1>2. /\ Len(s) \in Nat \ {0} /\ DOMAIN s = 1..Len(s)
      /\ DOMAIN Tail(s) = 1..(Len(s) - 1)
  BY <1>1, LenProperties, EmptySeq
<1>3. Head(s) = s[1]
  OBVIOUS
<1>4. IsInjective(Tail(s))
  BY <1>1, <1>2 DEF IsInjective
<1>5. Range(Tail(s)) \subseteq Range(s) \ {Head(s)}
  BY <1>1, <1>2, <1>3 DEF Range, IsInjective
<1>6. ASSUME NEW x \in Range(s) \ {Head(s)} PROVE x \in Range(Tail(s))
  <2>1. PICK k \in 1..Len(s) : s[k] = x
    BY <1>2 DEF Range
  <2>2. k - 1 \in 1..(Len(s) - 1) /\ Tail(s)[k - 1] = x
    BY <2>1, <1>1, <1>2, <1>3
  <2> QED
    BY <2>2, <1>2 DEF Range
<1>7. Head(s) \in Range(s)
  BY <1>2, <1>3 DEF Range
<1>8. Range(Tail(s)) = Range(s) \ {Head(s)}
  BY <1>5, <1>6
<1> QED
  BY <1>3, <1>4, <1>7, <1>8

LEMMA InitInv == QueueInit => QueueInv
<1> SUFFICES ASSUME QueueInit PROVE QueueInv
  OBVIOUS
<1>1. requests = <<>> /\ Len(requests) = 0 /\ Range(requests) = {}
  BY EmptySeq DEF QueueInit, Range
<1>2. Accepted = {}
  BY DEF QueueInit, Accepted
<1>3. QueueTypeOK
  <2>1. requests \in Seq(Request)
    BY EmptySeq DEF QueueInit
  <2>2. maxQueueSize \in Nat \ {0} /\ minBatchSize \in Nat \ {0} /\ totalProcessed \in Nat
    BY DEF QueueInit, DefaultMax, DefaultMin
  <2>3. idle \in BOOLEAN /\ fate \in [Request -> Fates]
    BY DEF QueueInit, Fates
  <2>4. arrival \in [Request -> Nat]
    BY DEF QueueInit
  <2> QED
    BY <2>1, <2>2, <2>3, <2>4 DEF QueueTypeOK
<1>4. QueuedOnce /\ FifoOrder
  BY <1>1 DEF QueueInit, QueuedOnce, FifoOrder, IsInjective
<1>5. ArrivalBound
  BY <1>2, FS_EmptySet DEF QueueInit, ArrivalBound
<1> QED
  BY <1>3, <1>4, <1>5 DEF QueueInv

\* Accepting a request: the next arrival number is the largest so far.
LEMMA AcceptedGrows ==
  ASSUME QueueTypeOK, NEW r \in Request, arrival[r] = 0,
         arrival' = [arrival EXCEPT ![r] = Cardinality(Accepted) + 1]
  PROVE  /\ Cardinality(Accepted) \in Nat
         /\ Cardinality(Accepted') = Cardinality(Accepted) + 1
<1>1. IsFiniteSet(Accepted)
  BY RequestAssumption, FS_Subset DEF Accepted
<1>2. Cardinality(Accepted) \in Nat
  BY <1>1, FS_CardinalityType
<1>3. Accepted' = Accepted \cup {r} /\ r \notin Accepted
  <2>1. arrival \in [Request -> Nat] /\ Cardinality(Accepted) + 1 > 0
    BY <1>2 DEF QueueTypeOK
  <2>2. \A q \in Request : arrival'[q] > 0 <=> arrival[q] > 0 \/ q = r
    BY <2>1
  <2>3. ~(arrival[r] > 0)
    BY <2>1
  <2> QED
    BY <2>2, <2>3 DEF Accepted
<1> QED
  BY <1>1, <1>2, <1>3, FS_AddElement

LEMMA NextInv == QueueInv /\ [QueueNext]_queueVars => QueueInv'
<1> SUFFICES ASSUME QueueInv, [QueueNext]_queueVars PROVE QueueInv'
  OBVIOUS
<1> USE DEF QueueInv
<1>0. requests \in Seq(Request) /\ Len(requests) \in Nat /\ DOMAIN requests = 1..Len(requests)
  BY LenProperties DEF QueueTypeOK
<1>e. <<>> \in Seq(Request) /\ Len(<<>>) = 0 /\ Range(<<>>) = {} /\ IsInjective(<<>>)
  BY EmptySeq DEF Range, IsInjective
<1>1. ASSUME NEW r \in Request, Enqueue(r) PROVE QueueInv'
  <2>1. CASE Len(requests) >= maxQueueSize
    <3>1. /\ fate' = [fate EXCEPT ![r] = "refused"]
          /\ UNCHANGED <<requests, arrival, maxQueueSize, minBatchSize, idle, totalProcessed>>
      BY <1>1, <2>1, <1>0 DEF Enqueue, QueueTypeOK
    <3>2. r \notin Range(requests) /\ arrival[r] = 0
      BY <1>1 DEF Enqueue, QueuedOnce, QueueTypeOK
    <3> QED
      BY <3>1, <3>2 DEF QueueTypeOK, QueuedOnce, FifoOrder, ArrivalBound, Accepted, Fates
  <2>2. CASE Len(requests) < maxQueueSize
    <3>1. /\ requests' = Append(requests, r)
          /\ arrival' = [arrival EXCEPT ![r] = Cardinality(Accepted) + 1]
          /\ UNCHANGED <<fate, maxQueueSize, minBatchSize, idle, totalProcessed>>
          /\ arrival[r] = 0 /\ fate[r] = "open"
      BY <1>1, <2>2, <1>0 DEF Enqueue, QueueTypeOK
    <3>2. r \notin Range(requests)
      BY <3>1 DEF QueuedOnce, QueueTypeOK
    <3>3. /\ IsInjective(requests') /\ Range(requests') = Range(requests) \cup {r}
      BY <3>1, <3>2, <1>0, AppendFresh DEF QueuedOnce
    <3>4. /\ requests' \in Seq(Request) /\ Len(requests') = Len(requests) + 1
          /\ \A k \in 1..Len(requests) : requests'[k] = requests[k]
          /\ requests'[Len(requests) + 1] = r
      BY <3>1, <1>0, AppendProperties
    <3>5. Cardinality(Accepted) \in Nat /\ Cardinality(Accepted') = Cardinality(Accepted) + 1
      BY <3>1, AcceptedGrows
    <3>6. QueueTypeOK'
      BY <3>1, <3>4, <3>5 DEF QueueTypeOK
    <3>7. QueuedOnce'
      BY <3>1, <3>3, <3>5 DEF QueuedOnce, QueueTypeOK
    <3>8. ArrivalBound'
      BY <3>1, <3>5 DEF ArrivalBound, QueueTypeOK
    <3>9. FifoOrder'
      <4>1. \A k \in 1..Len(requests) :
              /\ requests[k] \in Request /\ requests[k] # r
              /\ arrival'[requests[k]] = arrival[requests[k]]
              /\ arrival[requests[k]] <= Cardinality(Accepted)
        BY <3>1, <3>2, <1>0 DEF QueueTypeOK, Range, ArrivalBound
      <4>2. arrival'[r] = Cardinality(Accepted) + 1
        BY <3>1 DEF QueueTypeOK
      <4> SUFFICES ASSUME NEW k \in 1..Len(requests'), NEW n \in 1..Len(requests'), k < n
                   PROVE  arrival'[requests'[k]] < arrival'[requests'[n]]
        BY DEF FifoOrder
      <4>3. k \in 1..Len(requests) /\ requests'[k] = requests[k]
        BY <3>4, <1>0
      <4>4. CASE n = Len(requests) + 1
        BY <4>1, <4>2, <4>3, <4>4, <3>4, <3>5 DEF QueueTypeOK
      <4>5. CASE n \in 1..Len(requests)
        BY <4>1, <4>3, <4>5, <3>4 DEF FifoOrder
      <4> QED
        BY <4>4, <4>5, <3>4, <1>0
    <3> QED
      BY <3>6, <3>7, <3>8, <3>9
  <2> QED
    BY <2>1, <2>2, <1>0 DEF QueueTypeOK
<1>2. CASE Dequeue
  <2>1. /\ IsInjective(Tail(requests))
        /\ Range(Tail(requests)) = Range(requests) \ {Head(requests)}
        /\ Head(requests) \in Range(requests)
    BY <1>0, <1>2, TailFresh DEF Dequeue, QueuedOnce
  <2>2. /\ Tail(requests) \in Seq(Request) /\ Len(Tail(requests)) = Len(requests) - 1
        /\ \A k \in 1..Len(Tail(requests)) : Tail(requests)[k] = requests[k + 1]
    BY <1>0, <1>2, HeadTailProperties DEF Dequeue
  <2>3. Head(requests) \in Request /\ fate[Head(requests)] = "open" /\ arrival[Head(requests)] > 0
    BY <2>1, <1>0, <1>2, HeadTailProperties DEF Dequeue, QueuedOnce
  <2>4. QueueTypeOK'
    BY <1>2, <2>2 DEF QueueTypeOK, Dequeue, Fates
  <2>5. QueuedOnce'
    BY <1>2, <2>1, <2>3 DEF QueuedOnce, Dequeue, QueueTypeOK
  <2>6. ArrivalBound'
    BY <1>2, <2>3 DEF ArrivalBound, Dequeue, QueueTypeOK, Accepted
  <2>7. FifoOrder'
    BY <1>0, <1>2, <2>2 DEF FifoOrder, Dequeue
  <2> QED
    BY <2>4, <2>5, <2>6, <2>7
<1>3. ASSUME NEW batch \in ByPriority(requests), Flush(batch) PROVE QueueInv'
  <2>0. /\ requests' = <<>> /\ idle' = FALSE
        /\ totalProcessed' = totalProcessed + Len(requests)
        /\ fate' = [r \in Request |-> IF r \in Range(requests) THEN "flushed" ELSE fate[r]]
        /\ UNCHANGED <<maxQueueSize, minBatchSize, arrival>>
    BY <1>3 DEF Flush
  <2>1. QueueTypeOK'
    <3>1. totalProcessed' \in Nat
      BY <1>0, <2>0 DEF QueueTypeOK
    <3>2. fate' \in [Request -> Fates]
      BY <2>0 DEF QueueTypeOK, Fates
    <3> QED
      BY <1>e, <2>0, <3>1, <3>2 DEF QueueTypeOK
  <2>2. QueuedOnce' /\ FifoOrder'
    BY <1>3, <1>e DEF Flush, QueuedOnce, FifoOrder, QueueTypeOK
  <2>3. ArrivalBound'
    BY <1>3 DEF Flush, ArrivalBound, QueuedOnce, QueueTypeOK, Accepted
  <2> QED
    BY <2>1, <2>2, <2>3
<1>4. CASE Clear
  <2>1. QueueTypeOK'
    BY <1>0, <1>4, <1>e DEF Clear, QueueTypeOK, Fates
  <2>2. QueuedOnce' /\ FifoOrder'
    BY <1>4, <1>e DEF Clear, QueuedOnce, FifoOrder, QueueTypeOK
  <2>3. ArrivalBound'
    BY <1>4 DEF Clear, ArrivalBound, QueuedOnce, QueueTypeOK, Accepted
  <2> QED
    BY <2>1, <2>2, <2>3
<1>5. ASSUME NEW n \in Sizes, SetMaxQueueSize(n) \/ SetMinBatchSize(n) PROVE QueueInv'
  <2>1. n \in Nat \ {0}
    BY <1>5, SizesAssumption DEF SetMaxQueueSize, SetMinBatchSize
  <2> QED
    BY <1>5, <2>1 DEF SetMaxQueueSize, SetMinBatchSize, QueueTypeOK, QueuedOnce,
                      FifoOrder, ArrivalBound, Accepted
<1>6. CASE IdleTimeout \/ SetIdleTimeout
  BY <1>6 DEF IdleTimeout, SetIdleTimeout, QueueTypeOK, QueuedOnce, FifoOrder,
              ArrivalBound, Accepted
<1>7. CASE UNCHANGED queueVars
  BY <1>7 DEF queueVars, QueueTypeOK, QueuedOnce, FifoOrder, ArrivalBound, Accepted
<1> QED
  BY <1>1, <1>2, <1>3, <1>4, <1>5, <1>6, <1>7 DEF QueueNext

\* Type correctness of every reachable state of the queue.
THEOREM QueueTypeCorrect == QueueSpec => []QueueTypeOK
<1>1. QueueInv => QueueTypeOK
  BY DEF QueueInv
<1> QED
  BY <1>1, InitInv, NextInv, PTL DEF QueueSpec

\* Every accepted request that has not left is in exactly one slot of the queue.
THEOREM QueuedExactlyOnce == QueueSpec => []QueuedOnce
<1>1. QueueInv => QueuedOnce
  BY DEF QueueInv
<1> QED
  BY <1>1, InitInv, NextInv, PTL DEF QueueSpec

\* Dequeue serves in order of arrival although Flush sorts the same slice.
THEOREM FirstComeFirstServed == QueueSpec => []FifoOrder
<1>1. QueueInv => FifoOrder
  BY DEF QueueInv
<1> QED
  BY <1>1, InitInv, NextInv, PTL DEF QueueSpec

\* The counter of the statistics against the history of the flushes.
LEMMA InitCount == QueueInit => ProcessedCount
<1> SUFFICES ASSUME QueueInit PROVE ProcessedCount
  OBVIOUS
<1>1. {r \in Request : fate[r] = "flushed"} = {}
  BY DEF QueueInit
<1> QED
  BY <1>1, FS_EmptySet DEF QueueInit, ProcessedCount

LEMMA NextCount ==
  QueueInv /\ ProcessedCount /\ [QueueNext]_queueVars => ProcessedCount'
<1> SUFFICES ASSUME QueueInv, ProcessedCount, [QueueNext]_queueVars PROVE ProcessedCount'
  OBVIOUS
<1> DEFINE flushed == {r \in Request : fate[r] = "flushed"}
<1>0. IsFiniteSet(flushed)
  BY RequestAssumption, FS_Subset
<1>1. CASE flushed' = flushed /\ totalProcessed' = totalProcessed
  BY <1>1 DEF ProcessedCount
<1>2. ASSUME NEW r \in Request, Enqueue(r) PROVE ProcessedCount'
  <2>1. totalProcessed' = totalProcessed /\ (fate' = fate \/ fate' = [fate EXCEPT ![r] = "refused"])
    BY <1>2 DEF Enqueue
  <2>2. fate[r] = "open"
    BY <1>2 DEF Enqueue
  <2>3. flushed' = flushed
    BY <2>1, <2>2 DEF QueueInv, QueueTypeOK
  <2> QED
    BY <1>1, <2>1, <2>3
<1>3. CASE Dequeue
  <2>1. Head(requests) \in Request /\ fate[Head(requests)] = "open"
    BY <1>3, TailFresh DEF Dequeue, QueueInv, QueueTypeOK, QueuedOnce
  <2>2. flushed' = flushed /\ totalProcessed' = totalProcessed
    BY <1>3, <2>1 DEF Dequeue, QueueInv, QueueTypeOK
  <2> QED
    BY <1>1, <2>2
<1>4. ASSUME NEW batch \in ByPriority(requests), Flush(batch) PROVE ProcessedCount'
  <2>1. /\ totalProcessed' = totalProcessed + Len(requests)
        /\ fate' = [r \in Request |-> IF r \in Range(requests) THEN "flushed" ELSE fate[r]]
    BY <1>4 DEF Flush
  <2>2. IsFiniteSet(Range(requests)) /\ Cardinality(Range(requests)) = Len(requests)
    BY LenIsCardinality DEF QueueInv, QueueTypeOK, QueuedOnce
  <2>3. Range(requests) \subseteq Request
    BY RangeOfSeq DEF QueueInv, QueueTypeOK
  <2>4. flushed' = flushed \cup Range(requests)
    BY <2>1, <2>3
  <2>5. flushed \cap Range(requests) = {}
    BY <2>3 DEF QueueInv, QueuedOnce
  <2>6. Cardinality(flushed \cup Range(requests)) = Cardinality(flushed) + Len(requests)
    <3>1. Cardinality(flushed \cap Range(requests)) = 0
      BY <2>5, FS_EmptySet
    <3>2. Cardinality(flushed) \in Nat /\ Len(requests) \in Nat
      BY <1>0, FS_CardinalityType, LenProperties DEF QueueInv, QueueTypeOK
    <3>3. Cardinality(flushed \cup Range(requests)) =
            Cardinality(flushed) + Cardinality(Range(requests))
              - Cardinality(flushed \cap Range(requests))
      BY <1>0, <2>2, FS_Union
    <3> QED
      BY <2>2, <3>1, <3>2, <3>3
  <2> QED
    BY <2>1, <2>4, <2>6 DEF ProcessedCount
<1>5. CASE Clear
  <2>1. Range(requests) \subseteq Request
    BY RangeOfSeq DEF QueueInv, QueueTypeOK
  <2>2. flushed' = flushed /\ totalProcessed' = totalProcessed
    BY <1>5, <2>1 DEF Clear, QueueInv, QueuedOnce
  <2> QED
    BY <1>1, <2>2
<1>6. ASSUME NEW n \in Sizes, SetMaxQueueSize(n) \/ SetMinBatchSize(n) PROVE ProcessedCount'
  BY <1>6, <1>1 DEF SetMaxQueueSize, SetMinBatchSize
<1>7. CASE IdleTimeout \/ SetIdleTimeout \/ UNCHANGED queueVars
  BY <1>7, <1>1 DEF IdleTimeout, SetIdleTimeout, queueVars
<1> QED
  BY <1>2, <1>3, <1>4, <1>5, <1>6, <1>7 DEF QueueNext

\* totalProcessed is the number of requests handed out by a flush: none is
\* counted twice, and none that was dequeued, cleared or refused.
THEOREM ProcessedCounted == QueueSpec => []ProcessedCount
BY InitInv, NextInv, InitCount, NextCount, PTL DEF QueueSpec

-----------------------------------------------------------------------------
\* Where a request is in the ledger, in terms of the queue's own state.
LEMMA PlaceIs ==
  ASSUME QueueInv
  PROVE  /\ LedgerPlace \in [Request -> Ledger!Place]
         /\ \A r \in Request : LedgerPlace[r] = "pending" <=> r \in Range(requests)
         /\ \A r \in Request : LedgerPlace[r] = "new" <=> fate[r] = "open" /\ arrival[r] = 0
<1>1. ASSUME NEW r \in Request
      PROVE  /\ LedgerPlace[r] \in Ledger!Place
             /\ LedgerPlace[r] = "pending" <=> r \in Range(requests)
             /\ LedgerPlace[r] = "new" <=> fate[r] = "open" /\ arrival[r] = 0
  <2>1. fate[r] \in Fates /\ arrival[r] \in Nat
    BY DEF QueueInv, QueueTypeOK
  <2>2. r \in Range(requests) <=> arrival[r] > 0 /\ fate[r] = "open"
    BY DEF QueueInv, QueuedOnce
  <2>3. CASE fate[r] = "open"
    BY <2>1, <2>2, <2>3 DEF LedgerPlace, Ledger!Place
  <2>4. CASE fate[r] = "refused"
    BY <2>1, <2>2, <2>4 DEF LedgerPlace, Ledger!Place
  <2>5. CASE fate[r] \in {"dequeued", "flushed"}
    BY <2>1, <2>2, <2>5 DEF LedgerPlace, Ledger!Place
  <2>6. CASE fate[r] = "cleared"
    BY <2>1, <2>2, <2>6 DEF LedgerPlace, Ledger!Place
  <2> QED
    BY <2>1, <2>3, <2>4, <2>5, <2>6 DEF Fates
<1>2. LedgerPlace = [r \in Request |-> LedgerPlace[r]]
  BY DEF LedgerPlace
<1> QED
  BY <1>1, <1>2

LEMMA LedgerInit == QueueInit => Ledger!Init
<1> SUFFICES ASSUME QueueInit PROVE LedgerPlace = [r \in Request |-> "new"]
  BY DEF Ledger!Init
<1>1. Range(requests) = {}
  BY EmptySeq DEF QueueInit, Range
<1> QED
  BY <1>1 DEF QueueInit, LedgerPlace

\* A set of queued requests leaving the queue together is a Leave of the ledger.
LEMMA LedgerLeave ==
  ASSUME QueueInv, QueueInv', NEW S \in SUBSET Range(requests), S # {},
         NEW f \in {"dequeued", "flushed", "cleared"},
         NEW p \in {"handed", "dropped"}, p = (IF f = "cleared" THEN "dropped" ELSE "handed"),
         \A r \in Request : fate'[r] = IF r \in S THEN f ELSE fate[r],
         Range(requests') = Range(requests) \ S
  PROVE  Ledger!Next
<1>1. Range(requests) \subseteq Request
  BY RangeOfSeq DEF QueueInv, QueueTypeOK
<1>2. S \in SUBSET Ledger!Pending
  BY <1>1, PlaceIs DEF Ledger!Pending
<1>3. ASSUME NEW r \in Request
      PROVE  LedgerPlace'[r] = IF r \in S THEN p ELSE LedgerPlace[r]
  <2>1. CASE r \in S
    BY <2>1 DEF LedgerPlace
  <2>2. CASE r \notin S
    <3>1. fate'[r] = fate[r] /\ (r \in Range(requests') <=> r \in Range(requests))
      BY <2>2
    <3> QED
      BY <2>2, <3>1 DEF LedgerPlace
  <2> QED
    BY <2>1, <2>2
<1>4. LedgerPlace' = [r \in Request |-> IF r \in S THEN p ELSE LedgerPlace[r]]
  BY <1>3 DEF LedgerPlace
<1>5. Ledger!Leave(S, p)
  BY <1>4 DEF Ledger!Leave
<1> QED
  BY <1>2, <1>5 DEF Ledger!Next

LEMMA LedgerStep ==
  QueueInv /\ QueueInv' /\ [QueueNext]_queueVars => [Ledger!Next]_(Ledger!ledgerVars)
<1> SUFFICES ASSUME QueueInv, QueueInv', [QueueNext]_queueVars
             PROVE  Ledger!Next \/ LedgerPlace' = LedgerPlace
  BY DEF Ledger!ledgerVars
<1>0. requests \in Seq(Request) /\ IsInjective(requests) /\ Range(requests) \subseteq Request
  BY RangeOfSeq DEF QueueInv, QueueTypeOK, QueuedOnce
<1>e. Range(<<>>) = {}
  BY EmptySeq DEF Range
<1>1. ASSUME NEW r \in Request, Enqueue(r) PROVE Ledger!Next
  <2>1. fate[r] = "open" /\ arrival[r] = 0 /\ LedgerPlace[r] = "new" /\ r \notin Range(requests)
    BY <1>1, PlaceIs DEF Enqueue
  <2>2. CASE fate' = [fate EXCEPT ![r] = "refused"] /\ requests' = requests
    <3>1. \A q \in Request : LedgerPlace'[q] = IF q = r THEN "refused" ELSE LedgerPlace[q]
      BY <2>2 DEF LedgerPlace, QueueInv, QueueTypeOK
    <3>2. LedgerPlace' = [LedgerPlace EXCEPT ![r] = "refused"]
      BY <3>1 DEF LedgerPlace
    <3> QED
      BY <2>1, <3>2 DEF Ledger!Next, Ledger!Offer
  <2>3. CASE fate' = fate /\ requests' = Append(requests, r)
    <3>1. Range(requests') = Range(requests) \cup {r}
      BY <2>1, <2>3, <1>0, AppendFresh
    <3>2. \A q \in Request : LedgerPlace'[q] = IF q = r THEN "pending" ELSE LedgerPlace[q]
      BY <2>1, <2>3, <3>1 DEF LedgerPlace
    <3>3. LedgerPlace' = [LedgerPlace EXCEPT ![r] = "pending"]
      BY <3>2 DEF LedgerPlace
    <3> QED
      BY <2>1, <3>3 DEF Ledger!Next, Ledger!Offer
  <2> QED
    BY <1>1, <2>2, <2>3 DEF Enqueue
<1>2. CASE Dequeue
  <2>1. Head(requests) \in Range(requests) /\ Range(requests') = Range(requests) \ {Head(requests)}
    BY <1>0, <1>2, TailFresh DEF Dequeue
  <2>2. \A r \in Request : fate'[r] = IF r \in {Head(requests)} THEN "dequeued" ELSE fate[r]
    BY <1>2 DEF Dequeue, QueueInv, QueueTypeOK
  <2> QED
    BY <2>1, <2>2, LedgerLeave
<1>3. ASSUME NEW batch \in ByPriority(requests), Flush(batch) PROVE Ledger!Next
  <2>1. Range(requests) # {} /\ Range(requests') = Range(requests) \ Range(requests)
    BY <1>0, <1>3, <1>e, TailFresh DEF Flush
  <2>2. \A r \in Request : fate'[r] = IF r \in Range(requests) THEN "flushed" ELSE fate[r]
    BY <1>3 DEF Flush
  <2> QED
    BY <2>1, <2>2, LedgerLeave
<1>4. CASE Clear
  <2>1. Range(requests') = Range(requests) \ Range(requests)
    BY <1>4, <1>e DEF Clear
  <2>2. \A r \in Request : fate'[r] = IF r \in Range(requests) THEN "cleared" ELSE fate[r]
    BY <1>4 DEF Clear
  <2>3. CASE Range(requests) # {}
    BY <2>1, <2>2, <2>3, LedgerLeave
  <2>4. CASE Range(requests) = {}
    <3>1. \A r \in Request : LedgerPlace'[r] = LedgerPlace[r]
      BY <2>1, <2>2, <2>4 DEF LedgerPlace
    <3> QED
      BY <3>1 DEF LedgerPlace
  <2> QED
    BY <2>3, <2>4
<1>5. CASE UNCHANGED <<fate, requests>>
  BY <1>5 DEF LedgerPlace
<1> QED
  BY <1>1, <1>2, <1>3, <1>4, <1>5
  DEF QueueNext, SetMaxQueueSize, SetMinBatchSize, IdleTimeout, SetIdleTimeout, queueVars

\* The queue implements the ledger: every request is accepted or refused once,
\* and an accepted one leaves once.
THEOREM QueueImplementsLedger == QueueSpec => LedgerSpec
BY InitInv, NextInv, LedgerInit, LedgerStep, PTL DEF QueueSpec, LedgerSpec, Ledger!Spec
-----------------------------------------------------------------------------
(* The submission                                                          *)

\* A handler's bookkeeping: what it has done at each step.
HandlerBooks ==
  \A s \in Submission :
    /\ handler[s].step = "new" =>
         handler[s].batch = {} /\ handler[s].attempt = 0 /\ handler[s].faults = 0
    /\ handler[s].step # "answered" =>
         handler[s].faults <= handler[s].attempt /\ handler[s].answer = "none"

\* A handler holds its body, or requests that only a flush can have given it;
\* requests sent in a body never were in the queue.
BatchesFit ==
  /\ \A s \in Submission : \A r \in handler[s].batch :
       IF BodyOf[s] # {} THEN r \in BodyOf[s] ELSE r \notin Explicit /\ fate[r] = "flushed"
  /\ \A r \in Explicit : arrival[r] = 0 /\ fate[r] = "open"

\* Two handlers share no request.
Disjoint ==
  \A s, t \in Submission : s # t => handler[s].batch \cap handler[t].batch = {}

SubmitInv ==
  /\ QueueInv
  /\ SubmissionTypeOK
  /\ HandlerBooks
  /\ BatchesFit
  /\ Disjoint
  /\ FlushedIsOwned
-----------------------------------------------------------------------------
\* The ways a handler's record changes keep its type.
LEMMA HandlerChanges ==
  ASSUME NEW h \in HandlerState, NEW spent \in BOOLEAN, NEW fault \in {0, 1}
  PROVE  /\ h.attempt \in Nat /\ h.attempt <= RetryMax /\ h.faults \in Nat
         /\ \A batch \in SUBSET Request :
              [h EXCEPT !.step = "sending", !.batch = batch] \in HandlerState
         /\ \A answer \in Answers :
              [h EXCEPT !.step = "answered", !.answer = answer] \in HandlerState
         /\ \A n \in Nat : [h EXCEPT !.step = "tracking", !.job = n] \in HandlerState
         /\ h.attempt < RetryMax /\ h.faults <= h.attempt =>
              Again(h, spent, fault) \in HandlerState
         /\ h.faults <= h.attempt => GiveUp(h, spent, fault) \in HandlerState
<1> USE SubmissionAssumption
<1>0. /\ h.attempt \in Nat /\ h.attempt <= RetryMax
      /\ h.faults \in Nat /\ h.faults <= RetryMax + 1
  BY DEF HandlerState
<1>1. \A batch \in SUBSET Request :
        [h EXCEPT !.step = "sending", !.batch = batch] \in HandlerState
  BY DEF HandlerState
<1>2. \A answer \in Answers :
        [h EXCEPT !.step = "answered", !.answer = answer] \in HandlerState
  BY DEF HandlerState
<1>3. \A n \in Nat : [h EXCEPT !.step = "tracking", !.job = n] \in HandlerState
  BY DEF HandlerState
<1>4. ASSUME h.attempt < RetryMax, h.faults <= h.attempt
      PROVE  Again(h, spent, fault) \in HandlerState
  <2>1. h.attempt + 1 \in 0..RetryMax /\ h.faults + fault \in 0..(RetryMax + 1)
    BY <1>0, <1>4
  <2> QED BY <2>1 DEF HandlerState, Again
<1>5. ASSUME h.faults <= h.attempt
      PROVE  GiveUp(h, spent, fault) \in HandlerState
  <2>1. h.faults + fault \in 0..(RetryMax + 1)
    BY <1>0, <1>5
  <2> QED BY <2>1 DEF HandlerState, Answers, GiveUp
<1> QED BY <1>0, <1>1, <1>2, <1>3, <1>4, <1>5

\* What any step past "new" does to a handler: its own record only, the same
\* batch, and either one attempt more or an end to the attempts.
Moves(s, v) ==
  /\ handler' = [handler EXCEPT ![s] = v]
  /\ v.batch = handler[s].batch /\ v.step # "new"
  /\ v.step # "answered" => v.faults <= v.attempt /\ v.answer = "none"

LEMMA RetryMoves ==
  ASSUME SubmissionTypeOK, HandlerBooks, NEW s \in Submission, handler[s].step = "sending",
         NEW spent \in BOOLEAN, NEW fault \in {0, 1}, Retry(s, spent, fault)
  PROVE  \E v \in HandlerState :
           /\ Moves(s, v) /\ v.faults = handler[s].faults + fault
           /\ v.step \in {"sending", "answered"} /\ v.answer \in {"none", "gaveup"}
           /\ v.step = "sending" => v.attempt = handler[s].attempt + 1
<1>0. handler[s] \in HandlerState /\ handler \in [Submission -> HandlerState]
  BY DEF SubmissionTypeOK
<1>1. handler[s].faults <= handler[s].attempt /\ handler[s].answer = "none"
  BY DEF HandlerBooks
<1>2. CASE handler[s].attempt < RetryMax
  <2> DEFINE v == Again(handler[s], spent, fault)
  <2>1. v \in HandlerState
    BY <1>0, <1>1, <1>2, HandlerChanges
  <2>2. /\ v.batch = handler[s].batch /\ v.step = "sending" /\ v.answer = "none"
        /\ v.faults = handler[s].faults + fault /\ v.attempt = handler[s].attempt + 1
    BY <1>0, <1>1 DEF HandlerState, Again
  <2>3. handler' = [handler EXCEPT ![s] = v]
    BY <1>2 DEF Retry
  <2>4. v.faults <= v.attempt
    <3>1. handler[s].attempt \in Nat /\ handler[s].faults \in Nat
      BY <1>0, HandlerChanges
    <3> QED BY <3>1, <1>1, <2>2
  <2> HIDE DEF v
  <2> QED BY <2>1, <2>2, <2>3, <2>4 DEF Moves
<1>3. CASE ~(handler[s].attempt < RetryMax)
  <2> DEFINE v == GiveUp(handler[s], spent, fault)
  <2>1. v \in HandlerState
    BY <1>0, <1>1, HandlerChanges
  <2>2. /\ v.batch = handler[s].batch /\ v.step = "answered" /\ v.answer = "gaveup"
        /\ v.faults = handler[s].faults + fault
    BY <1>0 DEF HandlerState, GiveUp
  <2>3. handler' = [handler EXCEPT ![s] = v]
    BY <1>3 DEF Retry
  <2> HIDE DEF v
  <2> QED BY <2>1, <2>2, <2>3 DEF Moves
<1> QED BY <1>2, <1>3

LEMMA AnswerMoves ==
  ASSUME SubmissionTypeOK, NEW s \in Submission, NEW answer \in Answers, Answer(s, answer)
  PROVE  \E v \in HandlerState :
           /\ Moves(s, v) /\ v.faults = handler[s].faults /\ v.job = handler[s].job
           /\ v.step = "answered" /\ v.answer = answer
<1>0. handler[s] \in HandlerState
  BY DEF SubmissionTypeOK
<1> DEFINE v == [handler[s] EXCEPT !.step = "answered", !.answer = answer]
<1>1. v \in HandlerState
  BY <1>0, HandlerChanges
<1>2. /\ v.batch = handler[s].batch /\ v.step = "answered" /\ v.answer = answer
      /\ v.faults = handler[s].faults /\ v.job = handler[s].job
  BY <1>0 DEF HandlerState
<1>3. handler' = [handler EXCEPT ![s] = v]
  BY DEF Answer
<1> HIDE DEF v
<1> QED BY <1>1, <1>2, <1>3 DEF Moves

LEMMA CreatedMoves ==
  ASSUME SubmissionTypeOK, HandlerBooks, NEW s \in Submission, Created(s)
  PROVE  \E v \in HandlerState :
           /\ Moves(s, v) /\ v.faults = handler[s].faults
           /\ v.step = "tracking" /\ v.job = Len(remote')
<1>0. handler[s] \in HandlerState /\ handler[s].step = "sending"
  BY DEF SubmissionTypeOK, Created
<1>1. Len(remote') \in Nat
  BY <1>0, AppendProperties, LenProperties DEF Created, Create, SubmissionTypeOK, HandlerState
<1> DEFINE v == [handler[s] EXCEPT !.step = "tracking", !.job = Len(remote')]
<1>2. v \in HandlerState
  BY <1>0, <1>1, HandlerChanges
<1>3. /\ v.batch = handler[s].batch /\ v.step = "tracking" /\ v.answer = handler[s].answer
      /\ v.faults = handler[s].faults /\ v.attempt = handler[s].attempt /\ v.job = Len(remote')
  BY <1>0 DEF HandlerState
<1>4. handler' = [handler EXCEPT ![s] = v]
  BY DEF Created
<1>5. v.faults <= v.attempt /\ v.answer = "none"
  BY <1>0, <1>3 DEF HandlerBooks
<1> HIDE DEF v
<1> QED BY <1>2, <1>3, <1>4, <1>5 DEF Moves
-----------------------------------------------------------------------------
(* Ownership                                                               *)

\* The queue's own invariant and what hangs on the queue's variables, when the
\* queue does nothing.
LEMMA QueueRests ==
  ASSUME QueueInv, UNCHANGED queueVars
  PROVE  QueueInv'
  BY NextInv

\* A handler that moves on with its batch disturbs nobody.
LEMMA MovesKeep ==
  ASSUME SubmitInv, NEW s \in Submission, NEW v \in HandlerState, Moves(s, v),
         UNCHANGED queueVars,
         remote' \in Seq([by : Submission, holds : SUBSET Request]),
         \A t \in jobs' : t.job \in 1..Len(remote') /\ t.count \in Nat
  PROVE  SubmitInv'
<1> USE DEF SubmitInv
<1>0. handler \in [Submission -> HandlerState]
  BY DEF SubmissionTypeOK
<1>1. /\ \A t \in Submission : handler'[t] = IF t = s THEN v ELSE handler[t]
      /\ \A t \in Submission : handler'[t].batch = handler[t].batch
      /\ handler' \in [Submission -> HandlerState]
  BY <1>0 DEF Moves
<1>2. SubmissionTypeOK'
  BY <1>1 DEF SubmissionTypeOK
<1>3. HandlerBooks'
  BY <1>1 DEF HandlerBooks, Moves
<1>4. fate' = fate /\ arrival' = arrival
  BY DEF queueVars
<1>5. BatchesFit'
  BY <1>1, <1>4 DEF BatchesFit
<1>6. Disjoint' /\ FlushedIsOwned'
  BY <1>1, <1>4 DEF Disjoint, FlushedIsOwned
<1> QED BY <1>2, <1>3, <1>5, <1>6, QueueRests

\* The API's list grows by the batch of the handler.
LEMMA CreateType ==
  ASSUME SubmissionTypeOK, NEW s \in Submission, Create(s)
  PROVE  /\ remote' \in Seq([by : Submission, holds : SUBSET Request])
         /\ Len(remote) \in Nat /\ Len(remote') = Len(remote) + 1
         /\ \A n \in 1..Len(remote) : remote'[n] = remote[n]
         /\ remote'[Len(remote')] = [by |-> s, holds |-> handler[s].batch]
<1>1. [by |-> s, holds |-> handler[s].batch] \in [by : Submission, holds : SUBSET Request]
  BY DEF SubmissionTypeOK, HandlerState
<1> QED
  BY <1>1, AppendProperties, LenProperties DEF Create, SubmissionTypeOK

LEMMA AttemptKeeps ==
  ASSUME SubmitInv, NEW s \in Submission, Attempt(s)
  PROVE  SubmitInv'
<1>0. /\ SubmissionTypeOK /\ HandlerBooks /\ handler[s].step = "sending"
      /\ handler[s].spent \in BOOLEAN
      /\ UNCHANGED queueVars /\ jobs' = jobs
  BY DEF SubmitInv, SubmissionTypeOK, HandlerState, Attempt, NoConnection, BodySpent, Busy,
         Refused, CreatedUnseen, CreatedGarbled, Created
<1>1. \E v \in HandlerState : Moves(s, v)
  <2>1. CASE \E spent \in BOOLEAN, fault \in {0, 1} : Retry(s, spent, fault)
    BY <1>0, <2>1, RetryMoves
  <2>2. CASE Answer(s, "refused")
    BY <1>0, <2>2, AnswerMoves DEF Answers
  <2>3. CASE Created(s)
    BY <1>0, <2>3, CreatedMoves
  <2> QED
    BY <1>0, <2>1, <2>2, <2>3 DEF Attempt, NoConnection, BodySpent, Busy, Refused,
                                  CreatedUnseen, CreatedGarbled
<1>2. /\ remote' \in Seq([by : Submission, holds : SUBSET Request])
      /\ Len(remote) \in Nat /\ Len(remote') \in Nat /\ Len(remote) <= Len(remote')
  <2>1. CASE remote' = remote
    BY <1>0, <2>1, LenProperties DEF SubmissionTypeOK
  <2>2. CASE Create(s)
    <3>1. /\ remote' \in Seq([by : Submission, holds : SUBSET Request])
          /\ Len(remote) \in Nat /\ Len(remote') = Len(remote) + 1
      BY <1>0, <2>2, CreateType
    <3>2. Len(remote') \in Nat /\ Len(remote) <= Len(remote')
      BY <3>1
    <3> QED BY <3>1, <3>2
  <2> QED
    BY <2>1, <2>2 DEF Attempt, NoConnection, BodySpent, Busy, Refused, CreatedUnseen,
                      CreatedGarbled, Created
<1>3. \A t \in jobs' : t.job \in 1..Len(remote') /\ t.count \in Nat
  BY <1>0, <1>2 DEF SubmissionTypeOK
<1> QED BY <1>0, <1>1, <1>2, <1>3, MovesKeep

LEMMA TrackKeeps ==
  ASSUME SubmitInv, NEW s \in Submission, Track(s),
         handler[s].job \in 1..Len(remote)
  PROVE  SubmitInv'
<1>1. \E v \in HandlerState : Moves(s, v)
  <2>1. CASE Answer(s, "untracked")
    BY <2>1, AnswerMoves DEF Answers, SubmitInv
  <2>2. CASE Answer(s, "created")
    BY <2>2, AnswerMoves DEF Answers, SubmitInv
  <2> QED BY <2>1, <2>2 DEF Track
<1>2. Cardinality(handler[s].batch) \in Nat
  BY RequestAssumption, FS_Subset, FS_CardinalityType DEF SubmitInv, SubmissionTypeOK, HandlerState
<1>3. \A t \in jobs' : t.job \in 1..Len(remote) /\ t.count \in Nat
  BY <1>2 DEF Track, SubmitInv, SubmissionTypeOK
<1>4. UNCHANGED queueVars /\ remote' = remote
  BY DEF Track
<1>5. remote' \in Seq([by : Submission, holds : SUBSET Request])
  BY <1>4 DEF SubmitInv, SubmissionTypeOK
<1> QED BY <1>1, <1>3, <1>4, <1>5, MovesKeep

LEMMA NothingKeeps ==
  ASSUME SubmitInv, NEW s \in Submission, SubmitNothing(s)
  PROVE  SubmitInv'
<1>1. \E v \in HandlerState : Moves(s, v)
  BY AnswerMoves DEF SubmitNothing, Answers, SubmitInv
<1>2. UNCHANGED <<queueVars, remote, jobs>>
  BY DEF SubmitNothing
<1> QED BY <1>1, <1>2, MovesKeep DEF SubmitInv, SubmissionTypeOK

\* A handler takes its first requests.
LEMMA SendingType ==
  ASSUME SubmissionTypeOK, HandlerBooks, NEW s \in Submission, handler[s].step = "new",
         NEW batch \in SUBSET Request, Sending(s, batch)
  PROVE  /\ handler' \in [Submission -> HandlerState]
         /\ \A t \in Submission : t # s => handler'[t] = handler[t]
         /\ handler'[s].batch = batch /\ handler[s].batch = {}
         /\ HandlerBooks'
<1>0. handler[s] \in HandlerState /\ handler \in [Submission -> HandlerState]
  BY DEF SubmissionTypeOK
<1> DEFINE v == [handler[s] EXCEPT !.step = "sending", !.batch = batch]
<1>1. v \in HandlerState
  BY <1>0, HandlerChanges
<1>2. /\ v.batch = batch /\ v.step = "sending" /\ v.answer = handler[s].answer
      /\ v.attempt = handler[s].attempt /\ v.faults = handler[s].faults
  BY <1>0 DEF HandlerState
<1>3. handler' = [handler EXCEPT ![s] = v]
  BY DEF Sending
<1>4. handler[s].batch = {}
  BY DEF HandlerBooks
<1> HIDE DEF v
<1>5. \A t \in Submission : handler'[t] = IF t = s THEN v ELSE handler[t]
  BY <1>0, <1>3
<1>6. HandlerBooks'
  BY <1>2, <1>5 DEF HandlerBooks
<1> QED BY <1>0, <1>1, <1>2, <1>3, <1>4, <1>5, <1>6

LEMMA BodyKeeps ==
  ASSUME SubmitInv, NEW s \in Submission, SubmitBody(s)
  PROVE  SubmitInv'
<1> USE DEF SubmitInv
<1>0. BodyOf[s] \in SUBSET Request /\ BodyOf[s] # {} /\ UNCHANGED <<queueVars, remote, jobs>>
  BY SubmissionAssumption DEF SubmitBody
<1>1. /\ handler' \in [Submission -> HandlerState]
      /\ \A t \in Submission : t # s => handler'[t] = handler[t]
      /\ handler'[s].batch = BodyOf[s] /\ handler[s].batch = {}
      /\ HandlerBooks'
  BY <1>0, SendingType DEF SubmitBody
<1>2. SubmissionTypeOK'
  BY <1>0, <1>1 DEF SubmissionTypeOK
<1>3. fate' = fate /\ arrival' = arrival
  BY <1>0 DEF queueVars
<1>4. BatchesFit'
  BY <1>0, <1>1, <1>3 DEF BatchesFit
<1>5. \A t \in Submission : t # s => handler'[t].batch \cap BodyOf[s] = {}
  BY <1>1, SubmissionAssumption DEF BatchesFit, Explicit
<1>6. Disjoint'
  BY <1>1, <1>5 DEF Disjoint
<1>7. FlushedIsOwned'
  BY <1>1, <1>3 DEF FlushedIsOwned
<1> QED BY <1>0, <1>1, <1>2, <1>4, <1>6, <1>7, QueueRests

\* Two handlers cannot both have what one flush took out.
LEMMA FlushKeeps ==
  ASSUME SubmitInv, NEW s \in Submission, SubmitQueue(s)
  PROVE  SubmitInv'
<1> USE DEF SubmitInv
<1>0. PICK batch \in ByPriority(requests) : Flush(batch) /\ Sending(s, Range(batch))
  BY DEF SubmitQueue
<1>1. Range(batch) = Range(requests) /\ Range(requests) \subseteq Request
  BY RangeOfSeq DEF ByPriority, QueueInv, QueueTypeOK
<1>2. /\ handler' \in [Submission -> HandlerState]
      /\ \A t \in Submission : t # s => handler'[t] = handler[t]
      /\ handler'[s].batch = Range(requests) /\ handler[s].batch = {}
      /\ HandlerBooks'
  BY <1>0, <1>1, SendingType DEF SubmitQueue
<1>3. SubmissionTypeOK'
  BY <1>2 DEF SubmissionTypeOK, SubmitQueue
<1>4. /\ arrival' = arrival
      /\ \A r \in Request : fate'[r] = IF r \in Range(requests) THEN "flushed" ELSE fate[r]
  BY <1>0 DEF Flush
<1>5. \A r \in Range(requests) : r \in Request /\ arrival[r] > 0 /\ fate[r] = "open" /\ r \notin Explicit
  BY <1>1, SubmissionAssumption DEF QueueInv, QueuedOnce, BatchesFit
<1>6. \A t \in Submission : \A r \in handler[t].batch : r \in Request /\ r \notin Range(requests)
  <2>1. \A t \in Submission : handler[t].batch \subseteq Request
    BY DEF SubmissionTypeOK, HandlerState
  <2>2. \A t \in Submission : \A r \in BodyOf[t] : r \in Explicit
    BY DEF Explicit
  <2> QED BY <2>1, <2>2, <1>5 DEF BatchesFit
<1>7. BatchesFit'
  <2>1. BodyOf[s] = {}
    BY DEF SubmitQueue
  <2>2. \A r \in Explicit : r \in Request
    BY SubmissionAssumption DEF Explicit
  <2> QED BY <2>1, <2>2, <1>2, <1>4, <1>5, <1>6 DEF BatchesFit
<1>8. Disjoint'
  BY <1>2, <1>6 DEF Disjoint
<1>9. FlushedIsOwned'
  BY <1>2, <1>4 DEF FlushedIsOwned
<1>10. QueueInv'
  BY <1>0, NextInv DEF QueueNext
<1> QED BY <1>2, <1>3, <1>7, <1>8, <1>9, <1>10

LEMMA QueueKeeps ==
  ASSUME SubmitInv, NEW r \in Request, Queue(r)
  PROVE  SubmitInv'
<1> USE DEF SubmitInv
<1>0. r \notin Explicit /\ Enqueue(r) /\ UNCHANGED <<remote, jobs, handler>>
  BY DEF Queue
<1>1. QueueInv'
  BY <1>0, NextInv DEF QueueNext
<1>2. /\ fate[r] = "open"
      /\ \A q \in Request : q # r => fate'[q] = fate[q] /\ arrival'[q] = arrival[q]
      /\ fate'[r] \in {"open", "refused"}
  BY <1>0 DEF Enqueue, QueueInv, QueueTypeOK
<1>3. \A s \in Submission : handler[s].batch \subseteq Request /\ BodyOf[s] \subseteq Explicit
  BY DEF SubmissionTypeOK, HandlerState, Explicit
<1>4. Explicit \subseteq Request
  BY SubmissionAssumption DEF Explicit
<1>5. BatchesFit'
  BY <1>0, <1>2, <1>3, <1>4 DEF BatchesFit
<1>6. FlushedIsOwned'
  BY <1>0, <1>2 DEF FlushedIsOwned
<1> QED BY <1>0, <1>1, <1>5, <1>6 DEF SubmissionTypeOK, HandlerBooks, Disjoint
-----------------------------------------------------------------------------
(* Which remote batch a handler speaks of                                  *)

Named(s) == /\ handler[s].job \in 1..Len(remote)
            /\ remote[handler[s].job] = [by |-> s, holds |-> handler[s].batch]

\* A job a handler has in hand is its own; what is tracked was answered 201,
\* and names the answer's job.
TrackedRight ==
  /\ \A s \in Submission : handler[s].step = "tracking" => Named(s)
  /\ \A s \in Submission : handler[s].answer = "created" =>
       Named(s) /\ [job |-> handler[s].job, count |-> Cardinality(handler[s].batch)] \in jobs
  /\ \A t \in jobs : \E s \in Submission :
       /\ handler[s].answer = "created" /\ Named(s)
       /\ t = [job |-> handler[s].job, count |-> Cardinality(handler[s].batch)]

\* Batches created beyond the one in hand were paid for with a fault each.
InHand(h) == IF h.step \in {"new", "sending"} THEN 0 ELSE 1
CreatedCount ==
  \A s \in Submission :
    IsFiniteSet(JobsOf(s)) /\ Cardinality(JobsOf(s)) <= handler[s].faults + InHand(handler[s])

LEMMA SameJobs ==
  ASSUME remote' = remote, NEW s
  PROVE  JobsOf(s)' = JobsOf(s)
  BY DEF JobsOf

LEMMA GrownJobs ==
  ASSUME SubmissionTypeOK, NEW s \in Submission, Create(s), NEW t \in Submission
  PROVE  JobsOf(t)' = IF t = s THEN JobsOf(t) \cup {Len(remote) + 1} ELSE JobsOf(t)
<1>1. /\ Len(remote) \in Nat /\ Len(remote') = Len(remote) + 1
      /\ \A n \in 1..Len(remote) : remote'[n] = remote[n]
      /\ remote'[Len(remote')] = [by |-> s, holds |-> handler[s].batch]
  BY CreateType
<1>2. 1..Len(remote') = 1..Len(remote) \cup {Len(remote) + 1}
  BY <1>1
<1>3. remote'[Len(remote) + 1].by = s
  BY <1>1
<1>4. JobsOf(t)' = {n \in 1..Len(remote') : remote'[n].by = t}
  BY DEF JobsOf
<1> QED BY <1>1, <1>2, <1>3, <1>4 DEF JobsOf

\* A handler that has not been answered moves on; it may have created a batch.
LEMMA MovesRight ==
  ASSUME SubmitInv, TrackedRight, NEW s \in Submission, NEW v \in HandlerState, Moves(s, v),
         handler[s].step \in {"new", "sending"}, jobs' = jobs,
         remote' = remote \/ Create(s),
         v.answer # "created",
         v.step = "tracking" => Create(s) /\ v.job = Len(remote')
  PROVE  TrackedRight'
<1>0. \A t \in Submission : handler'[t] = IF t = s THEN v ELSE handler[t]
  BY DEF Moves, SubmitInv, SubmissionTypeOK
<1>1. handler[s].answer = "none"
  BY DEF SubmitInv, HandlerBooks
<1>2. ASSUME NEW t \in Submission, t # s, Named(t)
      PROVE  Named(t)'
  <2>1. CASE remote' = remote
    BY <1>0, <1>2, <2>1 DEF Named
  <2>2. CASE Create(s)
    <3>1. /\ Len(remote) \in Nat /\ Len(remote') = Len(remote) + 1
          /\ \A n \in 1..Len(remote) : remote'[n] = remote[n]
      BY <2>2, CreateType DEF SubmitInv
    <3>2. handler'[t] = handler[t] /\ handler[t].job \in 1..Len(remote)
      BY <1>0, <1>2 DEF Named
    <3>3. handler[t].job \in 1..Len(remote')
      BY <3>1, <3>2
    <3> QED BY <1>2, <3>1, <3>2, <3>3 DEF Named
  <2> QED BY <2>1, <2>2
<1>3. v.step = "tracking" => Named(s)'
  <2> SUFFICES ASSUME v.step = "tracking" PROVE Named(s)'
    OBVIOUS
  <2>1. /\ Len(remote') \in 1..Len(remote')
        /\ remote'[Len(remote')] = [by |-> s, holds |-> handler[s].batch]
    <3>1. Len(remote) \in Nat /\ Len(remote') = Len(remote) + 1
      BY CreateType DEF SubmitInv
    <3>2. remote'[Len(remote')] = [by |-> s, holds |-> handler[s].batch]
      BY CreateType DEF SubmitInv
    <3>3. Len(remote') \in 1..Len(remote')
      BY <3>1
    <3> QED BY <3>2, <3>3
  <2>2. handler'[s] = v /\ v.batch = handler[s].batch /\ v.job = Len(remote')
    BY <1>0 DEF Moves
  <2> QED BY <2>1, <2>2 DEF Named
<1> QED BY <1>0, <1>1, <1>2, <1>3 DEF TrackedRight

LEMMA MovesCount ==
  ASSUME SubmitInv, CreatedCount, NEW s \in Submission, NEW v \in HandlerState, Moves(s, v),
         \/ remote' = remote /\ v.faults + InHand(v) >= handler[s].faults + InHand(handler[s])
         \/ Create(s) /\ v.faults + InHand(v) >= handler[s].faults + InHand(handler[s]) + 1
  PROVE  CreatedCount'
<1>0. /\ \A t \in Submission : handler'[t] = IF t = s THEN v ELSE handler[t]
      /\ handler[s] \in HandlerState /\ SubmissionTypeOK
  BY DEF Moves, SubmitInv, SubmissionTypeOK
<1>1. \A h \in HandlerState : h.faults \in Nat /\ InHand(h) \in {0, 1}
  BY SubmissionAssumption DEF HandlerState, InHand
<1> SUFFICES ASSUME NEW t \in Submission
             PROVE  /\ IsFiniteSet(JobsOf(t)')
                    /\ Cardinality(JobsOf(t)') <= handler'[t].faults + InHand(handler'[t])
  BY DEF CreatedCount, InHand
<1>2. IsFiniteSet(JobsOf(t)) /\ Cardinality(JobsOf(t)) \in Nat
      /\ Cardinality(JobsOf(t)) <= handler[t].faults + InHand(handler[t])
  BY FS_CardinalityType DEF CreatedCount
<1>3. CASE JobsOf(t)' = JobsOf(t)
           /\ handler'[t].faults + InHand(handler'[t]) >= handler[t].faults + InHand(handler[t])
  <2>1. handler[t] \in HandlerState /\ handler'[t] \in HandlerState
    BY <1>0 DEF SubmissionTypeOK
  <2>2. /\ handler[t].faults + InHand(handler[t]) \in Nat
        /\ handler'[t].faults + InHand(handler'[t]) \in Nat
    BY <1>1, <2>1
  <2> QED BY <1>2, <1>3, <2>2
<1>4. CASE t = s /\ Create(s)
  <2>1. JobsOf(t)' = JobsOf(t) \cup {Len(remote) + 1}
    BY <1>0, <1>4, GrownJobs
  <2>2. IsFiniteSet(JobsOf(t)') /\ Cardinality(JobsOf(t)') <= Cardinality(JobsOf(t)) + 1
        /\ Cardinality(JobsOf(t)') \in Nat
    <3> DEFINE S == JobsOf(t)
               n == Len(remote) + 1
    <3>1. IsFiniteSet(S) /\ Cardinality(S) \in Nat
      BY <1>2
    <3> HIDE DEF S, n
    <3>2. /\ IsFiniteSet(S \cup {n})
          /\ Cardinality(S \cup {n}) = Cardinality(S) \/ Cardinality(S \cup {n}) = Cardinality(S) + 1
      <4>1. CASE n \in S
        <5>1. S \cup {n} = S
          BY <4>1
        <5> QED BY <3>1, <5>1
      <4>2. CASE n \notin S
        BY <3>1, <4>2, FS_AddElement
      <4> QED BY <4>1, <4>2
    <3>3. Cardinality(S \cup {n}) \in Nat /\ Cardinality(S \cup {n}) <= Cardinality(S) + 1
      BY <3>1, <3>2
    <3> USE DEF S, n
    <3> QED BY <2>1, <3>2, <3>3
  <2>3. v.faults + InHand(v) >= handler[s].faults + InHand(handler[s]) + 1
    <3>1. Len(remote') = Len(remote) + 1 /\ Len(remote) \in Nat
      BY <1>0, <1>4, CreateType
    <3>2. remote' # remote
      BY <3>1
    <3> QED BY <3>2, <1>4
  <2>4. v.faults + InHand(v) \in Nat /\ handler[s].faults + InHand(handler[s]) \in Nat
    BY <1>0, <1>1
  <2>5. handler'[t] = v
    BY <1>0, <1>4
  <2> QED BY <1>2, <1>4, <2>2, <2>3, <2>4, <2>5
<1>5. CASE t # s /\ Create(s)
  <2>1. handler'[t] = handler[t] /\ handler[t] \in HandlerState
    BY <1>0, <1>5 DEF SubmissionTypeOK
  <2>2. handler[t].faults + InHand(handler[t]) \in Nat
    BY <1>1, <2>1
  <2> QED BY <1>0, <1>3, <1>5, <2>1, <2>2, GrownJobs
<1>6. CASE remote' = remote
  <2>1. CASE t = s
    <3>1. remote' # Append(remote, [by |-> s, holds |-> handler[s].batch])
      <4>1. Create(s) => Len(remote') = Len(remote) + 1 /\ Len(remote) \in Nat
        BY <1>0, CreateType
      <4> QED BY <1>6, <4>1 DEF Create
    <3> QED BY <1>0, <1>3, <1>6, <2>1, <3>1, SameJobs DEF Create
  <2>2. CASE t # s
    <3>1. handler'[t] = handler[t] /\ handler[t] \in HandlerState
      BY <1>0, <2>2 DEF SubmissionTypeOK
    <3>2. handler[t].faults + InHand(handler[t]) \in Nat
      BY <1>1, <3>1
    <3> QED BY <1>3, <1>6, <3>1, <3>2, SameJobs
  <2> QED BY <2>1, <2>2
<1> QED BY <1>4, <1>5, <1>6

LEMMA AttemptRight ==
  ASSUME SubmitInv, TrackedRight, CreatedCount, NEW s \in Submission, Attempt(s)
  PROVE  TrackedRight' /\ CreatedCount'
<1>a. SubmissionTypeOK /\ HandlerBooks /\ handler[s] \in HandlerState
  BY DEF SubmitInv, SubmissionTypeOK
<1>b. handler[s].step = "sending" /\ jobs' = jobs
  BY DEF Attempt, NoConnection, BodySpent, Busy, Refused, CreatedUnseen, CreatedGarbled, Created
<1>c. handler[s].spent \in BOOLEAN /\ handler[s].faults \in Nat
  BY <1>a, HandlerChanges DEF HandlerState
<1>0. /\ SubmissionTypeOK /\ HandlerBooks /\ handler[s].step = "sending"
      /\ handler[s].spent \in BOOLEAN /\ handler[s].faults \in Nat /\ InHand(handler[s]) = 0
      /\ jobs' = jobs
  BY <1>a, <1>b, <1>c DEF InHand
<1>1. CASE remote' = remote /\ \E spent \in BOOLEAN, fault \in {0, 1} : Retry(s, spent, fault)
  <2>1. PICK spent \in BOOLEAN, fault \in {0, 1} : Retry(s, spent, fault)
    BY <1>1
  <2>2. PICK v \in HandlerState :
           /\ Moves(s, v) /\ v.faults = handler[s].faults + fault
           /\ v.step \in {"sending", "answered"} /\ v.answer \in {"none", "gaveup"}
           /\ v.step = "sending" => v.attempt = handler[s].attempt + 1
    BY <1>0, <2>1, RetryMoves
  <2>3. v.faults + InHand(v) >= handler[s].faults + InHand(handler[s])
    BY <1>0, <2>2 DEF InHand
  <2> QED BY <1>0, <1>1, <2>2, <2>3, MovesRight, MovesCount
<1>2. CASE Create(s) /\ Retry(s, TRUE, 1)
  <2>1. PICK v \in HandlerState :
           /\ Moves(s, v) /\ v.faults = handler[s].faults + 1
           /\ v.step \in {"sending", "answered"} /\ v.answer \in {"none", "gaveup"}
    BY <1>0, <1>2, RetryMoves
  <2>2. v.faults + InHand(v) >= handler[s].faults + InHand(handler[s]) + 1
    BY <1>0, <2>1 DEF InHand
  <2> QED BY <1>0, <1>2, <2>1, <2>2, MovesRight, MovesCount
<1>3. CASE (remote' = remote \/ Create(s)) /\ Answer(s, "refused")
  <2>1. PICK v \in HandlerState :
           /\ Moves(s, v) /\ v.faults = handler[s].faults
           /\ v.step = "answered" /\ v.answer = "refused"
    BY <1>0, <1>3, AnswerMoves DEF Answers
  <2>2. v.faults + InHand(v) >= handler[s].faults + InHand(handler[s]) + 1
    BY <1>0, <2>1 DEF InHand
  <2>3. v.faults + InHand(v) >= handler[s].faults + InHand(handler[s])
    BY <1>0, <2>1 DEF InHand
  <2> QED BY <1>0, <1>3, <2>1, <2>2, <2>3, MovesRight, MovesCount
<1>4. CASE Created(s)
  <2>1. PICK v \in HandlerState :
           /\ Moves(s, v) /\ v.faults = handler[s].faults
           /\ v.step = "tracking" /\ v.job = Len(remote')
    BY <1>0, <1>4, CreatedMoves
  <2>2. v.answer = "none" /\ Create(s)
    BY <1>4, <2>1 DEF Moves, Created
  <2>3. v.faults + InHand(v) >= handler[s].faults + InHand(handler[s]) + 1
    BY <1>0, <2>1 DEF InHand
  <2> QED BY <1>0, <2>1, <2>2, <2>3, MovesRight, MovesCount
<1> QED
  BY <1>0, <1>1, <1>2, <1>3, <1>4
  DEF Attempt, NoConnection, BodySpent, Busy, Refused, CreatedUnseen, CreatedGarbled

\* TrackJob has not seen the id: every tracked job is the answer's of another
\* handler, and two handlers never have the same job in hand.
LEMMA TrackRight ==
  ASSUME SubmitInv, TrackedRight, CreatedCount, NEW s \in Submission, Track(s)
  PROVE  TrackedRight' /\ CreatedCount'
<1>0. /\ SubmissionTypeOK /\ HandlerBooks /\ handler[s].step = "tracking"
      /\ handler[s].faults \in Nat /\ InHand(handler[s]) = 1
      /\ remote' = remote
  BY SubmissionAssumption DEF SubmitInv, SubmissionTypeOK, HandlerState, InHand, Track
<1>1. Named(s) /\ handler[s].answer = "none"
  BY <1>0 DEF TrackedRight, HandlerBooks
<1>2. ASSUME NEW t \in jobs PROVE t.job # handler[s].job
  <2>1. PICK u \in Submission :
           /\ handler[u].answer = "created" /\ Named(u)
           /\ t = [job |-> handler[u].job, count |-> Cardinality(handler[u].batch)]
    BY DEF TrackedRight
  <2>2. remote[t.job].by = u /\ remote[handler[s].job].by = s /\ u # s
    BY <1>1, <2>1 DEF Named
  <2> QED BY <2>2
<1>3. /\ jobs' = jobs \cup {[job |-> handler[s].job, count |-> Cardinality(handler[s].batch)]}
      /\ Answer(s, "created")
  BY <1>2 DEF Track
<1>4. PICK v \in HandlerState :
         /\ Moves(s, v) /\ v.faults = handler[s].faults /\ v.job = handler[s].job
         /\ v.step = "answered" /\ v.answer = "created"
  BY <1>0, <1>3, AnswerMoves DEF Answers
<1>5. \A t \in Submission : handler'[t] = IF t = s THEN v ELSE handler[t]
  BY <1>0, <1>4 DEF Moves, SubmissionTypeOK
<1>6. \A t \in Submission : /\ handler'[t].job = handler[t].job
                            /\ handler'[t].batch = handler[t].batch
                            /\ Named(t)' = Named(t)
  BY <1>0, <1>4, <1>5 DEF Moves, Named
<1>7. TrackedRight'
  <2>1. \A t \in Submission : handler'[t].step = "tracking" => Named(t)'
    BY <1>4, <1>5, <1>6 DEF TrackedRight
  <2>2. \A t \in Submission : handler'[t].answer = "created" =>
          Named(t)' /\ [job |-> handler'[t].job, count |-> Cardinality(handler'[t].batch)] \in jobs'
    BY <1>1, <1>3, <1>5, <1>6 DEF TrackedRight
  <2>3. \A j \in jobs' : \E t \in Submission :
          /\ handler'[t].answer = "created" /\ Named(t)'
          /\ j = [job |-> handler'[t].job, count |-> Cardinality(handler'[t].batch)]
    <3>1. ASSUME NEW j \in jobs
          PROVE  \E t \in Submission :
                   /\ handler'[t].answer = "created" /\ Named(t)'
                   /\ j = [job |-> handler'[t].job, count |-> Cardinality(handler'[t].batch)]
      BY <1>1, <1>5, <1>6 DEF TrackedRight
    <3>2. /\ handler'[s].answer = "created" /\ Named(s)'
          /\ handler'[s].job = handler[s].job /\ handler'[s].batch = handler[s].batch
      BY <1>1, <1>4, <1>5, <1>6
    <3> QED BY <1>3, <3>1, <3>2
  <2> QED BY <2>1, <2>2, <2>3 DEF TrackedRight
<1>8. v.faults + InHand(v) >= handler[s].faults + InHand(handler[s])
  BY <1>0, <1>4 DEF InHand
<1> QED BY <1>0, <1>4, <1>7, <1>8, MovesCount

\* The first step of a handler, and a step of the queue.
LEMMA FirstRight ==
  ASSUME SubmitInv, TrackedRight, CreatedCount, NEW s \in Submission,
         SubmitBody(s) \/ SubmitQueue(s) \/ SubmitNothing(s)
  PROVE  TrackedRight' /\ CreatedCount'
<1>0. /\ SubmissionTypeOK /\ HandlerBooks /\ handler[s].step = "new" /\ handler[s].answer = "none"
      /\ handler[s].faults \in Nat /\ InHand(handler[s]) = 0
      /\ remote' = remote /\ jobs' = jobs
  BY SubmissionAssumption
  DEF SubmitInv, SubmissionTypeOK, HandlerBooks, HandlerState, InHand,
      SubmitBody, SubmitQueue, SubmitNothing
<1>1. CASE SubmitNothing(s)
  <2>1. PICK v \in HandlerState :
           /\ Moves(s, v) /\ v.faults = handler[s].faults
           /\ v.step = "answered" /\ v.answer = "nothing"
    BY <1>0, <1>1, AnswerMoves DEF SubmitNothing, Answers
  <2>2. v.faults + InHand(v) >= handler[s].faults + InHand(handler[s])
    BY <1>0, <2>1 DEF InHand
  <2> QED BY <1>0, <2>1, <2>2, MovesRight, MovesCount
<1>2. ASSUME NEW batch, Sending(s, batch)
      PROVE  TrackedRight' /\ CreatedCount'
  <2>1. /\ \A t \in Submission : t # s => handler'[t] = handler[t]
        /\ handler'[s].step = "sending" /\ handler'[s].answer = "none"
        /\ handler'[s].faults = handler[s].faults /\ InHand(handler'[s]) = 0
    BY <1>0, <1>2 DEF Sending, SubmissionTypeOK, HandlerState, InHand
  <2>2. \A t \in Submission : t # s => Named(t)' = Named(t)
    BY <1>0, <2>1 DEF Named
  <2>3. TrackedRight'
    BY <1>0, <2>1, <2>2 DEF TrackedRight
  <2>4. \A t \in Submission : /\ handler'[t].faults = handler[t].faults
                              /\ InHand(handler'[t]) = InHand(handler[t])
                              /\ JobsOf(t)' = JobsOf(t)
    BY <1>0, <2>1, SameJobs
  <2>5. CreatedCount'
    BY <2>4 DEF CreatedCount, InHand
  <2> QED BY <2>3, <2>5
<1> QED BY <1>1, <1>2 DEF SubmitBody, SubmitQueue

SubmitFullInv == SubmitInv /\ TrackedRight /\ CreatedCount

LEMMA SubmitInitInv == SubmitInit => SubmitFullInv
<1> SUFFICES ASSUME SubmitInit PROVE SubmitFullInv
  OBVIOUS
<1>1. QueueInv
  BY InitInv DEF SubmitInit
<1>2. /\ remote = <<>> /\ Len(remote) = 0 /\ jobs = {}
      /\ remote \in Seq([by : Submission, holds : SUBSET Request])
  BY EmptySeq DEF SubmitInit
<1>3. \A s \in Submission :
        handler[s] = [step |-> "new", batch |-> {}, attempt |-> 0, spent |-> FALSE,
                      faults |-> 0, job |-> 0, answer |-> "none"]
  BY DEF SubmitInit
<1>4. handler \in [Submission -> HandlerState]
  BY SubmissionAssumption DEF SubmitInit, HandlerState, Answers
<1>5. SubmissionTypeOK /\ HandlerBooks
  BY <1>2, <1>3, <1>4 DEF SubmissionTypeOK, HandlerBooks
<1>6. \A r \in Request : fate[r] = "open" /\ arrival[r] = 0
  BY DEF SubmitInit, QueueInit
<1>7. BatchesFit /\ Disjoint /\ FlushedIsOwned
  BY <1>3, <1>6, SubmissionAssumption DEF BatchesFit, Disjoint, FlushedIsOwned, Explicit
<1>8. TrackedRight
  BY <1>2, <1>3 DEF TrackedRight
<1>9. CreatedCount
  <2>1. \A s \in Submission : JobsOf(s) = {}
    BY <1>2 DEF JobsOf
  <2> QED BY <1>3, <2>1, FS_EmptySet DEF CreatedCount, InHand
<1> QED BY <1>1, <1>5, <1>7, <1>8, <1>9 DEF SubmitFullInv, SubmitInv

LEMMA SubmitNextInv == SubmitFullInv /\ [SubmitNext]_submitVars => SubmitFullInv'
<1> SUFFICES ASSUME SubmitFullInv, [SubmitNext]_submitVars PROVE SubmitFullInv'
  OBVIOUS
<1> USE DEF SubmitFullInv
<1>1. ASSUME NEW r \in Request, Queue(r) PROVE SubmitFullInv'
  <2>1. SubmitInv'
    BY <1>1, QueueKeeps
  <2>2. TrackedRight' /\ CreatedCount'
    BY <1>1 DEF Queue, TrackedRight, CreatedCount, Named, JobsOf, InHand
  <2> QED BY <2>1, <2>2
<1>2. ASSUME NEW s \in Submission, SubmitBody(s) \/ SubmitQueue(s) \/ SubmitNothing(s)
      PROVE  SubmitFullInv'
  BY <1>2, BodyKeeps, FlushKeeps, NothingKeeps, FirstRight
<1>3. ASSUME NEW s \in Submission, Attempt(s) PROVE SubmitFullInv'
  BY <1>3, AttemptKeeps, AttemptRight
<1>4. ASSUME NEW s \in Submission, Track(s) PROVE SubmitFullInv'
  <2>1. handler[s].job \in 1..Len(remote)
    BY <1>4 DEF Track, TrackedRight, Named
  <2> QED BY <1>4, <2>1, TrackKeeps, TrackRight
<1>5. CASE UNCHANGED submitVars
  <2>1. UNCHANGED <<queueVars, remote, jobs, handler>>
    BY <1>5 DEF submitVars, queueVars
  <2>2. QueueInv'
    BY <2>1, QueueRests DEF SubmitInv
  <2>3. SubmissionTypeOK' /\ HandlerBooks' /\ Disjoint'
    BY <2>1 DEF SubmitInv, SubmissionTypeOK, HandlerBooks, Disjoint
  <2>4. BatchesFit' /\ FlushedIsOwned'
    BY <2>1 DEF SubmitInv, BatchesFit, FlushedIsOwned, queueVars
  <2>5. TrackedRight' /\ CreatedCount'
    BY <2>1 DEF TrackedRight, CreatedCount, Named, JobsOf, InHand
  <2> QED BY <2>2, <2>3, <2>4, <2>5 DEF SubmitInv
<1> QED BY <1>1, <1>2, <1>3, <1>4, <1>5 DEF SubmitNext

\* Every state of the submissions is of its type.
THEOREM SubmissionTypeCorrect == SubmitSpec => []SubmissionTypeOK
<1>1. SubmitFullInv => SubmissionTypeOK
  BY DEF SubmitFullInv, SubmitInv
<1> QED BY <1>1, SubmitInitInv, SubmitNextInv, PTL DEF SubmitSpec

\* No request is submitted by two handlers, or while it is still queued.
THEOREM SubmittedByOne == SubmitSpec => []OneSubmitter
<1>1. SubmitFullInv => OneSubmitter
  <2> SUFFICES ASSUME SubmitFullInv, NEW s \in Submission, NEW r \in handler[s].batch
               PROVE  /\ r \notin Range(requests)
                      /\ \A t \in Submission : r \in handler[t].batch => t = s
    BY DEF OneSubmitter
  <2>1. r \in Request
    BY DEF SubmitFullInv, SubmitInv, SubmissionTypeOK, HandlerState
  <2>2. r \in Explicit \/ fate[r] = "flushed"
    BY DEF SubmitFullInv, SubmitInv, BatchesFit, Explicit
  <2>3. r \notin Range(requests)
    BY <2>1, <2>2 DEF SubmitFullInv, SubmitInv, BatchesFit, QueueInv, QueueTypeOK, QueuedOnce
  <2> QED BY <2>3 DEF SubmitFullInv, SubmitInv, Disjoint
<1> QED BY <1>1, SubmitInitInv, SubmitNextInv, PTL DEF SubmitSpec

\* What a flush takes out of the queue a handler answers for.
THEOREM FlushedIsAnsweredFor == SubmitSpec => []FlushedIsOwned
<1>1. SubmitFullInv => FlushedIsOwned
  BY DEF SubmitFullInv, SubmitInv
<1> QED BY <1>1, SubmitInitInv, SubmitNextInv, PTL DEF SubmitSpec

\* A 201 names a tracked batch that holds the requests of the submission.
THEOREM CreatedIsTracked == SubmitSpec => []AnswerIsTracked
<1>1. SubmitFullInv => AnswerIsTracked
  BY DEF SubmitFullInv, TrackedRight, Named, AnswerIsTracked
<1> QED BY <1>1, SubmitInitInv, SubmitNextInv, PTL DEF SubmitSpec

\* A batch is created twice only when an answer got lost, and is tracked once.
THEOREM DuplicatesBounded == SubmitSpec => []DuplicatesAreFaults
<1>1. ASSUME SubmitFullInv, NEW s \in Submission
      PROVE  Cardinality(JobsOf(s)) <= handler[s].faults + 1
  <2>1. handler[s].faults \in Nat /\ InHand(handler[s]) \in {0, 1}
    BY <1>1, SubmissionAssumption
    DEF SubmitFullInv, SubmitInv, SubmissionTypeOK, HandlerState, InHand
  <2>2. Cardinality(JobsOf(s)) \in Nat
        /\ Cardinality(JobsOf(s)) <= handler[s].faults + InHand(handler[s])
    BY <1>1, FS_CardinalityType DEF SubmitFullInv, CreatedCount
  <2> QED BY <2>1, <2>2
<1>2. ASSUME SubmitFullInv, NEW s \in Submission
      PROVE  Cardinality({t \in jobs : t.job \in JobsOf(s)}) <= 1
  <2> DEFINE mine == [job |-> handler[s].job, count |-> Cardinality(handler[s].batch)]
             S == {t \in jobs : t.job \in JobsOf(s)}
  <2>1. ASSUME NEW t \in S PROVE t = mine
    <3>1. PICK u \in Submission :
             /\ Named(u)
             /\ t = [job |-> handler[u].job, count |-> Cardinality(handler[u].batch)]
      BY <1>2 DEF SubmitFullInv, TrackedRight
    <3>2. remote[t.job].by = u /\ remote[t.job].by = s
      BY <3>1 DEF Named, JobsOf
    <3> QED BY <3>1, <3>2
  <2>2. S \subseteq {mine}
    BY <2>1
  <2>3. IsFiniteSet({mine}) /\ Cardinality({mine}) = 1
    BY FS_Singleton
  <2> HIDE DEF S, mine
  <2>4. IsFiniteSet(S) /\ Cardinality(S) <= 1
    BY <2>2, <2>3, FS_Subset
  <2> QED BY <2>4 DEF S
<1>3. SubmitFullInv => DuplicatesAreFaults
  BY <1>1, <1>2 DEF DuplicatesAreFaults
<1> QED BY <1>3, SubmitInitInv, SubmitNextInv, PTL DEF SubmitSpec
-----------------------------------------------------------------------------
(* Every step of a handler uses one up                                     *)

LEMMA StepsLeftIs ==
  ASSUME NEW h \in HandlerState
  PROVE  /\ h.attempt \in Nat /\ h.attempt <= RetryMax
         /\ h.step = "new" => StepsLeft(h) = RetryMax + 3
         /\ h.step = "sending" => StepsLeft(h) = RetryMax + 2 - h.attempt
         /\ h.step = "tracking" => StepsLeft(h) = 1
         /\ h.step = "answered" => StepsLeft(h) = 0
         /\ StepsLeft(h) \in Nat
  BY SubmissionAssumption DEF HandlerState, StepsLeft

\* A step changes one handler's record, which then has less left.
Onward(s) ==
  /\ \A t \in Submission : t # s => handler'[t] = handler[t]
  /\ StepsLeft(handler'[s]) < StepsLeft(handler[s])

LEMMA MovesOnward ==
  ASSUME SubmissionTypeOK, NEW s \in Submission, NEW v \in HandlerState, Moves(s, v),
         StepsLeft(v) < StepsLeft(handler[s])
  PROVE  Onward(s)
<1>1. \A t \in Submission : handler'[t] = IF t = s THEN v ELSE handler[t]
  BY DEF Moves, SubmissionTypeOK
<1> QED BY <1>1 DEF Onward

LEMMA RetryUses ==
  ASSUME SubmissionTypeOK, HandlerBooks, NEW s \in Submission, handler[s].step = "sending",
         NEW spent \in BOOLEAN, NEW fault \in {0, 1}, Retry(s, spent, fault)
  PROVE  Onward(s)
<1>1. PICK v \in HandlerState :
        /\ Moves(s, v) /\ v.step \in {"sending", "answered"}
        /\ v.step = "sending" => v.attempt = handler[s].attempt + 1
  BY RetryMoves
<1>2. handler[s] \in HandlerState /\ RetryMax \in Nat
  BY SubmissionAssumption DEF SubmissionTypeOK
<1>3. /\ StepsLeft(handler[s]) = RetryMax + 2 - handler[s].attempt
      /\ handler[s].attempt \in Nat /\ handler[s].attempt <= RetryMax
  BY <1>2, StepsLeftIs
<1>4. /\ v.step = "sending" => StepsLeft(v) = RetryMax + 2 - v.attempt
      /\ v.step = "answered" => StepsLeft(v) = 0
  BY StepsLeftIs
<1>5. StepsLeft(v) < StepsLeft(handler[s])
  BY <1>1, <1>2, <1>3, <1>4
<1> QED BY <1>1, <1>5, MovesOnward

\* The steps that end the attempts, and the one that begins them.
LEMMA AnswerUses ==
  ASSUME SubmissionTypeOK, NEW s \in Submission, handler[s].step # "answered",
         NEW answer \in Answers, Answer(s, answer)
  PROVE  Onward(s)
<1>1. PICK v \in HandlerState : Moves(s, v) /\ v.step = "answered"
  BY AnswerMoves
<1>2. handler[s] \in HandlerState /\ handler[s].step \in {"new", "sending", "tracking"}
      /\ RetryMax \in Nat
  BY SubmissionAssumption DEF SubmissionTypeOK, HandlerState
<1>3. StepsLeft(v) = 0
  BY <1>1, StepsLeftIs
<1>4. StepsLeft(handler[s]) > 0
  BY <1>2, StepsLeftIs
<1>5. StepsLeft(v) < StepsLeft(handler[s])
  BY <1>3, <1>4
<1> QED BY <1>1, <1>5, MovesOnward

LEMMA CreatedUses ==
  ASSUME SubmissionTypeOK, HandlerBooks, NEW s \in Submission, Created(s)
  PROVE  Onward(s)
<1>1. PICK v \in HandlerState : Moves(s, v) /\ v.step = "tracking"
  BY CreatedMoves
<1>2. handler[s] \in HandlerState /\ handler[s].step = "sending" /\ RetryMax \in Nat
  BY SubmissionAssumption DEF SubmissionTypeOK, Created
<1>3. StepsLeft(v) = 1
  BY <1>1, StepsLeftIs
<1>4. StepsLeft(handler[s]) > 1
  BY <1>2, StepsLeftIs
<1>5. StepsLeft(v) < StepsLeft(handler[s])
  BY <1>3, <1>4
<1> QED BY <1>1, <1>5, MovesOnward

LEMMA SendingUses ==
  ASSUME SubmissionTypeOK, HandlerBooks, NEW s \in Submission, handler[s].step = "new",
         NEW batch \in SUBSET Request, Sending(s, batch)
  PROVE  Onward(s)
<1>0. /\ handler[s] \in HandlerState /\ handler \in [Submission -> HandlerState]
      /\ handler[s].attempt = 0 /\ RetryMax \in Nat
  BY SubmissionAssumption DEF SubmissionTypeOK, HandlerBooks
<1> DEFINE v == [handler[s] EXCEPT !.step = "sending", !.batch = batch]
<1>1. v \in HandlerState
  BY <1>0, HandlerChanges
<1>2. v.step = "sending" /\ v.attempt = handler[s].attempt
  BY <1>0 DEF HandlerState
<1>3. handler' = [handler EXCEPT ![s] = v]
  BY DEF Sending
<1> HIDE DEF v
<1>4. \A t \in Submission : handler'[t] = IF t = s THEN v ELSE handler[t]
  BY <1>0, <1>3
<1>5. StepsLeft(v) = RetryMax + 2 - v.attempt /\ StepsLeft(handler[s]) = RetryMax + 3
  BY <1>0, <1>1, <1>2, StepsLeftIs
<1> QED BY <1>0, <1>2, <1>4, <1>5 DEF Onward

\* A step of a handler moves that handler on and creates batches for it only.
LEMMA HandlerUses ==
  ASSUME SubmitFullInv, NEW s \in Submission,
         SubmitBody(s) \/ SubmitQueue(s) \/ SubmitNothing(s) \/ Attempt(s) \/ Track(s)
  PROVE  Onward(s) /\ (remote' = remote \/ Create(s))
<1>0. SubmissionTypeOK /\ HandlerBooks /\ QueueTypeOK /\ handler[s] \in HandlerState
  BY DEF SubmitFullInv, SubmitInv, QueueInv, SubmissionTypeOK
<1>1. CASE SubmitBody(s)
  <2>1. BodyOf[s] \in SUBSET Request
    BY SubmissionAssumption
  <2> QED BY <1>0, <1>1, <2>1, SendingUses DEF SubmitBody
<1>2. CASE SubmitQueue(s)
  <2>1. PICK batch \in ByPriority(requests) : Flush(batch) /\ Sending(s, Range(batch))
    BY <1>2 DEF SubmitQueue
  <2>2. Range(batch) \in SUBSET Request
    BY <1>0, <2>1, RangeOfSeq DEF ByPriority, QueueTypeOK
  <2> QED BY <1>0, <1>2, <2>1, <2>2, SendingUses DEF SubmitQueue
<1>3. CASE SubmitNothing(s)
  BY <1>0, <1>3, AnswerUses DEF SubmitNothing, Answers
<1>4. CASE Attempt(s)
  <2>1. handler[s].step = "sending" /\ handler[s].spent \in BOOLEAN
    BY <1>0, <1>4 DEF Attempt, NoConnection, BodySpent, Busy, Refused, CreatedUnseen,
                      CreatedGarbled, Created, HandlerState
  <2>2. \/ \E spent \in BOOLEAN, fault \in {0, 1} : Retry(s, spent, fault)
        \/ Answer(s, "refused") \/ Created(s)
    BY <1>4, <2>1 DEF Attempt, NoConnection, BodySpent, Busy, Refused, CreatedUnseen,
                      CreatedGarbled
  <2>3. Onward(s)
    BY <1>0, <2>1, <2>2, RetryUses, AnswerUses, CreatedUses DEF Answers
  <2> QED BY <1>4, <2>3 DEF Attempt, NoConnection, BodySpent, Busy, Refused, CreatedUnseen,
                            CreatedGarbled, Created
<1>5. CASE Track(s)
  BY <1>0, <1>5, AnswerUses DEF Track, Answers
<1> QED BY <1>1, <1>2, <1>3, <1>4, <1>5

\* For any retries, bodies and interleaving: no attempt is free. Each step of a
\* handler, and each batch the API creates for it, uses up one of the steps it has
\* left, so that an answer that never comes needs a step that never ends.
THEOREM AttemptsAreCounted == SubmitSpec => AttemptsRunOut
<1> DEFINE Counted(s) ==
      handler'[s] # handler[s] \/ JobsOf(s)' # JobsOf(s) =>
        StepsLeft(handler'[s]) < StepsLeft(handler[s])
<1>1. SubmitFullInv /\ [SubmitNext]_submitVars => [\A s \in Submission : Counted(s)]_submitVars
  <2> SUFFICES ASSUME SubmitFullInv, [SubmitNext]_submitVars, NEW s \in Submission PROVE Counted(s)
    BY Zenon
  <2>1. handler \in [Submission -> HandlerState] /\ SubmissionTypeOK
    BY DEF SubmitFullInv, SubmitInv, SubmissionTypeOK
  <2>2. ASSUME NEW t \in Submission,
               SubmitBody(t) \/ SubmitQueue(t) \/ SubmitNothing(t) \/ Attempt(t) \/ Track(t)
        PROVE  Counted(s)
    <3>1. Onward(t) /\ (remote' = remote \/ Create(t))
      BY <2>2, HandlerUses
    <3>2. CASE t = s
      <4>1. StepsLeft(handler'[s]) < StepsLeft(handler[s])
        BY <2>1, <3>1, <3>2 DEF Onward
      <4> QED BY <4>1
    <3>3. CASE t # s
      <4>1. handler'[s] = handler[s]
        BY <2>1, <3>1, <3>3 DEF Onward
      <4>2. JobsOf(s)' = JobsOf(s)
        BY <2>1, <3>1, <3>3, SameJobs, GrownJobs
      <4> QED BY <4>1, <4>2
    <3> QED BY <3>2, <3>3
  <2>3. CASE UNCHANGED <<handler, remote>>
    BY <2>3 DEF JobsOf
  <2> QED BY <2>2, <2>3 DEF SubmitNext, Queue, submitVars
<1> QED BY <1>1, SubmitInitInv, SubmitNextInv, PTL DEF SubmitSpec, AttemptsRunOut
=============================================================================
