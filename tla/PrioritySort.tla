---------------------------- MODULE PrioritySort ----------------------------
(***************************************************************************)
(* The double loop of BatchQueue.sortByPriority (internal/batch/queue.go), *)
(* written out a second time in Router.FlushQueue (internal/batch/         *)
(* router.go): for i, for j > i, swap when the later one has the higher    *)
(* Priority.  One step is one turn of the inner loop.                      *)
(***************************************************************************)
EXTENDS Integers, Sequences, Functions

CONSTANTS
  Request,     \* the requests queued
  PriorityOf   \* BatchRequest.Priority

ASSUME PriorityAssumption == PriorityOf \in [Request -> Nat]

VARIABLES
  input,   \* the slice before the sort (history)
  a,       \* the slice being sorted in place
  i, j     \* the loop variables, counted from 1

sortVars == <<input, a, i, j>>

\* What the queue can hold: each request object at most once.
Queues == {s \in Seq(Request) : IsInjective(s)}

Higher(r, q) == PriorityOf[r] > PriorityOf[q]

Swapped(s, m, n) == [s EXCEPT ![m] = s[n], ![n] = s[m]]

\* Faulty variant: the test is made against the neighbour instead of slot i.
InnerAgainstNeighbour ==
  /\ i <= Len(a) /\ j <= Len(a)
  /\ a' = IF Higher(a[j], a[j - 1]) THEN Swapped(a, i, j) ELSE a
  /\ j' = j + 1
  /\ UNCHANGED <<input, i>>

\* The inner loop's turn for j.
Inner ==
  /\ i <= Len(a) /\ j <= Len(a)
  /\ a' = IF Higher(a[j], a[i]) THEN Swapped(a, i, j) ELSE a
  /\ j' = j + 1
  /\ UNCHANGED <<input, i>>

\* The inner loop is over: the next i.
Outer ==
  /\ i <= Len(a) /\ j > Len(a)
  /\ i' = i + 1
  /\ j' = i + 2
  /\ UNCHANGED <<input, a>>

SortInit ==
  /\ input \in Queues
  /\ a = input
  /\ i = 1 /\ j = 2

SortNext == Inner \/ Outer

SortSpec == SortInit /\ [][SortNext]_sortVars /\ WF_sortVars(SortNext)

Finished == i > Len(a)
-----------------------------------------------------------------------------
SortTypeOK ==
  /\ input \in Seq(Request)
  /\ a \in [1..Len(input) -> Request]
  /\ i \in Nat \ {0}
  /\ j \in Nat \ {0}

\* The slice keeps its requests: none lost, none doubled by a swap.
SameRequests == IsInjective(a) /\ Range(a) = Range(input)

\* Ordered up to i, and nothing behind it is higher: the outer loop's
\* invariant; slot i is highest among the slots the inner loop has seen.
OuterInvariant ==
  \A m \in 1..Len(a), n \in 1..Len(a) :
    m < n /\ m < i => ~Higher(a[n], a[m])
InnerInvariant ==
  \A n \in 1..Len(a) : i < n /\ n < j => ~Higher(a[n], a[i])

\* A finished sort has the higher priorities first.
Descending ==
  Finished => \A m, n \in 1..Len(a) : m < n => ~Higher(a[n], a[m])

\* What each step of the loops preserves; Descending follows from it.
SortInv ==
  /\ SortTypeOK
  /\ IsInjective(input)
  /\ i <= Len(a) + 1 /\ i < j /\ j <= Len(a) + 2
  /\ SameRequests
  /\ OuterInvariant
  /\ InnerInvariant
=============================================================================
