-------------------------- MODULE PollerLifecycle --------------------------
(***************************************************************************)
(* Start, Stop and pollingLoop of internal/batch/poller.go: the isRunning  *)
(* flag is read and set under bp.mu, but the goroutine is started, and     *)
(* stopChan closed, after the lock is released; stopChan is made once, by  *)
(* NewBatchPoller.  Callers are goroutines that call Start and Stop.       *)
(***************************************************************************)
EXTENDS Integers, FiniteSets

CONSTANTS
  Caller,   \* goroutines that call Start and Stop
  Loop      \* goroutines Start may spawn (bounds the number of starts)

ASSUME LifecycleAssumption == IsFiniteSet(Loop)

VARIABLES
  isRunning,
  closed,     \* close(bp.stopChan) has been executed
  panicked,   \* it was executed a second time: the process is gone
  cancelled,  \* the ctx given to Start is done
  wg,         \* the counter of bp.wg
  pc,         \* where each caller is
  loop        \* each pollingLoop

vars == <<isRunning, closed, panicked, cancelled, wg, pc, loop>>

Live == {l \in Loop : loop[l] \in {"select", "round"}}

LifecycleTypeOK ==
  /\ isRunning \in BOOLEAN /\ closed \in BOOLEAN
  /\ panicked \in BOOLEAN /\ cancelled \in BOOLEAN
  /\ wg \in Nat
  /\ pc \in [Caller -> {"idle", "spawn", "close", "wait"}]
  /\ loop \in [Loop -> {"unborn", "select", "round", "gone"}]

Init ==
  /\ isRunning = FALSE /\ closed = FALSE /\ panicked = FALSE /\ cancelled = FALSE /\ wg = 0
  /\ pc = [c \in Caller |-> "idle"]
  /\ loop = [l \in Loop |-> "unborn"]

Spawning == {c \in Caller : pc[c] = "spawn"}
Unborn == {l \in Loop : loop[l] = "unborn"}

\* Start: an error if running; otherwise the flag is set and the lock released
\* (a start is only made while there is a goroutine left for it).
Start(c) ==
  /\ ~panicked
  /\ pc[c] = "idle" /\ ~isRunning
  /\ Cardinality(Unborn) > Cardinality(Spawning)
  /\ isRunning' = TRUE
  /\ pc' = [pc EXCEPT ![c] = "spawn"]
  /\ UNCHANGED <<closed, panicked, cancelled, wg, loop>>

\* wg.Add(1) and go pollingLoop(ctx).
Spawn(c, l) ==
  /\ ~panicked
  /\ pc[c] = "spawn" /\ loop[l] = "unborn"
  /\ loop' = [loop EXCEPT ![l] = "select"]
  /\ pc' = [pc EXCEPT ![c] = "idle"]
  /\ wg' = wg + 1
  /\ UNCHANGED <<isRunning, closed, panicked, cancelled>>

\* Faulty variant: Stop does nothing for a poller whose context is done.
StopUnlessCancelled(c) ==
  /\ ~panicked
  /\ pc[c] = "idle" /\ isRunning
  /\ isRunning' = FALSE
  /\ pc' = [pc EXCEPT ![c] = IF cancelled THEN "idle" ELSE "close"]
  /\ UNCHANGED <<closed, panicked, cancelled, wg, loop>>

\* Stop: nothing if not running; otherwise the flag is cleared and the lock
\* released before the channel is closed.
Stop(c) ==
  /\ ~panicked
  /\ pc[c] = "idle" /\ isRunning
  /\ isRunning' = FALSE
  /\ pc' = [pc EXCEPT ![c] = "close"]
  /\ UNCHANGED <<closed, panicked, cancelled, wg, loop>>

\* close(bp.stopChan): a panic when it is closed already.
Close(c) ==
  /\ ~panicked
  /\ pc[c] = "close"
  /\ closed' = TRUE
  /\ panicked' = closed
  /\ pc' = [pc EXCEPT ![c] = "wait"]
  /\ UNCHANGED <<isRunning, cancelled, wg, loop>>

\* Faulty variant: Stop does not wait.
WaitNot(c) ==
  /\ ~panicked
  /\ pc[c] = "wait"
  /\ pc' = [pc EXCEPT ![c] = "idle"]
  /\ UNCHANGED <<isRunning, closed, panicked, cancelled, wg, loop>>

\* wg.Wait() returns, and Stop with it.
WaitReturns(c) ==
  /\ ~panicked
  /\ pc[c] = "wait" /\ wg = 0
  /\ pc' = [pc EXCEPT ![c] = "idle"]
  /\ UNCHANGED <<isRunning, closed, panicked, cancelled, wg, loop>>

CancelContext ==
  /\ ~panicked /\ ~cancelled
  /\ cancelled' = TRUE
  /\ UNCHANGED <<isRunning, closed, panicked, wg, pc, loop>>

\* The select of pollingLoop takes any branch that is ready: the tick, which
\* begins a round over all jobs ...
LoopTick(l) ==
  /\ ~panicked
  /\ loop[l] = "select"
  /\ loop' = [loop EXCEPT ![l] = "round"]
  /\ UNCHANGED <<isRunning, closed, panicked, cancelled, wg, pc>>

LoopRoundDone(l) ==
  /\ ~panicked
  /\ loop[l] = "round"
  /\ loop' = [loop EXCEPT ![l] = "select"]
  /\ UNCHANGED <<isRunning, closed, panicked, cancelled, wg, pc>>

\* Faulty variant: a loop whose context is done leaves without Done.
LoopLeaves(l) ==
  /\ ~panicked
  /\ loop[l] = "select" /\ (cancelled \/ closed)
  /\ loop' = [loop EXCEPT ![l] = "gone"]
  /\ wg' = IF cancelled THEN wg ELSE wg - 1
  /\ UNCHANGED <<isRunning, closed, panicked, cancelled, pc>>

\* ... or one of the two ends; isRunning stays as it is.
LoopReturns(l) ==
  /\ ~panicked
  /\ loop[l] = "select" /\ (cancelled \/ closed)
  /\ loop' = [loop EXCEPT ![l] = "gone"]
  /\ wg' = wg - 1
  /\ UNCHANGED <<isRunning, closed, panicked, cancelled, pc>>

Next ==
  \/ \E c \in Caller :
       Start(c) \/ (\E l \in Loop : Spawn(c, l)) \/ Stop(c) \/ Close(c) \/ WaitReturns(c)
  \/ CancelContext
  \/ \E l \in Loop : LoopTick(l) \/ LoopRoundDone(l) \/ LoopReturns(l)

Spec == Init /\ [][Next]_vars

\* Goroutines run; a round ends (every remote call has a timeout); a select
\* with several branches ready chooses at random, so none is passed over for
\* ever.  Nobody has to call Start or Stop.
FairSpec ==
  /\ Spec
  /\ \A c \in Caller :
       WF_vars(Close(c) \/ WaitReturns(c) \/ \E l \in Loop : Spawn(c, l))
  /\ \A l \in Loop : /\ WF_vars(LoopRoundDone(l)) /\ SF_vars(LoopReturns(l))
-----------------------------------------------------------------------------
(* What must hold                                                          *)

\* No polling goroutine is out of reach: while one lives, Stop can still be
\* called for it, or somebody is in Stop, or the channel is closed.
EveryLoopStoppable ==
  Live # {} => isRunning \/ closed \/ \E c \in Caller : pc[c] = "close"

\* When a Stop that closed the channel returns, no polling goroutine is left
\* that could still write into a tracker.
StopWaitsForLoops ==
  [][\A c \in Caller : pc[c] = "wait" /\ pc'[c] = "idle" => Live = {}]_vars

\* A Stop that waits, waits for loops that are alive and find the channel
\* closed at their next select, never for one that is gone.
WaitsForLoops ==
  \A c \in Caller : pc[c] = "wait" => closed /\ wg = Cardinality(Live)

\* Every polling goroutine is in somebody's hands: one that Stop can still be
\* called for, or one that a Stop is waiting for and has told to return.
LoopsAreHeld == EveryLoopStoppable /\ WaitsForLoops

\* Stop never hangs: once called it returns, whatever the loop is doing
\* (unless the process has panicked).
StopReturns ==
  \A c \in Caller : (pc[c] \in {"close", "wait"}) ~> (pc[c] = "idle" \/ panicked)
=============================================================================
