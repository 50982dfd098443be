---------------------------- MODULE RateLimiter -----------------------------
(***************************************************************************)
(* security/rate_limiter.go: the token bucket of one IP (or of "global"),   *)
(* looked up under the limiter's lock and used under its own, while Reset   *)
(* and the cleanup goroutine take buckets out of the map.  A Tick is the     *)
(* time in which the refill adds one unit; a request costs TokenCost units,  *)
(* so that fractions of a token occur.                                     *)
(***************************************************************************)
EXTENDS Integers, FiniteSets, FiniteSetsExt

CONSTANTS
  Client,      \* goroutines calling Allow
  Capacity,    \* requestsPerMinute
  TokenCost,   \* units of refill in a token
  IdleLimit    \* ticks in the ten minutes after which a bucket is idle

ASSUME LimiterAssumption ==
  /\ IsFiniteSet(Client)
  /\ {Capacity, TokenCost, IdleLimit} \subseteq Nat \ {0}
  \* Ten minutes refill a minute's bucket ten times, and the callers between their
  \* lookup and their use of a bucket are fewer than the other nine refills.
  /\ IdleLimit >= Capacity * TokenCost + TokenCost * Cardinality(Client)

Full == Capacity * TokenCost
Buckets == 1..(Cardinality(Client) + 1)   \* enough to be always able to make one
NoBucket == 0
Fresh == [units |-> Full, age |-> 0]

VARIABLES
  named,     \* ipBuckets: the bucket of the IP, or none
  bucket,    \* tokenBucket: its units and the ticks since its lastRefill
  handle,    \* the bucket each client has looked up and not used yet
  credit,    \* history: what an ideal bucket would hold, charged for every admission
  stray      \* history: a bucket no longer in the map has admitted a request since
             \* the ideal one was full

limiterVars == <<named, bucket, handle, credit, stray>>
-----------------------------------------------------------------------------
LimiterInit ==
  /\ named = NoBucket
  /\ bucket = [b \in Buckets |-> Fresh]
  /\ handle = [c \in Client |-> NoBucket]
  /\ credit = Full /\ stray = FALSE

\* Allow, under rl.mu: the bucket of the IP, made full when there is none.
LookUp(c) ==
  /\ handle[c] = NoBucket
  /\ IF named # NoBucket
     THEN handle' = [handle EXCEPT ![c] = named] /\ UNCHANGED <<named, bucket>>
     ELSE LET b == Min(Buckets \ {handle[d] : d \in Client}) IN
            /\ named' = b
            /\ bucket' = [bucket EXCEPT ![b] = Fresh]
            /\ handle' = [handle EXCEPT ![c] = b]
  /\ UNCHANGED <<credit, stray>>

Refilled(b) == Min({bucket[b].units + bucket[b].age, Full})

\* Faulty variant: a refused request leaves the time of the last refill.
TakeFromKeepingAge(c, units) ==
  LET granted == units >= TokenCost
      b == handle[c] IN
  /\ b # NoBucket
  /\ bucket' = [bucket EXCEPT ![b] = [units |-> IF granted THEN units - TokenCost ELSE units,
                                      age |-> IF granted THEN 0 ELSE @.age]]
  /\ credit' = IF granted THEN credit - TokenCost ELSE credit
  /\ stray' = (stray \/ (granted /\ b # named))
  /\ handle' = [handle EXCEPT ![c] = NoBucket]
  /\ UNCHANGED named

\* Allow, under the bucket's lock: refill by the time since the last refill, then
\* take a token if there is one.
TakeFrom(c, units) ==
  LET granted == units >= TokenCost
      b == handle[c] IN
  /\ b # NoBucket
  /\ bucket' = [bucket EXCEPT ![b] = [units |-> IF granted THEN units - TokenCost ELSE units, age |-> 0]]
  /\ credit' = IF granted THEN credit - TokenCost ELSE credit
  /\ stray' = (stray \/ (granted /\ b # named))
  /\ handle' = [handle EXCEPT ![c] = NoBucket]
  /\ UNCHANGED named

Take(c) == TakeFrom(c, Refilled(handle[c]))

\* GetRemaining: the tokens as of the last refill.
Remaining == IF named = NoBucket THEN Capacity ELSE bucket[named].units \div TokenCost

\* Reset gives the IP a new bucket at its next request.
Reset == named' = NoBucket /\ credit' = Full /\ stray' = FALSE /\ UNCHANGED <<bucket, handle>>

\* cleanupExpiredBuckets
CleanUp ==
  /\ named # NoBucket
  /\ bucket[named].age > IdleLimit
  /\ named' = NoBucket
  /\ UNCHANGED <<bucket, handle, credit, stray>>

\* The clock, for the buckets someone knows.  An age above IdleLimit makes no
\* further difference.
Tick ==
  /\ bucket' = [b \in Buckets |->
       IF b # named /\ \A c \in Client : handle[c] # b THEN Fresh
       ELSE [bucket[b] EXCEPT !.age = Min({@ + 1, IdleLimit + 1})]]
  /\ credit' = Min({credit + 1, Full})
  /\ stray' = (stray /\ credit' < Full)
  /\ UNCHANGED <<named, handle>>

LimiterNext ==
  \/ \E c \in Client : LookUp(c) \/ Take(c)
  \/ Reset \/ CleanUp \/ Tick

LimiterSpec == LimiterInit /\ [][LimiterNext]_limiterVars
-----------------------------------------------------------------------------
(* What must hold                                                          *)

\* What the next request finds: a bucket that is not in the map will be made full.
InStock == IF named = NoBucket THEN Full ELSE Refilled(named)

\* Allow admits what an ideal token bucket admits: as long as every request has used
\* the bucket it finds in the map, the refill by elapsed time, refusals and the
\* cleanup of idle buckets give neither more nor less.  A client whose bucket is
\* removed between its lookup and its use of it (by the cleanup or by Reset) may be
\* admitted without the new bucket being charged: the code then admits more than
\* the ideal, never less, by at most two tokens for each such client at any time.
\* What GetRemaining promises is within the same bound.
AdmitsAsIdeal ==
  /\ ~stray => credit = InStock
  /\ credit <= InStock /\ InStock <= credit + 2 * (TokenCost * Cardinality(Client))
  /\ Remaining * TokenCost <= InStock
=============================================================================
