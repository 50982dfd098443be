-------------------------- MODULE BatchSubmission --------------------------
(***************************************************************************)
(* HandleSubmitBatch (internal/service/batch_handlers.go) with             *)
(* AnthropicClient.SubmitBatch and doWithRetry (internal/client/           *)
(* anthropic.go): a submission takes the requests in its body, or flushes  *)
(* the queue, and posts them to the remote Batch API with retries; the job *)
(* the API answers with is handed to the poller.                           *)
(*                                                                         *)
(* Every retry passes the same *http.Request to httpClient.Do.  Its Body   *)
(* is a bytes.Buffer: once an attempt has written it, it is drained, and   *)
(* net/http refuses to send it again on a new connection ("ContentLength=N *)
(* with Body length 0"); on a connection reused from the pool it falls     *)
(* back to GetBody and sends the whole body.  The API and net/http are     *)
(* outside the code.                                                       *)
(***************************************************************************)
EXTENDS BatchQueue

CONSTANTS
  Submission,  \* POSTs to /api/batch/submit
  BodyOf,      \* the requests in the body of each, {} for none
  RetryMax     \* c.retryMax

ASSUME SubmissionAssumption ==
  /\ IsFiniteSet(Submission)
  /\ BodyOf \in [Submission -> SUBSET Request]
  /\ \A s, t \in Submission : s # t => BodyOf[s] \cap BodyOf[t] = {}
  /\ RetryMax \in Nat

VARIABLES
  remote,   \* the batches the API has created, by number
  jobs,     \* what TrackJob has registered with the poller
  handler   \* each submission's handler

submitVars == <<requests, maxQueueSize, minBatchSize, idle, totalProcessed,
                fate, arrival, remote, jobs, handler>>

Explicit == UNION {BodyOf[s] : s \in Submission}
Answers == {"none", "created", "nothing", "refused", "gaveup", "untracked"}
HandlerState ==
  [step : {"new", "sending", "tracking", "answered"},
   batch : SUBSET Request,       \* the requests being submitted
   attempt : 0..RetryMax,        \* doWithRetry's loop variable
   spent : BOOLEAN,              \* the request's body has been read
   faults : 0..(RetryMax + 1),   \* history: attempts the network or the API failed
   job : Nat,                    \* the id in SubmitBatch's result
   answer : Answers]

SubmissionTypeOK ==
  /\ remote \in Seq([by : Submission, holds : SUBSET Request])
  /\ \A t \in jobs : t.job \in 1..Len(remote) /\ t.count \in Nat
  /\ handler \in [Submission -> HandlerState]

SubmitInit ==
  /\ QueueInit
  /\ remote = <<>>
  /\ jobs = {}
  /\ handler = [s \in Submission |->
                  [step |-> "new", batch |-> {}, attempt |-> 0, spent |-> FALSE,
                   faults |-> 0, job |-> 0, answer |-> "none"]]

\* A caller queues a request that no body carries.
Queue(r) ==
  /\ r \notin Explicit
  /\ Enqueue(r)
  /\ UNCHANGED <<remote, jobs, handler>>
-----------------------------------------------------------------------------
(* HandleSubmitBatch: which requests                                       *)

Sending(s, batch) ==
  handler' = [handler EXCEPT ![s] = [@ EXCEPT !.step = "sending", !.batch = batch]]

Answer(s, answer) ==
  handler' = [handler EXCEPT ![s] = [@ EXCEPT !.step = "answered", !.answer = answer]]

SubmitBody(s) ==
  /\ handler[s].step = "new" /\ BodyOf[s] # {}
  /\ Sending(s, BodyOf[s])
  /\ UNCHANGED <<queueVars, remote, jobs>>

SubmitQueue(s) ==
  /\ handler[s].step = "new" /\ BodyOf[s] = {}
  /\ \E batch \in ByPriority(requests) : Flush(batch) /\ Sending(s, Range(batch))
  /\ UNCHANGED <<remote, jobs>>

SubmitNothing(s) ==
  /\ handler[s].step = "new" /\ BodyOf[s] = {} /\ requests = <<>>
  /\ Answer(s, "nothing")
  /\ UNCHANGED <<queueVars, remote, jobs>>
-----------------------------------------------------------------------------
(* doWithRetry: one attempt                                                *)

\* The handler with one failed attempt counted, and with the attempts over.
Again(h, spent, fault) ==
  [h EXCEPT !.attempt = @ + 1, !.spent = spent, !.faults = @ + fault]
GiveUp(h, spent, fault) ==
  [h EXCEPT !.step = "answered", !.answer = "gaveup", !.spent = spent, !.faults = @ + fault]

\* After a failed attempt: again, or the error and with it answer 500.
Retry(s, spent, fault) ==
  handler' = [handler EXCEPT ![s] = IF @.attempt < RetryMax
                                    THEN Again(@, spent, fault) ELSE GiveUp(@, spent, fault)]

\* No connection (or the caller's context is done): nothing has been read.
NoConnection(s) ==
  /\ handler[s].step = "sending"
  /\ Retry(s, handler[s].spent, 1)
  /\ UNCHANGED <<queueVars, remote, jobs>>

\* Faulty variant: the body is put back and the attempt not counted.
BodyRewound(s) ==
  /\ handler[s].step = "sending" /\ handler[s].spent
  /\ handler' = [handler EXCEPT ![s].spent = FALSE]
  /\ UNCHANGED <<queueVars, remote, jobs>>

\* A drained body on a new connection: the attempt fails before it begins.
BodySpent(s) ==
  /\ handler[s].step = "sending" /\ handler[s].spent
  /\ Retry(s, TRUE, 0)
  /\ UNCHANGED <<queueVars, remote, jobs>>

\* 429, 5xx or a timeout, and the API has not taken the batch.
Busy(s) ==
  /\ handler[s].step = "sending"
  /\ Retry(s, TRUE, 1)
  /\ UNCHANGED <<queueVars, remote, jobs>>

\* Any other 4xx: SubmitBatch fails at once.
Refused(s) ==
  /\ handler[s].step = "sending"
  /\ Answer(s, "refused")
  /\ UNCHANGED <<queueVars, remote, jobs>>

\* The API creates the batch.
Create(s) == remote' = Append(remote, [by |-> s, holds |-> handler[s].batch])

\* The batch is created but the answer is lost, or is a 5xx.
CreatedUnseen(s) ==
  /\ handler[s].step = "sending"
  /\ Create(s)
  /\ Retry(s, TRUE, 1)
  /\ UNCHANGED <<queueVars, jobs>>

\* The batch is created but its answer does not decode.
CreatedGarbled(s) ==
  /\ handler[s].step = "sending"
  /\ Create(s)
  /\ Answer(s, "refused")
  /\ UNCHANGED <<queueVars, jobs>>

\* Faulty variant: the first batch created for the submission is taken for
\* the one the answer names.
CreatedFirst(s) ==
  /\ handler[s].step = "sending"
  /\ Create(s)
  /\ handler' = [handler EXCEPT ![s] = [@ EXCEPT !.step = "tracking", !.job = 1]]
  /\ UNCHANGED <<queueVars, jobs>>

\* Faulty variant: a good answer is retried as well.
CreatedRetried(s) ==
  /\ handler[s].step = "sending"
  /\ Create(s)
  /\ IF handler[s].attempt < RetryMax
     THEN Retry(s, TRUE, 0)
     ELSE handler' = [handler EXCEPT ![s] = [@ EXCEPT !.step = "tracking", !.job = Len(remote')]]
  /\ UNCHANGED <<queueVars, jobs>>

\* The batch is created and SubmitBatch returns its job.
Created(s) ==
  /\ handler[s].step = "sending"
  /\ Create(s)
  /\ handler' = [handler EXCEPT ![s] = [@ EXCEPT !.step = "tracking", !.job = Len(remote')]]
  /\ UNCHANGED <<queueVars, jobs>>

\* Faulty variant: the job is tracked and the client gets no answer.
TrackUnanswered(s) ==
  /\ handler[s].step = "tracking"
  /\ jobs' = jobs \cup {[job |-> handler[s].job, count |-> Cardinality(handler[s].batch)]}
  /\ UNCHANGED <<queueVars, remote, handler>>

\* TrackJob, which refuses an id it has, and the answer: 201, or 500.
Track(s) ==
  /\ handler[s].step = "tracking"
  /\ IF \E t \in jobs : t.job = handler[s].job
     THEN jobs' = jobs /\ Answer(s, "untracked")
     ELSE /\ jobs' = jobs \cup {[job |-> handler[s].job,
                                 count |-> Cardinality(handler[s].batch)]}
          /\ Answer(s, "created")
  /\ UNCHANGED <<queueVars, remote>>
-----------------------------------------------------------------------------
Attempt(s) ==
  \/ NoConnection(s) \/ BodySpent(s) \/ Busy(s) \/ Refused(s)
  \/ CreatedUnseen(s) \/ CreatedGarbled(s) \/ Created(s)

SubmitNext ==
  \/ \E r \in Request : Queue(r)
  \/ \E s \in Submission :
       SubmitBody(s) \/ SubmitQueue(s) \/ SubmitNothing(s) \/ Attempt(s) \/ Track(s)

SubmitSpec == SubmitInit /\ [][SubmitNext]_submitVars

\* A handler keeps running: an attempt ends within the client's timeout, one
\* way or another, and the sleep between attempts ends.
SubmitFairSpec ==
  /\ SubmitSpec
  /\ \A s \in Submission : WF_submitVars(Attempt(s) \/ Track(s))
-----------------------------------------------------------------------------
(* What must hold                                                          *)

JobsOf(s) == {n \in 1..Len(remote) : remote[n].by = s}

\* An answer 201 names a job that holds exactly the submission's requests and
\* is tracked with their number.
AnswerIsTracked ==
  \A s \in Submission : handler[s].answer = "created" =>
    /\ remote[handler[s].job] = [by |-> s, holds |-> handler[s].batch]
    /\ [job |-> handler[s].job, count |-> Cardinality(handler[s].batch)] \in jobs

\* Two submissions never send the same request, however they race for the
\* queue, and a request still queued has not been sent.
OneSubmitter ==
  \A s \in Submission : \A r \in handler[s].batch :
    /\ r \notin Range(requests)
    /\ \A t \in Submission : r \in handler[t].batch => t = s

\* A request queued and flushed is not silently gone: it belongs to a
\* submission that is still at work, or is tracked, or told its client.
FlushedIsOwned ==
  \A r \in Request : fate[r] = "flushed" =>
    \E s \in Submission : r \in handler[s].batch

\* A retry may create the batch again after an answer that got lost; there is
\* one batch more than answers lost at most, and only one of them is tracked.
DuplicatesAreFaults ==
  \A s \in Submission :
    /\ Cardinality(JobsOf(s)) <= handler[s].faults + 1
    /\ Cardinality({t \in jobs : t.job \in JobsOf(s)}) <= 1

\* The attempts, and the steps around them, a handler has left at most.
StepsLeft(h) ==
  CASE h.step = "new" -> RetryMax + 3
    [] h.step = "sending" -> RetryMax + 2 - h.attempt
    [] h.step = "tracking" -> 1
    [] h.step = "answered" -> 0

\* Every attempt counts, whatever made it fail: no step of a handler, and no
\* batch created for it, is free, so it comes to its answer.
AttemptsRunOut ==
  [][\A s \in Submission :
       handler'[s] # handler[s] \/ JobsOf(s)' # JobsOf(s) =>
         StepsLeft(handler'[s]) < StepsLeft(handler[s])]_submitVars

\* Every submission that has begun to send is answered.
SubmissionAnswered ==
  \A s \in Submission : (handler[s].step = "sending") ~> (handler[s].step = "answered")
=============================================================================
