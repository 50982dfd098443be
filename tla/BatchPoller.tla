---------------------------- MODULE BatchPoller ----------------------------
(***************************************************************************)
(* internal/batch/poller.go: the table of submitted jobs, the background   *)
(* loop that polls the remote Batch API for each of them, and the calls    *)
(* that track, cancel, forget and read jobs meanwhile.  bp.mu protects the *)
(* table, but not the remote calls made between its sections, nor the      *)
(* tracker fields pollJob writes through the pointer it took out of it.    *)
(*                                                                         *)
(* The remote API is outside the code: it is modelled from the statuses    *)
(* internal/client/batch.go lists and from the calls the client makes.     *)
(* Start and Stop are in PollerLifecycle; here the loop runs.              *)
(***************************************************************************)
EXTENDS Integers, FiniteSets

CONSTANTS
  Job,        \* ids the remote API gives to submitted jobs
  Canceller,  \* HTTP handlers inside HandleCancelBatch
  Reader,     \* HTTP handlers inside HandleBatchResults
  CountCap,   \* the statistics counters saturate here (bounds the model)
  NoJob       \* a handler that works on no job

ASSUME PollerAssumption == NoJob \notin Job /\ CountCap \in Nat

VARIABLES
  remote,     \* the API's processing_status of each job
  output,     \* the API has an output file for the job
  tracked,    \* the keys of bp.jobs
  tracker,    \* the BatchJobTracker of each
  pc,         \* where the polling loop is
  todo,       \* the ids pollAllJobs collected and has not polled yet
  cur,        \* the job pollJob is at
  resp,       \* the status GetBatchStatus returned to pollJob
  polled, complete, failed,   \* totalJobsPolled, -Complete, -Failed
  cancel,     \* each HandleCancelBatch: the job, and the status CancelBatch returned
  read        \* each HandleBatchResults: the job, what it read and answered

remoteVars == <<remote, output>>
tableVars == <<tracked, tracker>>
loopVars == <<pc, todo, cur, resp, polled, complete, failed>>
vars == <<remote, output, tracked, tracker, pc, todo, cur, resp, polled,
          complete, failed, cancel, read>>

Finished == {"succeeded", "failed", "expired", "canceled"}
Status == Finished \cup {"queued", "in_progress"}
Retrievable == {"succeeded", "failed"}  \* pollJob fetches results, GetJobResults serves them

\* BatchJobTracker: the status, the poll its request counts come from, whether
\* Results is set, whether ErrorMessage is.
Tracker == [status : Status, counts : Status, results : BOOLEAN, error : BOOLEAN]
Fresh == [status |-> "queued", counts |-> "queued", results |-> FALSE, error |-> FALSE]

Idle == [step |-> "idle", job |-> NoJob, status |-> "queued", results |-> FALSE]
Handler == [step : {"idle", "remote", "write", "results", "answered"},
            job : Job \cup {NoJob}, status : Status, results : BOOLEAN]

PollerTypeOK ==
  /\ remote \in [Job -> Status \cup {"absent"}]
  /\ output \in [Job -> BOOLEAN]
  /\ tracked \in SUBSET Job
  /\ tracker \in [Job -> Tracker]
  /\ pc \in {"wait", "next", "status", "write", "counts", "fetch", "tally"}
  /\ todo \in SUBSET Job
  /\ cur \in Job \cup {NoJob}
  /\ pc \in {"status", "write", "counts", "fetch", "tally"} => cur \in Job
  /\ resp \in Status
  /\ polled \in Nat /\ complete \in Nat /\ failed \in Nat
  /\ cancel \in [Canceller -> Handler]
  /\ read \in [Reader -> Handler]

Init ==
  /\ remote = [j \in Job |-> "absent"]
  /\ output = [j \in Job |-> FALSE]
  /\ tracked = {}
  /\ tracker = [j \in Job |-> Fresh]
  /\ pc = "wait" /\ todo = {} /\ cur = NoJob /\ resp = "queued"
  /\ polled = 0 /\ complete = 0 /\ failed = 0
  /\ cancel = [c \in Canceller |-> Idle]
  /\ read = [h \in Reader |-> Idle]

Count(n) == IF n < CountCap THEN n + 1 ELSE n
-----------------------------------------------------------------------------
(* The remote API                                                          *)

\* A batch is created by SubmitBatch (BatchSubmission models that call).
RemoteCreate(j) ==
  /\ remote[j] = "absent"
  /\ remote' = [remote EXCEPT ![j] = "queued"]
  /\ UNCHANGED <<output, tableVars, loopVars, cancel, read>>

\* Processing moves on by itself and ends once, canceled when that was asked
\* for; a succeeded batch has an output file, a failed one may.
RemoteAdvance(j) ==
  /\ \/ remote[j] = "queued" /\ remote' = [remote EXCEPT ![j] = "in_progress"] /\ output' = output
     \/ /\ remote[j] = "in_progress"
        /\ \E s \in Finished, o \in BOOLEAN :
             /\ remote' = [remote EXCEPT ![j] = s]
             /\ s = "succeeded" => o
             /\ s \in {"expired", "canceled"} => ~o
             /\ output' = [output EXCEPT ![j] = o]
  /\ UNCHANGED <<tableVars, loopVars, cancel, read>>

\* What POST /batches/{id}/cancel does: an unfinished batch is canceled at
\* once, or goes on until the cancellation takes hold (RemoteAdvance); the
\* answer is the status it leaves the batch in.
CancelEffect(j, answer) ==
  /\ answer \in IF remote[j] \in Finished THEN {remote[j]} ELSE {remote[j], "canceled"}
  /\ remote' = [remote EXCEPT ![j] = answer]
-----------------------------------------------------------------------------
(* The polling loop                                                        *)

\* The ticker fires: pollAllJobs copies the ids under the read lock.
Tick ==
  /\ pc = "wait"
  /\ pc' = "next"
  /\ todo' = tracked
  /\ UNCHANGED <<remoteVars, tableVars, cur, resp, polled, complete, failed, cancel, read>>

\* pollAllJobs is through with its list.
RoundDone ==
  /\ pc = "next" /\ todo = {}
  /\ pc' = "wait" /\ cur' = NoJob /\ resp' = "queued"
  /\ UNCHANGED <<remoteVars, tableVars, todo, polled, complete, failed, cancel, read>>

\* pollJob takes the tracker out of the table, or returns when it is gone.
TakeTracker(j) ==
  /\ pc = "next" /\ j \in todo
  /\ todo' = todo \ {j}
  /\ IF j \in tracked THEN pc' = "status" /\ cur' = j ELSE UNCHANGED <<pc, cur>>
  /\ UNCHANGED <<remoteVars, tableVars, resp, polled, complete, failed, cancel, read>>

\* A write through the pointer pollJob holds: if the job has been forgotten
\* meanwhile the tracker is no longer in the table and nobody sees it.
Through(pointer, t) == IF pointer \in tracked THEN [tracker EXCEPT ![pointer] = t] ELSE tracker

\* GetBatchStatus fails: the error is recorded and nothing is counted.
StatusError ==
  /\ pc = "status"
  /\ tracker' = Through(cur, [tracker[cur] EXCEPT !.error = TRUE])
  /\ pc' = "next"
  /\ UNCHANGED <<remoteVars, tracked, todo, cur, resp, polled, complete, failed, cancel, read>>

\* GetBatchStatus answers; what pollJob writes next is what it saw now.
StatusOK ==
  /\ pc = "status"
  /\ resp' = remote[cur]
  /\ pc' = "write"
  /\ UNCHANGED <<remoteVars, tableVars, todo, cur, polled, complete, failed, cancel, read>>

\* Faulty variant: a job whose results are there is not updated any more.
WriteStatusUntilResults ==
  /\ pc = "write"
  /\ tracker' = IF tracker[cur].results THEN tracker
                ELSE Through(cur, [tracker[cur] EXCEPT !.status = resp])
  /\ pc' = "counts"
  /\ UNCHANGED <<remoteVars, tracked, todo, cur, resp, polled, complete, failed, cancel, read>>

\* tracker.Status is assigned without the lock ...
WriteStatus ==
  /\ pc = "write"
  /\ tracker' = Through(cur, [tracker[cur] EXCEPT !.status = resp])
  /\ pc' = "counts"
  /\ UNCHANGED <<remoteVars, tracked, todo, cur, resp, polled, complete, failed, cancel, read>>

\* Faulty variant: results are fetched when the finish is first seen, only.
WriteCountsFetchOnce ==
  /\ pc = "counts"
  /\ tracker' = Through(cur, [tracker[cur] EXCEPT !.counts = resp])
  /\ pc' = IF resp \in Retrievable /\ tracker[cur].counts # resp THEN "fetch" ELSE "tally"
  /\ UNCHANGED <<remoteVars, tracked, todo, cur, resp, polled, complete, failed, cancel, read>>

\* ... and the request counts after it.  Results are fetched of a succeeded or
\* failed job each time it is polled.
WriteCounts ==
  /\ pc = "counts"
  /\ tracker' = Through(cur, [tracker[cur] EXCEPT !.counts = resp])
  /\ pc' = IF resp \in Retrievable THEN "fetch" ELSE "tally"
  /\ UNCHANGED <<remoteVars, tracked, todo, cur, resp, polled, complete, failed, cancel, read>>

\* Faulty variant: a download that fails leaves no results.
FetchResultsAnew ==
  /\ pc = "fetch"
  /\ \/ /\ output[cur]
        /\ tracker' = Through(cur, [tracker[cur] EXCEPT !.results = TRUE])
     \/ tracker' = Through(cur, [tracker[cur] EXCEPT !.results = FALSE, !.error = TRUE])
  /\ pc' = "tally"
  /\ UNCHANGED <<remoteVars, tracked, todo, cur, resp, polled, complete, failed, cancel, read>>

\* retrieveResults: asks for the status again, downloads the output file and
\* stores it under the lock if the job is still tracked; on an error, or
\* without an output file, only ErrorMessage is set.
FetchResults ==
  /\ pc = "fetch"
  /\ \/ /\ output[cur]
        /\ tracker' = Through(cur, [tracker[cur] EXCEPT !.results = TRUE])
     \/ tracker' = Through(cur, [tracker[cur] EXCEPT !.error = TRUE])
  /\ pc' = "tally"
  /\ UNCHANGED <<remoteVars, tracked, todo, cur, resp, polled, complete, failed, cancel, read>>

\* The totals, whether or not the results came.
Tally ==
  /\ pc = "tally"
  /\ polled' = Count(polled)
  /\ complete' = IF resp \in Retrievable THEN Count(complete) ELSE complete
  /\ failed' = IF resp = "failed" THEN Count(failed) ELSE failed
  /\ pc' = "next"
  /\ UNCHANGED <<remoteVars, tableVars, todo, cur, resp, cancel, read>>
-----------------------------------------------------------------------------
(* The calls of the handlers                                               *)

\* TrackJob, called once with the id of a batch the API has created.
TrackJob(j) ==
  /\ remote[j] # "absent" /\ j \notin tracked /\ tracker[j] = Fresh
  /\ tracked' = tracked \cup {j}
  /\ UNCHANGED <<remoteVars, tracker, loopVars, cancel, read>>

\* The statuses ForgetJob takes for completed.
Forgettable == {"succeeded", "failed", "expired"}

\* ForgetJob refuses a job it takes to be in progress.  (What is left in
\* tracker[j], which nobody reads any more, marks the id as used.)
ForgetJob(j) ==
  /\ j \in tracked /\ tracker[j].status \in Forgettable
  /\ tracked' = tracked \ {j}
  /\ tracker' = [tracker EXCEPT ![j] = [Fresh EXCEPT !.error = TRUE]]
  /\ UNCHANGED <<remoteVars, loopVars, cancel, read>>

\* CancelJob: the job is looked up under the read lock ...
CancelLookup(c, j) ==
  /\ cancel[c].step = "idle" /\ j \in tracked
  /\ cancel' = [cancel EXCEPT ![c] = [Idle EXCEPT !.step = "remote", !.job = j]]
  /\ UNCHANGED <<remoteVars, tableVars, loopVars, read>>

\* ... the API is called without it; on an error (the request, or the answer,
\* may be what got lost) the handler gives up ...
CancelRemote(c) ==
  /\ cancel[c].step = "remote"
  /\ \/ \E s \in Status :
          /\ CancelEffect(cancel[c].job, s)
          /\ \/ cancel' = [cancel EXCEPT ![c] = [@ EXCEPT !.step = "write", !.status = s]]
             \/ cancel' = [cancel EXCEPT ![c] = Idle]
     \/ remote' = remote /\ cancel' = [cancel EXCEPT ![c] = Idle]
  /\ UNCHANGED <<output, tableVars, loopVars, read>>

\* Faulty variant: the status is set to what was asked for.
CancelWriteCanceled(c) ==
  /\ cancel[c].step = "write"
  /\ tracker' = Through(cancel[c].job, [tracker[cancel[c].job] EXCEPT !.status = "canceled"])
  /\ cancel' = [cancel EXCEPT ![c] = Idle]
  /\ UNCHANGED <<remoteVars, tracked, loopVars, read>>

\* ... and the answer is written under the lock if the job is still tracked.
CancelWrite(c) ==
  /\ cancel[c].step = "write"
  /\ tracker' = Through(cancel[c].job, [tracker[cancel[c].job] EXCEPT !.status = cancel[c].status])
  /\ cancel' = [cancel EXCEPT ![c] = Idle]
  /\ UNCHANGED <<remoteVars, tracked, loopVars, read>>

\* HandleBatchResults: GetJobStatus copies the tracker in one section of the
\* lock ...
ReadStatus(h, j) ==
  /\ read[h].step = "idle" /\ j \in tracked
  /\ read' = [read EXCEPT ![h] = [Idle EXCEPT !.step = "results", !.job = j,
                                  !.status = tracker[j].status]]
  /\ UNCHANGED <<remoteVars, tableVars, loopVars, cancel>>

\* ... GetJobResults copies the results in another, and refuses unless the job
\* is succeeded or failed by then.
ReadResults(h) ==
  /\ read[h].step = "results"
  /\ read' = [read EXCEPT ![h] =
                IF read[h].job \in tracked /\ tracker[read[h].job].status \in Retrievable
                THEN [@ EXCEPT !.step = "answered", !.results = tracker[read[h].job].results]
                ELSE Idle]
  /\ UNCHANGED <<remoteVars, tableVars, loopVars, cancel>>

\* The client takes the 200 answer.
ReadDone(h) ==
  /\ read[h].step = "answered"
  /\ read' = [read EXCEPT ![h] = Idle]
  /\ UNCHANGED <<remoteVars, tableVars, loopVars, cancel>>
-----------------------------------------------------------------------------
Loop ==
  \/ Tick \/ RoundDone \/ (\E j \in Job : TakeTracker(j))
  \/ StatusOK \/ StatusError \/ WriteStatus \/ WriteCounts \/ FetchResults \/ Tally

Next ==
  \/ \E j \in Job : RemoteCreate(j) \/ RemoteAdvance(j) \/ TrackJob(j) \/ ForgetJob(j)
  \/ Loop
  \/ \E c \in Canceller : (\E j \in Job : CancelLookup(c, j)) \/ CancelRemote(c) \/ CancelWrite(c)
  \/ \E h \in Reader : (\E j \in Job : ReadStatus(h, j)) \/ ReadResults(h) \/ ReadDone(h)

Spec == Init /\ [][Next]_vars

\* The loop is a goroutine that never blocks for ever (the HTTP client has a
\* timeout), so it keeps going; a remote call that is tried again and again
\* succeeds some time; a handler past its remote call ends.
FairSpec ==
  /\ Spec
  /\ WF_vars(Loop)
  /\ \A j \in Job : SF_vars(StatusOK /\ cur = j)
  /\ \A j \in Job : SF_vars(FetchResults /\ cur = j /\ tracker'[j].results)
  /\ \A c \in Canceller : WF_vars(CancelWrite(c))
-----------------------------------------------------------------------------
(* What must hold                                                          *)

\* A tracked job recorded as finished is finished at the API, with that very
\* status, whatever poll and cancellation answers were in flight.
FinishedIsTrue ==
  \A j \in tracked : tracker[j].status \in Finished => remote[j] = tracker[j].status

\* Results are stored only of a job the API has finished with an output file,
\* never of one that expired or was canceled.
ResultsAreGenuine ==
  \A j \in tracked : tracker[j].results => remote[j] \in Retrievable /\ output[j]

\* A job leaves the table only when the API is through with it: no running
\* batch is lost from sight.
ForgetOnlyFinished ==
  [][\A j \in Job : j \in tracked /\ j \notin tracked' => remote[j] \in Finished]_vars

\* The table, and every answer on its way into it, agree with the API that the
\* job is finished.
Agreed(j) ==
  /\ j \in tracked /\ remote[j] \in Finished /\ tracker[j].status = remote[j]
  /\ pc = "write" /\ cur = j => resp = remote[j]
  /\ \A c \in Canceller :
       cancel[c].step = "write" /\ cancel[c].job = j => cancel[c].status = remote[j]

\* What is agreed on stays, with the results: later polls, failed downloads and
\* cancellations that come too late take nothing back until the job is forgotten.
AgreedStays ==
  [][\A j \in Job : Agreed(j) /\ j \in tracked' =>
       Agreed(j)' /\ (tracker[j].results => tracker'[j].results)]_vars

\* Once the API has finished a job, the table says so some time and then for
\* good, although a late answer may set it back in between.
SettlesForGood ==
  \A j \in Job :
    (j \in tracked /\ remote[j] \in Finished) ~>
      [](j \in tracked => tracker[j].status = remote[j])

\* The results of a finished job with an output file arrive, as long as it is
\* not forgotten first: a failed download is made up for in a later round.
ResultsArrive ==
  \A j \in Job :
    (j \in tracked /\ remote[j] \in Retrievable /\ output[j]) ~>
      (j \notin tracked \/ tracker[j].results)
=============================================================================
