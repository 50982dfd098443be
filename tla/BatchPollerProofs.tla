-------------------------- MODULE BatchPollerProofs --------------------------
(***************************************************************************)
(* Proofs about BatchPoller, for any jobs, handlers and cap.  The table is *)
(* right although it is written without the lock and from answers that     *)
(* may be old: an answer in flight that says "finished" is true and stays  *)
(* true, because the API never takes a finish back.                        *)
(***************************************************************************)
EXTENDS BatchPoller, TLAPS

AtJob == {"status", "write", "counts", "fetch", "tally"}
AfterAnswer == {"write", "counts", "fetch", "tally"}

\* Whoever works on a job works on one the API has created.
KnownExist ==
  /\ \A j \in tracked : remote[j] # "absent"
  /\ pc \in AtJob => remote[cur] # "absent"
  /\ \A c \in Canceller : cancel[c].step # "idle" =>
       cancel[c].job \in Job /\ remote[cancel[c].job] # "absent"

\* The loop's answer: a finish it reports is the job's; results are fetched
\* only after such an answer.
LoopAnswerTrue ==
  /\ pc \in AfterAnswer /\ resp \in Finished => remote[cur] = resp
  /\ pc = "fetch" => resp \in Retrievable

\* The same of the answer a cancellation is about to write.
CancelAnswerTrue ==
  \A c \in Canceller : cancel[c].step = "write" /\ cancel[c].status \in Finished =>
    remote[cancel[c].job] = cancel[c].status

PollerInv ==
  /\ PollerTypeOK
  /\ KnownExist
  /\ LoopAnswerTrue
  /\ CancelAnswerTrue
  /\ FinishedIsTrue
  /\ ResultsAreGenuine

\* Updates of the two records keep their types.
LEMMA TrackerUpdate ==
  ASSUME NEW t \in Tracker
  PROVE  /\ \A s \in Status : /\ [t EXCEPT !.status = s] \in Tracker
                              /\ [t EXCEPT !.counts = s] \in Tracker
         /\ [t EXCEPT !.results = TRUE] \in Tracker
         /\ [t EXCEPT !.error = TRUE] \in Tracker
  BY DEF Tracker

LEMMA HandlerUpdate ==
  /\ Idle \in Handler
  /\ \A j \in Job : [Idle EXCEPT !.step = "remote", !.job = j] \in Handler
  /\ \A j \in Job, s \in Status :
       [Idle EXCEPT !.step = "results", !.job = j, !.status = s] \in Handler
  /\ \A h \in Handler, s \in Status : [h EXCEPT !.step = "write", !.status = s] \in Handler
  /\ \A h \in Handler, b \in BOOLEAN : [h EXCEPT !.step = "answered", !.results = b] \in Handler
  BY DEF Idle, Handler, Status

LEMMA PollerInitInv == Init => PollerInv
  BY PollerAssumption
  DEF Init, PollerInv, PollerTypeOK, KnownExist, LoopAnswerTrue, CancelAnswerTrue,
      FinishedIsTrue, ResultsAreGenuine, Fresh, Tracker, Status, Finished, Idle, Handler,
      AtJob, AfterAnswer
-----------------------------------------------------------------------------
(* One lemma per group of actions                                          *)

\* A batch comes into being or moves on: no finish is taken back.
LEMMA RemoteStep ==
  ASSUME PollerInv, NEW j \in Job, RemoteCreate(j) \/ RemoteAdvance(j)
  PROVE  PollerInv'
<1> USE DEF remoteVars, tableVars, loopVars
<1>1. remote' \in [Job -> Status \cup {"absent"}] /\ output' \in [Job -> BOOLEAN]
  BY DEF PollerInv, PollerTypeOK, RemoteCreate, RemoteAdvance, Status, Finished
<1>2. PollerTypeOK'
  BY <1>1 DEF PollerInv, PollerTypeOK, RemoteCreate, RemoteAdvance
<1>3. \A k \in Job : /\ remote[k] \in Finished => remote'[k] = remote[k] /\ output'[k] = output[k]
                     /\ remote[k] # "absent" => remote'[k] # "absent"
  BY DEF PollerInv, PollerTypeOK, RemoteCreate, RemoteAdvance, Finished
<1>4. KnownExist'
  BY <1>3 DEF PollerInv, PollerTypeOK, KnownExist, AtJob, RemoteCreate, RemoteAdvance
<1>5. LoopAnswerTrue' /\ CancelAnswerTrue'
  BY <1>3 DEF PollerInv, PollerTypeOK, KnownExist, LoopAnswerTrue, CancelAnswerTrue,
              AfterAnswer, RemoteCreate, RemoteAdvance
<1>6. FinishedIsTrue' /\ ResultsAreGenuine'
  BY <1>3 DEF PollerInv, PollerTypeOK, FinishedIsTrue, ResultsAreGenuine, Retrievable,
              Finished, RemoteCreate, RemoteAdvance
<1> QED BY <1>2, <1>4, <1>5, <1>6 DEF PollerInv

\* The loop between two trackers, and its tally.
LEMMA LoopMoves ==
  ASSUME PollerInv, Tick \/ RoundDone \/ (\E j \in Job : TakeTracker(j)) \/ Tally
  PROVE  PollerInv'
  BY PollerAssumption
  DEF PollerInv, PollerTypeOK, KnownExist, LoopAnswerTrue, CancelAnswerTrue,
      FinishedIsTrue, ResultsAreGenuine, AtJob, AfterAnswer, Status, Finished,
      Tick, RoundDone, TakeTracker, Tally, Count, remoteVars, tableVars, loopVars

\* The answer of GetBatchStatus is true when it is given.
LEMMA LoopAsks ==
  ASSUME PollerInv, StatusOK
  PROVE  PollerInv'
  BY DEF PollerInv, PollerTypeOK, KnownExist, LoopAnswerTrue, CancelAnswerTrue,
      FinishedIsTrue, ResultsAreGenuine, AtJob, AfterAnswer, Status, Finished,
      StatusOK, remoteVars, tableVars

\* A write through the pointer touches the tracker of a tracked job, if any.
LEMMA ThroughTracker ==
  ASSUME PollerInv, NEW k \in Job, NEW t \in Tracker
  PROVE  /\ Through(k, t) \in [Job -> Tracker]
         /\ \A j \in tracked : Through(k, t)[j] = IF j = k THEN t ELSE tracker[j]
  BY DEF PollerInv, PollerTypeOK, Through

\* A write keeps the table right when what it writes is right.
LEMMA GoodWrite ==
  ASSUME PollerInv, NEW k \in Job, NEW t \in Tracker,
         tracker' = Through(k, t), UNCHANGED <<remote, output, tracked>>,
         k \in tracked => (t.status \in Finished => remote[k] = t.status),
         k \in tracked => (t.results => remote[k] \in Retrievable /\ output[k])
  PROVE  tracker' \in [Job -> Tracker] /\ FinishedIsTrue' /\ ResultsAreGenuine'
<1>1. /\ tracker' \in [Job -> Tracker]
      /\ \A j \in tracked : tracker'[j] = IF j = k THEN t ELSE tracker[j]
  BY ThroughTracker
<1>2. FinishedIsTrue'
  BY <1>1 DEF PollerInv, FinishedIsTrue
<1>3. ResultsAreGenuine'
  BY <1>1 DEF PollerInv, ResultsAreGenuine
<1> QED BY <1>1, <1>2, <1>3

\* A step of the loop that writes into the tracker: the error, the status, the
\* counts or the results.
LEMMA LoopWrites ==
  ASSUME PollerInv, StatusError \/ WriteStatus \/ WriteCounts \/ FetchResults
  PROVE  PollerInv'
<1> USE DEF remoteVars, tableVars
<1>1. /\ cur \in Job /\ tracker[cur] \in Tracker /\ resp \in Status
      /\ pc \in AtJob /\ UNCHANGED <<remote, output, tracked, todo, cur, resp, cancel, read>>
      /\ pc' \in {"next", "counts", "fetch", "tally"}
      /\ UNCHANGED <<polled, complete, failed>>
      /\ pc' = "fetch" => resp \in Retrievable
      /\ pc' \in AfterAnswer => pc \in AfterAnswer
  BY DEF PollerInv, PollerTypeOK, AtJob, AfterAnswer, StatusError, WriteStatus,
         WriteCounts, FetchResults
<1>2. \E t \in Tracker :
        /\ tracker' = Through(cur, t)
        /\ cur \in tracked => (t.status \in Finished => remote[cur] = t.status)
        /\ cur \in tracked => (t.results => remote[cur] \in Retrievable /\ output[cur])
  <2>0. /\ cur \in tracked /\ tracker[cur].status \in Finished => remote[cur] = tracker[cur].status
        /\ cur \in tracked /\ tracker[cur].results => remote[cur] \in Retrievable /\ output[cur]
    BY DEF PollerInv, FinishedIsTrue, ResultsAreGenuine
  <2>1. CASE StatusError
    <3>1. [tracker[cur] EXCEPT !.error = TRUE] \in Tracker
      BY <1>1, TrackerUpdate
    <3> WITNESS [tracker[cur] EXCEPT !.error = TRUE] \in Tracker
    <3> QED BY <3>1, <2>0, <2>1, <1>1 DEF StatusError, Tracker
  <2>2. CASE WriteStatus
    <3>1. [tracker[cur] EXCEPT !.status = resp] \in Tracker
      BY <1>1, TrackerUpdate
    <3> WITNESS [tracker[cur] EXCEPT !.status = resp] \in Tracker
    <3> QED BY <3>1, <2>0, <2>2, <1>1 DEF WriteStatus, Tracker, PollerInv, LoopAnswerTrue, AfterAnswer
  <2>3. CASE WriteCounts
    <3>1. [tracker[cur] EXCEPT !.counts = resp] \in Tracker
      BY <1>1, TrackerUpdate
    <3> WITNESS [tracker[cur] EXCEPT !.counts = resp] \in Tracker
    <3> QED BY <3>1, <2>0, <2>3, <1>1 DEF WriteCounts, Tracker
  <2>4. CASE FetchResults /\ output[cur] /\ tracker' = Through(cur, [tracker[cur] EXCEPT !.results = TRUE])
    <3>1. [tracker[cur] EXCEPT !.results = TRUE] \in Tracker
      BY <1>1, TrackerUpdate
    <3> WITNESS [tracker[cur] EXCEPT !.results = TRUE] \in Tracker
    <3> QED BY <3>1, <2>0, <2>4, <1>1 DEF FetchResults, Tracker, PollerInv, LoopAnswerTrue, AfterAnswer,
                                    Retrievable, Finished
  <2>5. CASE FetchResults /\ tracker' = Through(cur, [tracker[cur] EXCEPT !.error = TRUE])
    <3>1. [tracker[cur] EXCEPT !.error = TRUE] \in Tracker
      BY <1>1, TrackerUpdate
    <3> WITNESS [tracker[cur] EXCEPT !.error = TRUE] \in Tracker
    <3> QED BY <3>1, <2>0, <2>5, <1>1 DEF Tracker
  <2> QED BY <2>1, <2>2, <2>3, <2>4, <2>5 DEF FetchResults
<1>3. tracker' \in [Job -> Tracker] /\ FinishedIsTrue' /\ ResultsAreGenuine'
  BY <1>1, <1>2, GoodWrite
<1>4. PollerTypeOK'
  BY <1>1, <1>3 DEF PollerInv, PollerTypeOK
<1>5. KnownExist' /\ LoopAnswerTrue' /\ CancelAnswerTrue'
  BY <1>1 DEF PollerInv, KnownExist, LoopAnswerTrue, CancelAnswerTrue, AtJob, AfterAnswer
<1> QED BY <1>3, <1>4, <1>5 DEF PollerInv

\* The table gains a job the API has, or loses one.
LEMMA TableStep ==
  ASSUME PollerInv, NEW j \in Job, TrackJob(j) \/ ForgetJob(j)
  PROVE  PollerInv'
<1> USE DEF remoteVars, tableVars, loopVars
<1>1. CASE TrackJob(j)
  BY <1>1 DEF TrackJob, PollerInv, PollerTypeOK, KnownExist, LoopAnswerTrue, CancelAnswerTrue,
              FinishedIsTrue, ResultsAreGenuine, Fresh, Finished
<1>2. CASE ForgetJob(j)
  <2>1. tracker' \in [Job -> Tracker] /\ \A k \in tracked' : k \in tracked /\ tracker'[k] = tracker[k]
    BY <1>2 DEF ForgetJob, PollerInv, PollerTypeOK, Fresh, Tracker, Status
  <2> QED
    BY <1>2, <2>1 DEF ForgetJob, PollerInv, PollerTypeOK, KnownExist, LoopAnswerTrue,
                      CancelAnswerTrue, FinishedIsTrue, ResultsAreGenuine
<1> QED BY <1>1, <1>2

\* A cancellation: its look into the table, the remote call, the write.
LEMMA CancelStep ==
  ASSUME PollerInv, NEW c \in Canceller,
         (\E j \in Job : CancelLookup(c, j)) \/ CancelRemote(c) \/ CancelWrite(c)
  PROVE  PollerInv'
<1> USE DEF remoteVars, tableVars, loopVars
<1>1. ASSUME NEW j \in Job, CancelLookup(c, j) PROVE PollerInv'
  <2>1. cancel' \in [Canceller -> Handler]
    BY <1>1 DEF CancelLookup, PollerInv, PollerTypeOK, Idle, Handler, Status
  <2> QED
    BY <1>1, <2>1 DEF CancelLookup, PollerInv, PollerTypeOK, KnownExist, LoopAnswerTrue,
                 CancelAnswerTrue, FinishedIsTrue, ResultsAreGenuine, Idle
<1>2. CASE CancelRemote(c)
  <2> DEFINE k == cancel[c].job
  <2>1. k \in Job /\ remote[k] \in Status /\ remote[k] # "absent" /\ cancel[c] \in Handler
    BY <1>2 DEF CancelRemote, PollerInv, PollerTypeOK, KnownExist
  <2>2. remote' \in [Job -> Status \cup {"absent"}] /\ cancel \in [Canceller -> Handler]
    BY <1>2, <2>1 DEF CancelRemote, CancelEffect, PollerInv, PollerTypeOK, Status, Finished
  <2>3. \A j \in Job : /\ remote[j] \in Finished => remote'[j] = remote[j]
                       /\ remote[j] # "absent" => remote'[j] # "absent"
    BY <1>2, <2>1 DEF CancelRemote, CancelEffect, PollerInv, PollerTypeOK, Status, Finished
  <2>4. UNCHANGED <<output, tracked, tracker, pc, todo, cur, resp, polled, complete, failed, read>>
    BY <1>2 DEF CancelRemote
  <2> DEFINE Set == \E v \in Handler :
                      /\ cancel' = [cancel EXCEPT ![c] = v]
                      /\ \/ v.step = "write" /\ v.job = k /\ remote'[k] = v.status
                         \/ v.step = "idle"
  <2>5. Set
    <3>1. ASSUME NEW s \in Status, CancelEffect(k, s),
                 cancel' = [cancel EXCEPT ![c] = [@ EXCEPT !.step = "write", !.status = s]]
          PROVE  Set
      <4> DEFINE v == [cancel[c] EXCEPT !.step = "write", !.status = s]
      <4>1. v \in Handler
        BY <2>1, HandlerUpdate
      <4>2. v.step = "write" /\ v.job = k /\ v.status = s
        BY <2>1 DEF Handler
      <4>3. remote'[k] = s
        BY <3>1, <2>1 DEF CancelEffect, PollerInv, PollerTypeOK
      <4>4. cancel' = [cancel EXCEPT ![c] = v]
        BY <3>1
      <4> HIDE DEF v, k
      <4> QED BY <4>1, <4>2, <4>3, <4>4
    <3>2. ASSUME cancel' = [cancel EXCEPT ![c] = Idle] PROVE Set
      <4>1. Idle \in Handler /\ Idle.step = "idle"
        BY HandlerUpdate DEF Idle
      <4> QED BY <3>2, <4>1
    <3> QED BY <1>2, <3>1, <3>2 DEF CancelRemote
  <2>6. /\ cancel' \in [Canceller -> Handler]
        /\ \A d \in Canceller \ {c} : cancel'[d] = cancel[d]
        /\ \/ cancel'[c].step = "write" /\ cancel'[c].job = k /\ remote'[k] = cancel'[c].status
           \/ cancel'[c].step = "idle"
    <3> HIDE DEF k
    <3> QED BY <2>2, <2>5
  <2>7. PollerTypeOK'
    BY <2>2, <2>4, <2>6 DEF PollerInv, PollerTypeOK
  <2>8. KnownExist'
    BY <2>1, <2>3, <2>4, <2>6 DEF PollerInv, PollerTypeOK, KnownExist, AtJob
  <2>9. LoopAnswerTrue' /\ CancelAnswerTrue'
    BY <2>3, <2>4, <2>6, <2>1
    DEF PollerInv, PollerTypeOK, KnownExist, LoopAnswerTrue, CancelAnswerTrue, AfterAnswer
  <2>10. FinishedIsTrue' /\ ResultsAreGenuine'
    BY <2>3, <2>4 DEF PollerInv, PollerTypeOK, FinishedIsTrue, ResultsAreGenuine,
                      Retrievable, Finished
  <2> QED BY <2>7, <2>8, <2>9, <2>10 DEF PollerInv
<1>3. CASE CancelWrite(c)
  <2> DEFINE k == cancel[c].job
             t == [tracker[k] EXCEPT !.status = cancel[c].status]
  <2>1. k \in Job /\ tracker[k] \in Tracker /\ t \in Tracker
    <3>1. k \in Job /\ tracker[k] \in Tracker
      BY <1>3 DEF CancelWrite, PollerInv, PollerTypeOK, KnownExist
    <3>2. cancel[c].status \in Status
      BY DEF PollerInv, PollerTypeOK, Handler
    <3> QED BY <3>1, <3>2, TrackerUpdate
  <2>2. tracker' = Through(k, t) /\ UNCHANGED <<remote, output, tracked>>
    BY <1>3 DEF CancelWrite
  <2>3. t.status \in Finished => remote[k] = t.status
    BY <1>3, <2>1 DEF CancelWrite, PollerInv, CancelAnswerTrue, Tracker
  <2>4. k \in tracked => (t.results => remote[k] \in Retrievable /\ output[k])
    BY <2>1 DEF PollerInv, ResultsAreGenuine, Tracker
  <2>5. tracker' \in [Job -> Tracker] /\ FinishedIsTrue' /\ ResultsAreGenuine'
    <3> HIDE DEF k, t
    <3> QED BY <2>1, <2>2, <2>3, <2>4, GoodWrite
  <2>6. cancel' = [cancel EXCEPT ![c] = Idle] /\ cancel' \in [Canceller -> Handler]
    BY <1>3 DEF CancelWrite, PollerInv, PollerTypeOK, Idle, Handler, Status
  <2>7. PollerTypeOK'
    BY <1>3, <2>5, <2>6 DEF CancelWrite, PollerInv, PollerTypeOK
  <2>8. KnownExist' /\ LoopAnswerTrue' /\ CancelAnswerTrue'
    BY <1>3, <2>6 DEF CancelWrite, PollerInv, PollerTypeOK, KnownExist, LoopAnswerTrue,
                      CancelAnswerTrue, Idle
  <2> QED BY <2>5, <2>7, <2>8 DEF PollerInv
<1> QED BY <1>1, <1>2, <1>3

\* Readers change nothing but their own record.
LEMMA ReadStep ==
  ASSUME PollerInv, NEW h \in Reader,
         (\E j \in Job : ReadStatus(h, j)) \/ ReadResults(h) \/ ReadDone(h)
  PROVE  PollerInv'
<1> USE DEF remoteVars, tableVars, loopVars
<1>1. read' \in [Reader -> Handler]
  <2>1. \A j \in Job : tracker[j].status \in Status /\ tracker[j].results \in BOOLEAN
    BY DEF PollerInv, PollerTypeOK, Tracker
  <2>2. read[h] \in Handler /\ read \in [Reader -> Handler] /\ tracked \subseteq Job
    BY DEF PollerInv, PollerTypeOK
  <2>3. ASSUME NEW j \in Job, ReadStatus(h, j) PROVE read' \in [Reader -> Handler]
    BY <2>1, <2>2, <2>3, HandlerUpdate DEF ReadStatus
  <2>4. CASE ReadResults(h)
    BY <2>1, <2>2, <2>4, HandlerUpdate DEF ReadResults
  <2>5. CASE ReadDone(h)
    BY <2>2, <2>5, HandlerUpdate DEF ReadDone
  <2> QED BY <2>3, <2>4, <2>5
<1>2. UNCHANGED <<remote, output, tracked, tracker, pc, todo, cur, resp, polled, complete, failed, cancel>>
  BY DEF ReadStatus, ReadResults, ReadDone
<1> QED
  BY <1>1, <1>2 DEF PollerInv, PollerTypeOK, KnownExist, LoopAnswerTrue, CancelAnswerTrue,
                    FinishedIsTrue, ResultsAreGenuine

LEMMA PollerNextInv == PollerInv /\ [Next]_vars => PollerInv'
<1> SUFFICES ASSUME PollerInv, [Next]_vars PROVE PollerInv'
  OBVIOUS
<1>1. CASE UNCHANGED vars
  BY <1>1 DEF vars, PollerInv, PollerTypeOK, KnownExist, LoopAnswerTrue, CancelAnswerTrue,
              FinishedIsTrue, ResultsAreGenuine
<1>2. CASE Next
  BY <1>2, RemoteStep, LoopMoves, LoopAsks, LoopWrites, TableStep, CancelStep, ReadStep
  DEF Next, Loop
<1> QED BY <1>1, <1>2

\* Every state is of its type.
THEOREM PollerTypeCorrect == Spec => []PollerTypeOK
<1>1. PollerInv => PollerTypeOK
  BY DEF PollerInv
<1> QED BY <1>1, PollerInitInv, PollerNextInv, PTL DEF Spec

\* pollJob's unlocked writes and late cancellation answers never make the
\* table claim a finish that is not the API's.
THEOREM FinishedJobsAreFinished == Spec => []FinishedIsTrue
<1>1. PollerInv => FinishedIsTrue
  BY DEF PollerInv
<1> QED BY <1>1, PollerInitInv, PollerNextInv, PTL DEF Spec

\* retrieveResults stores results of jobs that have some, only.
THEOREM StoredResultsAreGenuine == Spec => []ResultsAreGenuine
<1>1. PollerInv => ResultsAreGenuine
  BY DEF PollerInv
<1> QED BY <1>1, PollerInitInv, PollerNextInv, PTL DEF Spec

\* A step that takes a job out of the table is ForgetJob, and by the
\* invariant the status it relies on is the API's.
LEMMA ForgetStep ==
  PollerInv /\ [Next]_vars =>
    \A j \in Job : j \in tracked /\ j \notin tracked' => remote[j] \in Finished
<1> SUFFICES ASSUME PollerInv, [Next]_vars, NEW j \in Job, j \in tracked, j \notin tracked'
             PROVE  remote[j] \in Finished
  OBVIOUS
<1>1. ForgetJob(j)
  BY DEF Next, Loop, vars, remoteVars, tableVars, loopVars, RemoteCreate, RemoteAdvance,
         TrackJob, ForgetJob, Tick, RoundDone, TakeTracker, StatusOK, StatusError, WriteStatus,
         WriteCounts, FetchResults, Tally, CancelLookup, CancelRemote, CancelWrite,
         ReadStatus, ReadResults, ReadDone
<1> QED BY <1>1 DEF ForgetJob, Forgettable, PollerInv, FinishedIsTrue, Finished

\* No running batch is forgotten.
THEOREM RunningJobsAreKept == Spec => ForgetOnlyFinished
  BY PollerInitInv, PollerNextInv, ForgetStep, PTL DEF Spec, ForgetOnlyFinished
-----------------------------------------------------------------------------
(* What is agreed on stays: one lemma per part of the agreement            *)

\* The API keeps a finish.
LEMMA FinishKept ==
  ASSUME PollerInv, [Next]_vars, NEW j \in Job, remote[j] \in Finished
  PROVE  remote'[j] = remote[j]
<1>1. ASSUME NEW k \in Job, RemoteCreate(k) \/ RemoteAdvance(k) PROVE remote'[j] = remote[j]
  BY <1>1 DEF PollerInv, PollerTypeOK, RemoteCreate, RemoteAdvance, Finished
<1>2. ASSUME NEW c \in Canceller, CancelRemote(c) PROVE remote'[j] = remote[j]
  BY <1>2 DEF CancelRemote, CancelEffect, PollerInv, PollerTypeOK
<1> QED
  BY <1>1, <1>2
  DEF Next, Loop, vars, remoteVars, tableVars, loopVars, TrackJob, ForgetJob, Tick, RoundDone,
      TakeTracker, StatusOK, StatusError, WriteStatus, WriteCounts, FetchResults, Tally,
      CancelLookup, CancelWrite, ReadStatus, ReadResults, ReadDone

\* Every write into the tracker of an agreed job writes the same status and
\* leaves the results.
LEMMA AgreedTracker ==
  ASSUME PollerInv, [Next]_vars, NEW j \in Job, Agreed(j), j \in tracked'
  PROVE  /\ tracker'[j].status = remote[j]
         /\ tracker[j].results => tracker'[j].results
<1>0. /\ j \in tracked /\ tracker[j] \in Tracker /\ tracker[j].status = remote[j]
      /\ remote[j] \in Finished /\ tracker \in [Job -> Tracker]
  BY DEF Agreed, PollerInv, PollerTypeOK
<1>1. ASSUME StatusError \/ WriteStatus \/ WriteCounts \/ FetchResults
      PROVE  /\ tracker'[j].status = remote[j]
             /\ tracker[j].results => tracker'[j].results
  <2>1. cur \in Job /\ tracker[cur] \in Tracker /\ resp \in Status
    BY <1>1 DEF StatusError, WriteStatus, WriteCounts, FetchResults, PollerInv, PollerTypeOK
  <2>2. ASSUME NEW t \in Tracker, tracker' = Through(cur, t),
               t.status = tracker[cur].status \/ (WriteStatus /\ t.status = resp),
               tracker[cur].results => t.results
        PROVE  /\ tracker'[j].status = remote[j]
               /\ tracker[j].results => tracker'[j].results
    <3>0. \A i \in tracked : Through(cur, t)[i] = IF i = cur THEN t ELSE tracker[i]
      BY <2>1, ThroughTracker, Zenon
    <3>1. tracker'[j] = IF j = cur THEN t ELSE tracker[j]
      BY <1>0, <2>2, <3>0, Zenon
    <3>2. WriteStatus /\ cur = j => resp = remote[j]
      BY DEF WriteStatus, Agreed
    <3> QED BY <1>0, <2>2, <3>1, <3>2
  <2>3. CASE StatusError
    <3> DEFINE t == [tracker[cur] EXCEPT !.error = TRUE]
    <3>1. t \in Tracker /\ t.status = tracker[cur].status /\ t.results = tracker[cur].results
      BY <2>1, TrackerUpdate DEF Tracker
    <3>2. tracker' = Through(cur, t)
      BY <2>3 DEF StatusError
    <3> HIDE DEF t
    <3> QED BY <2>2, <3>1, <3>2
  <2>4. CASE WriteStatus
    <3>1. [tracker[cur] EXCEPT !.status = resp] \in Tracker
      BY <2>1, TrackerUpdate
    <3> QED BY <2>1, <2>2, <2>4, <3>1 DEF WriteStatus, Tracker
  <2>5. CASE WriteCounts
    <3> DEFINE t == [tracker[cur] EXCEPT !.counts = resp]
    <3>1. t \in Tracker /\ t.status = tracker[cur].status /\ t.results = tracker[cur].results
      BY <2>1, TrackerUpdate DEF Tracker
    <3>2. tracker' = Through(cur, t)
      BY <2>5 DEF WriteCounts
    <3> HIDE DEF t
    <3> QED BY <2>2, <3>1, <3>2
  <2>6. CASE FetchResults
    <3>1. /\ [tracker[cur] EXCEPT !.results = TRUE] \in Tracker
          /\ [tracker[cur] EXCEPT !.error = TRUE] \in Tracker
      BY <2>1, TrackerUpdate
    <3> QED BY <2>1, <2>2, <2>6, <3>1 DEF FetchResults, Tracker
  <2> QED BY <1>1, <2>3, <2>4, <2>5, <2>6
<1>2. ASSUME NEW c \in Canceller, CancelWrite(c)
      PROVE  /\ tracker'[j].status = remote[j]
             /\ tracker[j].results => tracker'[j].results
  <2> DEFINE k == cancel[c].job
             t == [tracker[k] EXCEPT !.status = cancel[c].status]
  <2>1. k \in Job /\ tracker[k] \in Tracker /\ cancel[c].status \in Status
    BY <1>2 DEF CancelWrite, PollerInv, PollerTypeOK, KnownExist, Handler
  <2>2. t \in Tracker /\ t.status = cancel[c].status /\ t.results = tracker[k].results
    BY <2>1, TrackerUpdate DEF Tracker
  <2>3. tracker' = Through(k, t)
    BY <1>2 DEF CancelWrite
  <2>4. k = j => cancel[c].status = remote[j]
    BY <1>2 DEF CancelWrite, Agreed
  <2> HIDE DEF k, t
  <2>5. \A i \in tracked : Through(k, t)[i] = IF i = k THEN t ELSE tracker[i]
    BY <2>1, <2>2, ThroughTracker, Zenon
  <2>6. tracker'[j] = IF j = k THEN t ELSE tracker[j]
    BY <1>0, <2>3, <2>5, Zenon
  <2> QED BY <1>0, <2>2, <2>4, <2>6
<1>3. ASSUME NEW k \in Job, ForgetJob(k)
      PROVE  tracker'[j] = tracker[j]
  BY <1>0, <1>3 DEF ForgetJob
<1>4. ASSUME ~(StatusError \/ WriteStatus \/ WriteCounts \/ FetchResults),
             \A c \in Canceller : ~CancelWrite(c), \A k \in Job : ~ForgetJob(k)
      PROVE  tracker' = tracker
  BY <1>4 DEF Next, Loop, vars, remoteVars, tableVars, loopVars, RemoteCreate, RemoteAdvance,
              TrackJob, Tick, RoundDone, TakeTracker, StatusOK, Tally, CancelLookup,
              CancelRemote, ReadStatus, ReadResults, ReadDone
<1> QED BY <1>0, <1>1, <1>2, <1>3, <1>4

\* The loop's answer: one about to be written is the API's as it is now.
LEMMA AgreedLoop ==
  ASSUME PollerInv, [Next]_vars, NEW j \in Job, Agreed(j)
  PROVE  pc' = "write" /\ cur' = j => resp' = remote[j]
<1>1. CASE StatusOK
  BY <1>1 DEF StatusOK
<1>2. CASE ~StatusOK /\ ~UNCHANGED loopVars
  <2>1. pc' # "write"
    BY <1>2 DEF Next, Loop, vars, remoteVars, tableVars, loopVars, RemoteCreate, RemoteAdvance,
                TrackJob, ForgetJob, Tick, RoundDone, TakeTracker, StatusError, WriteStatus,
                WriteCounts, FetchResults, Tally, CancelLookup, CancelRemote, CancelWrite,
                ReadStatus, ReadResults, ReadDone
  <2> QED BY <2>1
<1>3. CASE UNCHANGED loopVars
  BY <1>3 DEF loopVars, Agreed
<1> QED BY <1>1, <1>2, <1>3

\* The handlers' answers: a new one is the API's as well.
LEMMA AgreedCancels ==
  ASSUME PollerInv, [Next]_vars, NEW j \in Job, Agreed(j), NEW c \in Canceller,
         cancel'[c].step = "write", cancel'[c].job = j
  PROVE  cancel'[c].status = remote[j]
<1>0. cancel \in [Canceller -> Handler] /\ cancel[c] \in Handler /\ remote[j] \in Finished
  BY DEF PollerInv, PollerTypeOK, Agreed
<1>1. CASE cancel'[c] = cancel[c]
  BY <1>1 DEF Agreed
<1>2. CASE cancel'[c] # cancel[c]
  <2>1. CancelRemote(c)
    <3>1. ASSUME NEW d \in Canceller, NEW k \in Job, CancelLookup(d, k) PROVE FALSE
      BY <1>0, <1>2, <3>1 DEF CancelLookup, Idle
    <3>2. ASSUME NEW d \in Canceller, CancelWrite(d) PROVE FALSE
      BY <1>0, <1>2, <3>2 DEF CancelWrite, Idle
    <3>3. ASSUME NEW d \in Canceller, d # c, CancelRemote(d) PROVE FALSE
      BY <1>0, <1>2, <3>3 DEF CancelRemote
    <3>4. cancel' # cancel
      BY <1>2
    <3> QED
      BY <3>1, <3>2, <3>3, <3>4
      DEF Next, Loop, vars, remoteVars, tableVars, loopVars, RemoteCreate, RemoteAdvance,
          TrackJob, ForgetJob, Tick, RoundDone, TakeTracker, StatusOK, StatusError, WriteStatus,
          WriteCounts, FetchResults, Tally, ReadStatus, ReadResults, ReadDone
  <2>2. PICK a \in Status :
          /\ CancelEffect(cancel[c].job, a)
          /\ cancel' = [cancel EXCEPT ![c] = [@ EXCEPT !.step = "write", !.status = a]]
    <3>1. cancel' # [cancel EXCEPT ![c] = Idle]
      BY <1>0 DEF Idle
    <3> QED BY <2>1, <3>1 DEF CancelRemote
  <2>3. cancel'[c].job = cancel[c].job /\ cancel'[c].status = a
    BY <1>0, <2>2 DEF Handler
  <2> QED BY <1>0, <2>2, <2>3 DEF CancelEffect
<1> QED BY <1>1, <1>2

\* For any jobs and cancellations: a finish that the table and the answers in
\* flight agree on stays until the job is forgotten, and its results with it.
THEOREM AgreementStays == Spec => AgreedStays
<1> DEFINE Stays(j) == Agreed(j) /\ j \in tracked' =>
                         Agreed(j)' /\ (tracker[j].results => tracker'[j].results)
<1>1. PollerInv /\ [Next]_vars => [\A j \in Job : Stays(j)]_vars
  <2> SUFFICES ASSUME PollerInv, [Next]_vars, NEW j \in Job, Agreed(j), j \in tracked'
               PROVE  Agreed(j)' /\ (tracker[j].results => tracker'[j].results)
    OBVIOUS
  <2>1. remote'[j] = remote[j] /\ remote[j] \in Finished
    BY FinishKept DEF Agreed
  <2> QED BY <2>1, AgreedTracker, AgreedLoop, AgreedCancels DEF Agreed
<1> QED BY <1>1, PollerInitInv, PollerNextInv, PTL DEF Spec, AgreedStays
=============================================================================
