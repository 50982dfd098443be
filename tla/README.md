# Verification of claude-escalate

claude-escalate (the binary `llm-sentinel`) sits beside an LLM coding session.
A hook process sees each prompt and moves the session between three models; an
HTTP service keeps the history, answers from caches, sends requests that can
wait to the vendor's Batch API, invokes tools, limits rates and budgets, and
publishes metrics. This directory holds TLA+ models of its stateful parts and of
its decision tables, the TLC configurations that check them on small instances,
and theorems about them that TLAPS has checked.

The paths below are relative to `src/internal/` unless they start otherwise.

## 1. Inventory

| Component | State | Operations | What is hard | What makes it correct |
|---|---|---|---|---|
| Batch queue, `batch/queue.go` | slice of requests, limits, time of the last flush, totals; one mutex | Enqueue, Dequeue, Flush (sorts, copies, empties), Clear, setters, IsReady | slice aliasing; in-place sort against FIFO order; limit lowered below the length; nobody calls IsReady | no request lost, doubled or handed out twice; oldest first |
| Batch poller, `batch/poller.go` | map of job trackers, `isRunning`, `stopChan`, wait group, totals | Start, Stop, the polling loop, TrackJob, CancelJob, ForgetJob, reads | writes through a pointer without the lock; remote answers applied late; restart; forgetting during a poll | recorded finishes are true and settle; results arrive; Stop ends what Start began |
| Batch submission, `service/batch_handlers.go`, `client/anthropic.go` | the queue, the poller's table, one handler per HTTP request | HandleSubmitBatch, HandleBatchResults, HandleCancelBatch; SubmitBatch, doWithRetry, GetBatchResults, CancelBatch | failure after the flush; answers lost after the batch was created; a drained body sent again; handlers racing | answer 201 means tracked; duplicates bounded by faults; always answered |
| Batch client queue, `client/batch.go` | a second queue, a poller without a table | Enqueue, Flush, Poll | (no callers outside tests) | agrees with the poller on what "complete" means |
| Batch router and detector, `batch/router.go`, `batch/detector.go` | strategy, limits, the router's own queue, recent requests | MakeRoutingDecision, FlushQueue, setters, IsNonInteractive | a strategy that bypasses the limit; history trimmed in place | the volume is exact; only forced requests pass the limit; each request goes one way |
| Prompt cache, `batch/cache_aware.go` | prompts and responses with their times | CachePrompt, CacheResponse, FindSimilar, evict, clear | a similarity search that ignores age; eviction over two maps | no expired suggestion; size bound |
| Optimizer, `optimization/optimizer.go`, `metrics.go` | counters over the router and the prompt cache | Optimize, StoreResponse, setters | a request counted under two headings or none | the counters account for every request |
| Pipeline and caches, `optimization/pipeline.go`, `cache/` | exact map, semantic entries, answers of the graph | process, store, Get, Set, Prune, Clear | eviction on overwrite; an empty response; two caches out of step | the caches agree; size bound |
| Indexer and graph, `indexing/`, `graph/` | what was indexed, jobs under way; nodes and edges in SQLite | IndexFile, WatchFile, CreateNode, CreateEdge, Clear | statements that fail one by one; a process that dies in the middle; the file changing between two looks | what is tracked was stored; a checked edge has both ends |
| Escalation hook, `src/cmd/llm-sentinel/main.go`, `hook/`, `detect/`, `config/config.go` | the model in `settings.json`; turns, events and `escalation_active` in the database | runHook, handleEscalate, handleDeEscalate | one process per prompt, several sessions; killed between two writes; Claude Code writes the same file | one tier down per success; model and session record agree; what was escalated comes down again |
| Escalation service, `service/service.go` | the same file and database, held by one process | hook, escalate, de-escalate, effort, validation handlers | two handlers writing one file through one temporary name; a crash in the middle | the file stays whole; a handler installs its own change; every request is answered |
| Store, `store/store.go` | escalations, turns, validations in bbolt | Log, Recent, Stats, UpdateValidation | key formats, lock timeout across processes | what is logged is found again |
| Budgets and costs, `budgets/`, `costs/` | daily, monthly and per-model use | CheckBudget, RecordUsage, price formulas | zero limits; formulas of several places that must agree | nothing admitted over a hard limit; prices agree |
| Tools, `tools/` | registry, health state, audit log, invoker's cache, error counts | Add, Update, Remove, checks, Invoke, Select, InvokeWithErrorHandling | health results for removed tools; a save in the middle of another; retries | health belongs to the tool registered; what is saved is what is registered; calls are bounded |
| Rate limiter, `security/rate_limiter.go` | token buckets per client | Allow, GetRemaining, Reset, cleanup | a bucket dropped between look-up and use; rounding | admits what an ideal bucket admits |
| Configuration, `config/loader.go`, `reloader.go` | the file, the last modification seen, callbacks | Load, Save, watch, reload, Stop | a file that moves between Stat and Load; a partial file | a change is applied; a whole copy exists |
| Metrics, `metrics/` | counters, live records handed to publishers, token books | Record, Publish, Start, Stop | records read while they change; two publishing loops | a target never sees a counter go back; the books add up |
| Model manager, `models/` | loaded models, inference results, files on disk | Infer, Load, Unload, Download, ClearCache | check and load in two locks; a shared temporary file | a cached file is whole; results follow their model |
| Analytics, `analytics/` | four tables, metrics and hourly buckets, statistics | SaveRecord, AggregateHourly, retention, percentiles, forecast | query and upsert in two statements; late metrics; index arithmetic | a record is in all its tables or none; buckets are exact |
| Intent, sentiment, signals, decisions | a user's feedback | tables over text patterns | order of the rules; thresholds | the decision agrees with every table it goes through |
| Status lines, `statusline/` | registry of sources, reports | Register, Poll | the answer against the timeout; files that age | the answer is the best available source's, in range |
| Learner, gateway, discovery, plugins, dashboard, OpenTelemetry, CLI, input validation | - | - | - | see section 7 |

How they interact: `HandleSubmitBatch` calls the queue (Flush), the client
(SubmitBatch, over HTTP) and the poller (TrackJob) one after the other, under
none of their locks. The poller's goroutine calls the client for each job in
turn and writes into the tracker; the cancel, status and results handlers use
the same table from the HTTP server's goroutines. The optimizer owns a router
and a prompt cache and calls them under its own mutex. The pipeline goes through
the exact cache, the semantic cache and the code graph, which the indexer's
workers write. The hook and the service both write the settings file; whichever
has opened the database first keeps the other from it, since bbolt locks the
file until the process closes it. The tool manager saves the registry into
`config.yaml`, which the user edits and the reloader watches. The publisher
exports records that the collector keeps changing.

## 2. Modules

| Module | Models | Composes |
|---|---|---|
| `RequestLedger` | abstract: what a holder of requests promises: accepted or refused once, out once, never back | - |
| `BatchQueue` | `batch/queue.go`: one action per method, since each holds the mutex for its whole body | refines `RequestLedger` |
| `PrioritySort` | the double loop of `sortByPriority` (and of `Router.FlushQueue`), one step per turn of the inner loop | gives `BatchQueue!ByPriority` its meaning |
| `BatchPoller` | the table of jobs, the loop's round over it, cancel, forget and results handlers, the remote API | - |
| `PollerLifecycle` | `Start`, `Stop`, `pollingLoop`: flag, channel, wait group, goroutines | its `round` is `BatchPoller!Loop` |
| `BatchSubmission` | `HandleSubmitBatch`, `SubmitBatch`, `doWithRetry`, `TrackJob` | extends `BatchQueue` |
| `HookSession` | `runHook`, `handleEscalate`, `handleDeEscalate` with the store and settings functions they call | - |
| `BatchRouter` | `batch/router.go`, `batch/detector.go` | refines `RequestLedger` |
| `PromptCache` | `batch/cache_aware.go` | - |
| `Optimizer` | `optimization/optimizer.go`, `metrics.go` | extends `BatchRouter`, `PromptCache` |
| `ResponseCache` | `cache/` under `optimization/pipeline.go` | - |
| `CodeGraph` | `indexing/` over `graph/` | - |
| `CachesAndGraph` | the graph layer between the two | extends `CodeGraph`, `ResponseCache` |
| `SettingsFile` | ReadClaudeSettings and WriteClaudeSettings, system call by system call | - |
| `EscalationService` | the handlers of `service/service.go` that change the settings or the store's escalations | extends `SettingsFile` |
| `ConfigFile` | `config.yaml`: `Load` with its defaults, `SaveToConfig`, the backups | - |
| `ToolRegistry` | `tools/lifecycle.go`, `tools/manager.go` | extends `ConfigFile` |
| `ConfigReload` | `config/reloader.go` | extends `ToolRegistry` |
| `CostModel`, `RoutingRules`, `Statistics` | formulas and decision tables: `costs/`, `budgets/`; `signals/`, `decisions/`, `sentiment/`, `intent/`; the numerical part of `analytics/` | - |
| `RateLimiter`, `ModelStore`, `Telemetry`, `ToolCalls`, `Analytics`, `StatusLine` | small machines that share nothing with another: `security/rate_limiter.go`, `models/`, `metrics/`, tool invocation in `tools/`, the tables of `analytics/`, `statusline/` | - |
| `Sums` | the sum of a function over a set and the running totals of a sequence, the function being a value | - |
| `MCParts` | runs the nine of the two rows before the last and `PrioritySort`, one part per behaviour | - |
| `MCBatchSubmission` | runs the queue by itself in some behaviours and under its handlers in the others | extends `BatchSubmission` |
| other `MC*` | small instances | |
| `*Proofs` | the theorems; `PartsProofs` has those of all the parts and of `PrioritySort` and `PollerLifecycle` | extend the modules they are about |

**`BatchQueue`**: `requests`, `maxQueueSize`, `minBatchSize`, `totalProcessed`
are the fields of that name; `idle` is the one thing IsReady asks of the clock;
`fate` and `arrival` are history. `Flush(batch)` does everything Flush does in
one action: sort, copy, empty, restart the clock, count. The result of the sort
is any descending arrangement of the same requests, because the swaps are not
stable; `PrioritySort` shows that the loops end in one.

**`BatchPoller`**: bp.mu is held for less than a method here, so an action is a
section of the lock, a remote call, or an unlocked write. `pollJob` is
`TakeTracker`, `StatusOK` or `StatusError`, `WriteStatus`, `WriteCounts`,
`FetchResults`, `Tally`; the value written in `WriteStatus` is the one seen in
`StatusOK`. `Through` is a write through a pointer that may no longer be in the
table. `CancelJob` is `CancelLookup`, `CancelRemote`, `CancelWrite`. The request
counts are represented by the poll they come from. The remote API is external:
statuses move forward, end once, and a cancellation may take hold late, or not
at all, or with its answer lost.

**`PollerLifecycle`**: the callers are goroutines; each step of Start and Stop
after the lock is released is an action of its own. A panic stops the process:
every action requires `~panicked`.

**`BatchSubmission`**: the handler's program counter is `handler[s].step`. An
attempt of doWithRetry is one of seven outcomes; five come from the API or the
network. `spent` is whether the request's body has been read; a spent body on a
new connection fails in net/http before anything is sent (`BodySpent`), on a
pooled connection it is sent again, so a spent attempt may also take any other
outcome.

**`HookSession`**: `hook[h]` is the hook process of a session: `step` is where
in runHook it is, `read` the `currentModel` it took from settings.json.
`Open` to `Close` is the time the process holds the database; each database
update, each access to settings.json and the decision between them is an action,
so that a kill (`Kill`), a failed write (`LowerError`, `RaiseError`) or a write
by Claude Code (`OutsideWrite`) falls between any two. A prompt is what
`detect.go` finds in it; `turns` keeps as many turns as any check that changes
state looks at. Whether the last turns share concepts only decides about a hint
given on Haiku, where no later rule applies: it is left open. `stale`, `last`,
`origin` and `lost` are history.

**`BatchRouter`, `PromptCache`, `Optimizer`**: every method holds its mutex from
end to end, so a method is an action. `recent` is the detector's list, trimmed
as the code trims it; `arrivals` is the full record and exists only for
`VolumeExact`. Batch prices are half the direct ones, so the savings test
depends on the configured percentage and on whether the cost is zero, where the
division gives NaN. In the cache, a hash stands for its content and how alike
two contents are is a constant. `owner` says, once per behaviour, whether the
router and the cache are used through the optimizer or by themselves, as
`cmd/load-test` uses them.

**`ResponseCache`**: `ProcessExact`, `ProcessSemantic`, `ProcessGraph` and
`ProcessOptimizer` are the four ways a request is answered, each with the misses
before it in its guard. Vectors are represented by `Close`: below the threshold,
near, or nearer. `LayerStore` includes the eviction that looks at the size
before it looks for the key. The exact cache has no mutex; the layer serves one
request at a time, as everything that uses it does.

**`CodeGraph`**: a worker's `job` goes through parsing, one `CreateNode` per
entity, one `CreateEdge` per call, and the entry in the indexer's map; each
statement may fail. Parsing is the set of functions and calls of a text, with
the differences of the three languages. `Restart` loses the indexer's maps and
keeps the tables.

**`SettingsFile`, `EscalationService`**: a file is an inode with a size and a
document; `tmp` is the one temporary name. `ReadDocument`, `OpenTmp`,
`WriteTmp`, `Rename` are the system calls of one update, so that two updates and
a replacement by Claude Code fall between any two, and a write into an inode
opened twice may leave the tail of a longer document. A handler is a list of
rules that are tried in the code's order (`HookRules`); `RunRule` reads, logs
and, if the rule writes, starts an update. `Crash` ends all handlers; inodes and
names stay.

**`ConfigFile`, `ToolRegistry`, `ConfigReload`**: `SaveToConfig` is the load of
what the file says, the rename to the backup, the creation and the write, which
a crash or an error may cut short (`Torn`). `Load` gives the defaults for what
is missing, and the whole default configuration when the file cannot be read.
The monitor collects pointers under the lock (`StartChecks`), checks without it
(`CheckOne`) and writes the result (`WriteCheck`), meanwhile the tool may be
updated or removed: a handle is the identity of the object, so the write may go
to one that is registered no more. `UpdateTool` changes the tool before it
validates it, as the code does, so a refused update stays in memory. The
reloader's `Tick` is its `os.Stat`, `Reload` the load and the callbacks. `owed`
is history: the user's part the file should have, which is what the user wrote
last. It becomes "none" when the code gives it up: a removal moves the file away
before it is loaded, the user has made the file invalid, or edits it after a save
has loaded it and before that save moves it away. What runs beside the savers is
`part`, chosen once from the constant `Beside`: the monitor and crashes, the
user and crashes, or the user and the reloader.

**The parts.** `CostModel` counts money in a unit in which every price is an
integer; a use may be recorded without a model, as RecordUsage allows.
`RoutingRules` takes a text as the set of pattern groups it matches, and
one state is one decision; in the engine each priority is an operator and `Else`
is their order. `Statistics` keeps values between two data as
fractions. In `RateLimiter`, a look-up and the use of the bucket are two steps
and a token is `TokenCost` units of refill, so that fractions of tokens occur;
`credit` is the ideal bucket, charged for every request admitted, and `stray`
says that a bucket no longer in the map has admitted one. `ModelStore` has each loader's download as request,
creation of the temporary file, copies and rename, with a file as an inode
written at each writer's own position. `Telemetry` reads one counter after another
from live records while events are counted. `ToolCalls` selects, invokes,
truncates; ProcessResults takes the results of any invocations one by one, and
keeps the text of failures, which the code neither counts nor cuts, apart from
what it counts; goroutines under the shared error handler retry by its
policies. `Analytics` has the four inserts of a record, the query and the
upsert of an aggregation as steps. `StatusLine` looks at the sources one after the
other (`Choose`, `Consider`, `Settle`), and then has the poll's goroutine look
again, open and read (`Check`, `Read`) against its timeout; files age, vanish and
are rewritten between any two of these. `steady` and `young` are history: the
sources that were available all the while, and what the source told while it was.

## 3. What the runs check

| Run | Question | Bounds | Result |
|---|---|---|---|
| `parts` | eleven properties, listed below | per part | holds |
| `poller` | `FinishedIsTrue`, `AgreedStays`, `SettlesForGood`, `ResultsArrive` | 1 job, 2 cancellers, 1 reader | holds |
| `lifecycle` | `LoopsAreHeld` (`EveryLoopStoppable`, `WaitsForLoops`), `StopWaitsForLoops`, `StopReturns` | 3 callers, 3 loops: every step of one Stop can meet every step of another Stop and of a Start | holds |
| `submission` | `QueuedOnce`, `FifoOrder`, refinement `LedgerSpec`; `AnswerIsTracked`, `DuplicatesAreFaults`, `AttemptsRunOut`, `SubmissionAnswered` | 4 requests, 3 priorities with a tie. By itself, sizes 0, 1, 3: the queue fills, overflows, and is lowered below its length. Or 2 submissions of the queue and 1 with a body of two requests, 1 retry | holds |
| `hook` | `SessionKept`, `ModelMovesRight` (`DowngradeIsOneTier`, `RaisedOnRequest`), `SuccessBringsDown` | 2 sessions, 6 kinds of prompt, Claude Code writing 2 models | holds |
| `optimizer` | `RouterIsSound` (`VolumeExact`, `AutoWithinLimit`), `OptimizerIsSound`, refinement `RouterLedgerSpec` | 3 requests, a queue of 1, a window of 2 ticks, 3 prompts in a cache of 2 with TTL 1 | holds |
| `caches` | `CachesAreSound` (`CachesAgree`, `SemanticBound`), `GraphIsSound` | 3 queries in a cache of 2 with TTL 1; 2 workers, one Go file in two versions | holds |
| `service` | `WholeUnlessOverlapped`, `HandlerSteps` (`InstallsOwnStep`, `WorkShrinksStep`), `Answered` | 2 handlers, 2 requests, 1 replacement by Claude Code, crashes | holds |
| `config` | `RegistryAgrees` (`HealthAgrees`, `AuditAgrees`), `ConfigSafe` (`SavedWhenQuiet`, `WholeCopyExists`) | 1 tool, 2 savers (interchangeable: symmetry), 2 handles, the monitor or the user, 1 crash, modification times to 6: two saves and an edit | holds |
| `config_reload` | `NoChangeMissed`, `ChangeArrives` | 1 tool, 2 savers, 1 handle, the user and the reloader, modification times to 4 | holds |
| `best_model` | `BestIsCheapest`: the comment at `analytics/task_accuracy.go:116` | the part `statistics` | violated |
| `status_fallback` | `FallsBack`: the comment at `statusline/statusline.go:43` | the part `status` | violated |

A name before a parenthesis is the conjunction of the properties in it; the
theorems are about each of them and about the conjunction.

The properties of `parts`, and what makes each of them worth asking:

* `Descending`: the in-place sort of every queue of up to 4 requests with ties
  ends in descending order.
* `MoneyAgrees`: what the day spent is what the models spent and what was recorded
  without a model; while only admitted requests are recorded no hard limit is
  passed; the totals, savings and comparisons of four formulas agree.
* `DecisionsRight` (`RoutesRight`, `RulesInOrder`, `CachedIsCheap`): the decision
  engine, the frustration handler and the intent classifier send the user where
  each of their tables says; the engine's rules are asked in their order, so what
  the user says is not overruled by an estimate; what the cache may answer is cheap
  and short and was not marked by the user.
* `StatisticsAgree`: percentiles are monotonic and leave their share of the data
  on each side, and straight data is forecast along its line.
* `AdmitsAsIdeal`: while every request has used the bucket it finds in the map,
  refills computed at look-up time, refusals and the clean-up of idle buckets admit
  exactly what one ideal bucket admits. A client whose bucket is removed between
  its look-up and its use may be admitted without the new bucket being charged;
  the code is then ahead of the ideal, never behind it, by at most two tokens for
  each client. (`IdleLimit` 8 is twice the time in which a bucket of capacity 2 and
  cost 2 fills, enough for the two clients who may hold a bucket.)
* `StoreIsSound`: a model under its final name is whole unless a copy broke off
  in a file that two loaders shared; results outlive their model only through
  an inference under way.
* `PublishedGrows`, `BooksAddUp`: no target sees a counter go back; days add up
  to totals over midnights.
* `CallsBounded`: two tools at most are called; what is counted of their results
  passes the budget by one output at most, and then nothing more is looked at; the
  text of outputs is what is counted, all the rest comes from failures; four
  attempts. (Four results of up to 3 tokens, cut at 2 each, against a budget of 3:
  the third output never comes after two full ones.)
* `AnalyticsIsSound` (`RecordsAreWhole`, `BucketsAreExact`): a record is in all its tables or in none;
  an hour's bucket is exact unless a metric came late.
* `AnswersAreSound`: an answer comes from a source no worse than any that was
  available all the while Poll was choosing, shows a report of that source told
  while it was available since it was asked, and is in range.

Six liveness properties have a safety half beside them, an action property or an
invariant that says why the end cannot recede. It does not assume fairness, so it
also holds of a behaviour that stops:

* `AgreedStays` (for `SettlesForGood`, `ResultsArrive`): once the table and every
  answer in flight agree with the API that a job is finished, no late poll, failed
  download or cancellation takes that or the results back.
* `WaitsForLoops` (`StopReturns`): who waits in Stop has closed the channel and
  waits for the living loops, each of which finds it closed.
* `AttemptsRunOut` (`SubmissionAnswered`): whatever the network does, each step of
  a handler and each batch created for it uses up one of the steps it has left.
* `RaisedOnRequest` (`SuccessBringsDown`): what brings the model down is not undone
  by another rule; only the user and Claude Code raise it, or a hook that steps down
  from a model which Claude Code has replaced since it was read.
* `WorkShrinksStep` (`Answered`): a handler's rules and updates only get fewer,
  whatever happens to the file between two system calls.
* `NoChangeMissed` (`ChangeArrives`): the callbacks have what the file says, or its
  time gives the next tick reason to load it; only Start breaks this.

Why the bounds are enough. One job is enough for the poller because the loop
treats jobs one after the other and nothing but the loop relates one job to
another; the theorems are for any number. Two cancellers let an answer of each
meet the loop's. Two hook sessions make one process wait while the other holds
the database; a third could do at any moment what the second could. Two
submissions are the race for the queue; the third shows that a body never
touches it. Two handlers are the overlap of two updates, and `overlapped`, once
set, stays; the theorems of `EscalationServiceProofs` are for any number. In the
router, a queue of 1 is passed by the second forced request, and a window of 2
ticks lets requests leave it one by one. A cache of 2 with three keys is full,
overwritten when full, and evicts. One tool on two handles is a tool removed and
added again while a check of the first is under way. Modification times to 6 are
two saves with an edit before, within, between or after them; a save that takes
the user's part from anywhere but the file is seen by the first edit. `CountCap`, `MaxAudit`,
`MaxErrors` are limits of the code or let a total saturate that no guard reads;
`Max...` of clocks, edits, crashes and requests bound how often the outside
moves, and are in the guards of those actions only. Deadlock is not checked
where the system may stop: every request used up, every submission answered, the
clock at its bound, or the process panicked.

## 4. Fairness

* `BatchPoller!FairSpec`: the loop is a goroutine on a ticker whose calls have
  the HTTP client's timeout, so it keeps going (weak fairness). A remote call
  tried in every round succeeds in some round (strong fairness on the success
  of `StatusOK` and `FetchResults` for each job): the code retries for ever, and
  without this nothing can be promised about a network. A cancel handler past
  its remote call writes its answer (weak fairness). The API itself, and every
  client, may stop at any time.
* `PollerLifecycle!FairSpec`: goroutines run and rounds end; Go's select chooses
  at random among ready branches, so a closed channel is not passed over for
  ever (strong fairness of `LoopReturns`).
* `HookSession!FairSpec`: a process that was started is scheduled. What users
  type and whether writes fail is not assumed: `SuccessBringsDown` names the
  calm it needs (no escalation, outside write, kill or failure from some point
  on, success reported again and again) in its own premise.
* `SubmitFairSpec`: an attempt ends in one way or another within the client's
  timeout, and the handler goes on. Which way is not assumed.
* `EscalationService!Fairness`: a handler's goroutine goes on (weak fairness per
  handler). Nothing is assumed of its file operations: a failed one ends the
  update, and the handler answers all the same.
* `ConfigReload!Fairness`: the ticker ticks (weak), and a reload that is tried
  for ever is not refused by a callback for ever (strong fairness of the reload
  that takes the time over). That the user stops editing is not assumed: once
  modification times are used up the file stays as it is, which is the "eventually
  always" the property is about.

The runs `parts`, `optimizer`, `caches` and `config` check safety only and assume
no fairness, nor does `submission` of the queue by itself, which nobody has to use.

## 5. What is proved

Every safety property, action property and refinement that a run expects to hold is
also a theorem: for any requests, jobs, submissions, sessions, handlers, workers,
queries, tools, callers, clients and records, every priority function, limit,
price, load and content of files. The assumptions are the named ASSUMEs beside the
constants. They say that such sets are finite, that bounds are natural numbers
(at least 1 where the code divides by them or has such a default), that bodies are
disjoint, since each request object has one owner, that a prompt asked is one that
can be cached (`InfoAssumption`), that a modification time can be told from none
(`MaxStamp` at least 1), that there are as many handles as tools
(handles stand for objects, of which a program always has one more), and that ten
idle minutes refill a bucket of one minute and as many tokens more as there are
callers between their look-up and their use of a bucket: fewer than nine times the
requests of a minute (`LimiterAssumption`). The limit of the semantic cache may be
any integer, since the loader checks none.

TLC has checked the inductive invariants on the instances of the runs as well.
What each adds to its property is the reason why the code is
right:

* `BatchSubmissionProofs`, the queue: `QueueTypeCorrect`, `QueuedExactlyOnce`,
  `FirstComeFirstServed`, `ProcessedCounted`, `QueueImplementsLedger`.
  `QueuedOnce` is not inductive without the arrival numbers: a fresh request
  must not already be in the slice, and the next arrival number must be above
  all earlier ones. The refinement is one lemma per action: a method is a step
  of the ledger or a stutter.
* `BatchSubmissionProofs`, the handlers: `SubmissionTypeCorrect`,
  `SubmittedByOne`, `FlushedIsAnsweredFor`, `CreatedIsTracked`,
  `DuplicatesBounded`, `AttemptsAreCounted`, from the queue's invariant and two facts about each
  handler: what it has flushed is marked flushed in the queue's history, and the
  number of batches the API holds for it is at most its faults, plus one once it
  has been told of one. `AttemptsAreCounted` needs that an attempt
  never exceeds retryMax and that only a handler that sends adds to its batches.
* `BatchPollerProofs`: `PollerTypeCorrect`, `FinishedJobsAreFinished`,
  `StoredResultsAreGenuine`, `RunningJobsAreKept`, `AgreementStays`. `FinishedIsTrue` is not
  inductive: an answer in flight must already be true (`LoopAnswerTrue`,
  `CancelAnswerTrue`: a finish the loop or a handler carries is the API's),
  which holds because the API never leaves a finished status. That alone does not
  keep an entry finished: a running status seen before may still be written, so
  `AgreementStays` starts where no such answer is in flight.
* `OptimizerProofs`: `OptimizerTypeCorrect`, `VolumeIsExact`,
  `AutoStaysWithinLimit`, `OptimizerStaysSound`, `RouterImplementsLedger`. The
  detector's list is the record of all requests without a beginning, every entry of
  which has left the window (`RecentIsSuffix`), so trimming in place loses
  nothing that is counted. The queue holds exactly the requests batched and not
  flushed (`QueueHoldsBatched`), which is also what the refinement maps. One
  lemma (`OptimizeIsDecision`) says that every path through Optimize is one
  decision and one counter, from which the accounts follow (`MetricsAccount`).
* `HookSessionProofs`: `HookTypeCorrect`, `SessionIsKept`, `StepsDownByOne`,
  `OnlyRequestsRaise`, for any number of sessions and any prompts. None is
  inductive: they need that a process past store.Open is the one that holds the database
  (`Serial`), `DowngradeIsOneTier` that what it read is still the model
  (`ReadIsCurrent`), `SessionKept` that a step down from Opus finds the session
  set (`OpusKeepsSession`), which is why the order of those two writes matters.
  `OnlyRequestsRaise` follows from `ReadIsCurrent`: what a hook that is not stale steps
  down from is the model, so it cannot write a higher one.
* `CachesAndGraphProofs`: `GraphStaysSound`, `CachesStayInStep`,
  `SemanticStaysBounded`. For the graph, what a job still has to write and what it
  has written must be accounted for together (`WrittenSoFar`): an entity is in the table,
  on the worker's list, or was deleted by a Clear, and a worker reaches its entry in the indexer's map
  only with an empty list. For the caches, that eviction makes room before a new
  key comes in, so that the cache holds as many entries as its limit, or one when
  the limit is below 1 (`EntryLimit`: there is nothing to evict then), and that the exact cache is written wherever the semantic one is.
* `EscalationServiceProofs`: `SettingsStayWhole`, `RenameInstallsOwn`,
  `WorkIsUsedUp`. Until
  `overlapped`, at most one handler is in an update (`OneUpdate`), the inode it
  writes is not the one under the final name, and the stage it is in says how
  much of its document the inode holds; a crash leaves that inode under the
  temporary name, where the next update truncates it. That a free inode exists
  for Claude Code's replacement is a counting argument over the handlers.
  `WorkIsUsedUp` needs `WorkInv`: who serves no request has no rule to run and no
  update under way, so that the answer is what a handler does last.
* `ConfigReloadProofs`: `RegistryStaysRight` from `RegistryInv`: the health of every
  object, registered or not, agrees with its error count, since a check may still
  write to one that was removed; no two names share an object; and the last entry of
  the log about a tool's coming or going tells whether it is registered
  (`LastTellsTruth`), also after the log has dropped its oldest entry.
  `ConfigStaysSafe` from `ConfigInv`: unless saves overlap (`OneSave`) or a crash
  cuts one off, the save under way carries the registry's tools and what is owed to
  the user (`Pays`), and at each of its stages one of the file, the backup and the
  older copies is whole (`SaveRight`); between saves the file itself is right
  (`FileRight`). An edit keeps this since it either falls where the save has not
  loaded the file, or ends what is owed. `ChangesAreSeen` from the
  times (`TimesSeen`): the reloader never notes a time the file has not had, and
  notes one only with a load that came after its look.
* `PartsProofs`, the sort: `SortKeepsRequests` and `SortDescends` from `SortInv`:
  everything before `i` is ordered and above what follows, slot `i` is the
  highest among those the inner loop has seen.
* `PartsProofs`, the poller's life: `LifecycleTyped`, `LoopsStayStoppable`,
  `StopIsQuiet`, `StopWaitsForLiving`. What makes them inductive is that the wait group counts exactly the
  living loops (`WaitGroupCounts`), each of which was added under the lock before
  its goroutine was started; so Wait returns at zero only when nobody lives, and
  Done never finds the counter at zero, where it would panic.
* `PartsProofs`, money and decisions: `MoneyAlwaysAgrees` needs that the daily use
  is the sum over the models and of what had none (`BudgetInv`); `DecisionsStayRight` has no history,
  every text is one state.
* `PartsProofs`, limiter and models: `LimiterAdmitsAsIdeal` from `CreditIsIdeal`,
  the ideal credit is what the bucket in the map would hold if it were refilled now,
  and `ExcessIsOwed`, how far the code may be ahead: by what clients who hold a bucket
  out of the map have taken and may take, two tokens for each client at most, and
  one once the bucket in the map has been full for that long, as it has when the
  cleanup removes it. `StoreStaysSound` from
  `FilesInv`: two loaders have one file open only if it is known as shared, and
  what a file still lacks is what its only writer has yet to copy.
* `PartsProofs`, metrics and tools: `PublishedCountersGrow` from `MeterInv`: what an
  export has read so far is between what the targets have and the live value, and
  one publisher works at a time. `BooksAlwaysAddUp` from `BooksInv`, sums over days
  and layers. `CallsStayBounded` from `CallsInv`: nothing is left to look at once
  the budget is passed, so what was counted before the last output is within it.
* `PartsProofs`, analytics and status: `RecordsStayWhole` (one saver at most has
  begun to write, and its record is nowhere else), `BucketsStayExact` (a row that
  was read and not yet written agrees as the rows do), `AnswersStaySound` from
  `ChoiceInv` (the best so far is no worse than the sources considered that stayed
  available) and `ReadInv` (what is there to be read once the goroutine has found the
  source available was told while it was, since writing a file makes it young).
  `StatisticsAlwaysAgree`, for samples of any length: percentiles rise with
  their rank and leave their share on each side, since a rank lies at a datum
  or between two (`Lies`); the regression's determinant is positive when two days
  differ, by induction on the data (`SpreadGrows`); and the sums of data on a
  line follow from those of the days (`LineSums`), which makes the forecast exact.

The library's induction theorems take an operator, which the provers cannot
instantiate. Where a proof needs induction it states the property as the set of
the numbers that have it (`NumbersByInduction`, from the least element of a
set of naturals), and a recursive function is shown to exist first (`SumsExist`,
`TotalsAre`). That is why sums are over functions, not over operators, in `Sums`.

Only model-checked: the liveness properties (`SettlesForGood`, `ResultsArrive`,
`StopReturns`, `SubmissionAnswered`, `SuccessBringsDown`, `Answered`,
`ChangeArrives`), since fairness and ENABLED are beyond the prover used. What the
theorems leave to TLC in them is that the steps are taken: that a step does not lead
back is proved (`AgreementStays`, `StopWaitsForLiving`, `AttemptsAreCounted`,
`OnlyRequestsRaise`, `WorkIsUsedUp`, `ChangesAreSeen`).

The conjunctions the runs check are `LoopsStayHeld`, `ModelMovesOnRequest`,
`HandlersGoForward`, `CachesStaySound`, `RouterStaysSound`, `AnalyticsStaysSound`,
each from the theorems about its parts.

## 6. Where the code and what it says of itself part

Two of these are shown by a run that TLC finds violated, and are under
"findings" in `PROJECT.json`:

* `best_model`: `GetBestModelForTask` sorts by name and takes the first, which
  puts Opus before Sonnet (`analytics/task_accuracy.go:126`), where its comment
  says "finds the cheapest model".
* `status_fallback`: `GetBest` starts from the source registered first whether or
  not it is available (`statusline/statusline.go:75`) and finds none when that one
  is stale, where its comment says "with fallback".

The others were met while modelling. The models contain the behaviour unless a
reason is given; a property that would exclude it is not among those checked.

* Batches: requests flushed into a batch the API refuses are lost
  (`service/batch_handlers.go:93`). Nothing calls `IsReady`, so the automatic flush of `CHANGELOG.md:17`
  never happens (`batch/queue.go:86`). `HandleBatchResults` reads status and results
  in two sections of the lock and may answer 200 without results
  (`service/batch_handlers.go:195`). A canceled job can never be forgotten
  (`batch/poller.go:304`). The second Start and Stop of a poller panics, since its
  channel is made once (`batch/poller.go:81`). Retries on a new connection send a
  drained body (`client/anthropic.go:282`). `StrategyAlways` passes the queue's
  limit. Confidence sums to 1.9 where `batch/detector.go:15` says "0.0-1.0".
* Caches: the inner similarity search of `batch/cache_aware.go` ignores age, so an
  expired entry may hide a live one; its callers look at the age again, and what
  they suggest is live (`SuggestionsAreLive`). `evictIfNeeded` evicts
  nothing when only responses are stored, and prompts may pass the limit after
  responses did, since every later prompt evicts the oldest entry, a response
  (`batch/cache_aware.go`): `PromptsWithinSize` is about a cache used through the
  optimizer, which stores no response; the semantic cache's oldest entry is by
  time of storing, not of use, and it is never disabled after false positives
  (`cache/semantic_cache.go:26`, `README.md:114`). The exact cache answers a request
  that asks to bypass the cache (`README.md:279`). The pipeline stores the text of
  its decision as the response. Re-indexing a changed file runs into the primary
  key of the nodes it had (`docs/KNOWLEDGE_GRAPH.md:180`).
* Hook and service: predictions never come, because every escalation is logged
  under a type no question asks about (`src/cmd/llm-sentinel/main.go:249`,
  `docs/claude-integration.md:99`). Two updates of the settings that overlap may lose
  one, or leave a damaged file (`config/config.go:83`). The effort rule overwrites
  what `/escalate to opus` has just set (`docs/SERVICE_MODE.md:180`).
  `handleMakeDecision` looks up a key in another format than the one written, and
  always answers 404; usage is never recorded against the budget. The second rule of
  MakeDecision is headed "Success signal + tokens are within target" and does not look
  at the tokens (`decisions/engine.go`). What Claude Code writes between a read and a
  write of the settings is undone (`src/cmd/llm-sentinel/main.go:286`).
* Configuration and tools: `Load` never fails, it silently gives defaults that its
  own `Validate` would refuse. Removing a tool moves `config.yaml` away before the
  manager loads it again, so the user's other settings become the defaults; so do
  those of a file the user has made invalid, and what the user writes between a
  save's load and its rename is overwritten (`tools/manager.go:101`; `owed` is "none"
  then). An update that is refused leaves its changes in memory, unlogged and unsaved
  (`tools/lifecycle.go:153`). ProcessResults writes the error of a failed tool whole and
  counts none of it (`tools/output_processor.go:129`), counts the output that passes
  the budget, and drops what comes after without a word on which tools it was; its
  limits are 1000 tokens per tool and 3000 in all, where `docs/TOOL_INVOCATION.md:46`
  says about 2000 and 3000, and line 73 2000 in all. A file whose modification time goes back is never
  reloaded. The invoker's cache is keyed by the tool alone and survives the
  tool's removal; `RecoveryDelay` is never used.
* Intent: a poor rating records the preference for fresh answers only when the rated
  one was not safe to cache (`intent/classifier.go:440`), where the comment above it
  says "If user gives negative feedback on cached responses, mark preference for
  freshness", and `intent/feedback.go:13` "True if user marks cached responses
  negatively". A complaint about a cached summary changes nothing, and the next one may
  be answered from the cache again; `CachedIsCheap` speaks of the ratings that are heard.
* Budgets and costs: the warning of CheckBudget ends at 3 (`budgets/budgets.go:132`),
  also for a request that would exceed the budget, where the comment at line 49 has
  "4: exceeded"; `BudgetsHold` demands the 3 the code gives. The comments say cache reads cost 10% and writes 25%, the
  formulas multiply by 0.30 and 1.20; the daily budget is never reset; a zero
  limit of a model refuses everything while a zero daily limit means none.
* Metrics and analytics: `GetJSON` takes a read lock twice, and a second Stop of
  the publisher panics (both properties of sync and of channels, outside the
  model's guards); `ProjectMonthly` is the less sure the more days it has;
  `RecordTokens` leaves the percentage stale. The sentiment column is written
  under one name and read under another; `calculateStdDev` returns the square of
  the variance; the latency percentiles are returned as those of the token error.
* Models and status lines: concurrent loaders share one temporary name, and
  `VerifyModelIntegrity` is never called; a webhook's cache hits and everything
  from the environment go unchecked; a source whose poll fails is not followed by
  the next.

## 7. Not modelled, and why

Within the modelled parts: the wording of errors and hints; read-only
statistics; setters of values that nothing reads afterwards (the poller's
interval after its start, `maxRetries`, `retryBackoff`); the effort the hook
writes with the model; failing updates of an open database, whose errors the
hook ignores; the handlers of the service that only read; regular expressions,
which are the set of groups they match; vectors, which are how alike two texts
are; floating point, where every value is a ratio of integers.

Outside: the dashboard, the commands, OpenTelemetry and observability are
presentation of the counters of other components (HTML, JSON, wire formats);
gateway adapters and discovery are calls out to processes and programs in the
path; input validation and the audit log are a table of regular expressions and
a writer; plugins are a map under one lock; the learner and the deduplicator are
counters under one lock that nothing outside their tests makes; the escalation
settings are two files of defaults. They keep no state whose interleavings
matter to another component.

Of the hazards listed in `PROJECT.json`, eight have no property. In five the code does
what one would not want, the models contain it, and section 6 says so: no automatic
flush, the two-section answer of `HandleBatchResults`, requests lost when their
batch is refused after the flush (`service/batch_handlers.go:93`), a write of Claude
Code undone, and a model undone by a later rule of the hook.
That Flush and Dequeue share a backing array cannot be said of sequences that are
values; that Enqueue refuses above a lowered maximum is its own guard; and the nested
read lock of `GetJSON` is inside one step of these models. Three more are covered in
part only, as their notes say: a poor rating of a cached answer, which is not heard; overlapping updates of the settings, after which the
file may be damaged, and the cache of tool answers that is keyed by the tool alone.

What would come next: the parts not listed as "modelled" in `PROJECT.json`,
first the read-only handlers of the service and the rest of the hook's hints; and
the other half of the liveness properties, that the step which uses something up is
enabled, for a prover that knows ENABLED.
