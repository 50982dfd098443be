---------------------------- MODULE HookSession ----------------------------
(***************************************************************************)
(* cmd/llm-sentinel/main.go, runHook: the command Claude Code runs on      *)
(* every prompt.  Each prompt is a process of its own.  Processes share    *)
(* the bbolt database, whose file lock a process holds from store.Open to  *)
(* its exit, and ~/.claude/settings.json, which is under no lock: Claude   *)
(* Code writes it too.  A process may be killed at any point (the hook     *)
(* timeout of Claude Code), which releases the file lock.                  *)
(*                                                                         *)
(* Prompts are abstracted to what detect.go finds in them, models to their *)
(* short names.  WriteClaudeSettings writes the effort together with the   *)
(* model, by one rename, and no function here reads it: it is left out.    *)
(* Updates of the open database are taken to succeed.                      *)
(***************************************************************************)
EXTENDS Integers, Sequences, FiniteSets

CONSTANTS
  Hook,      \* sessions of Claude Code: each runs one hook process at a time
  TaskType,  \* the task types of classify.go other than general
  Prompts,   \* the prompts users type
  Outside,   \* the models Claude Code itself puts into settings.json
  Free,      \* the database is open in no process
  Other      \* it is open in the service, the monitor or the stats command

Model == {"haiku", "sonnet", "opus", "other"}
Prompt == [kind : {"escalate"}, target : {"haiku", "sonnet", "opus"}]
          \cup [kind : {"meta"}]
          \cup [kind : {"ask"}, task : TaskType \cup {"general"},
                frustrated : BOOLEAN, success : BOOLEAN]

ASSUME HookAssumption ==
  /\ Free \notin Hook /\ Other \notin Hook /\ Free # Other
  /\ "general" \notin TaskType
  /\ Prompts \subseteq Prompt
  /\ Outside \subseteq Model

PredictThreshold == 5    \* predictThreshold
FrustrationWindow == 5   \* the turns the frustration check looks at
DowngradeWindow == 3     \* and those handleDeEscalate looks at
FewAttempts == 2         \* frustrationRetries, and handleDeEscalate's minimum
CircularTurns == 4       \* circularTurns

VARIABLES
  model,    \* settings.json: the model, by ModelShortName
  holder,   \* the process that has the database open
  turns,    \* bucketTurns: the models of its last FrustrationWindow turns
  active,   \* bucketSessions: escalation_active is "true"
  events,   \* bucketEscalations: escalations of each type, up to PredictThreshold
  hook,     \* each session's hook process
  origin,   \* history: who wrote model last
  lost      \* history: a kill or a failed write fell between the two writes of
            \* a handler, and no handler has set escalation_active since

vars == <<model, holder, turns, active, events, hook, origin, lost>>
dbVars == <<turns, active, events>>
historyVars == <<origin, lost>>

\* A hook process: where it is, its prompt, the currentModel it read, whether
\* Claude Code wrote settings.json since (history), its answer, and the type
\* of the last question of its session (history).
Steps == {"idle", "open", "read", "turn", "decide", "session", "lower", "record",
          "raise", "count", "flag", "close"}
Between == {"lower", "count", "flag"}  \* between a handler's two writes
After == Steps \ {"idle", "open", "read"}  \* the settings are read
Answers == {"pass", "predictive", "stuck", "circular", "lowered", "raised"}
Meta == [kind |-> "meta"]
IdleAfter(last) == [step |-> "idle", prompt |-> Meta, read |-> "haiku", stale |-> FALSE,
                    answer |-> "pass", last |-> last]
Process == [step : Steps, prompt : Prompt, read : Model, stale : BOOLEAN,
            answer : Answers, last : TaskType \cup {"general"}]

HookTypeOK ==
  /\ model \in Model
  /\ holder \in Hook \cup {Free, Other}
  /\ turns \in Seq(Model) /\ Len(turns) <= FrustrationWindow
  /\ active \in BOOLEAN
  /\ events \in [TaskType -> 0..PredictThreshold]
  /\ hook \in [Hook -> Process]
  /\ \A h \in Hook :
       hook[h].step \in {"turn", "decide", "session", "lower", "record"} =>
         hook[h].prompt.kind = "ask"
  /\ \A h \in Hook :
       hook[h].step \in {"raise", "count", "flag"} => hook[h].prompt.kind = "escalate"
  /\ origin \in {"outside", "raised", "lowered"}
  /\ lost \in BOOLEAN

Init ==
  /\ model \in Outside
  /\ holder = Free
  /\ turns = <<>> /\ active = FALSE
  /\ events = [t \in TaskType |-> 0]
  /\ hook = [h \in Hook |-> IdleAfter("general")]
  /\ origin = "outside" /\ lost = FALSE

\* ModelTierOf: an unknown model counts as Haiku.
Tier(m) == IF m = "opus" THEN 3 ELSE IF m = "sonnet" THEN 2 ELSE 1

\* The tier handleDeEscalate steps down to.
Below(m) == IF m = "opus" THEN "sonnet" ELSE "haiku"

\* CountRecentAttempts: turns on m among the last n.
RecentAttempts(m, n) ==
  LET recent == {i \in 1..Len(turns) : i > Len(turns) - n /\ turns[i] = m}
  IN  Cardinality(recent)

Go(h, step) == hook' = [hook EXCEPT ![h].step = step]
Finish(h, answer) == hook' = [hook EXCEPT ![h].step = "close", ![h].answer = answer]
-----------------------------------------------------------------------------
(* A hook process, from its start to its exit                              *)

\* ReadInput; which prompt it is matters to nothing before Open.
Start(h) ==
  /\ hook[h].step = "idle"
  /\ Go(h, "open")
  /\ UNCHANGED <<model, holder, dbVars, historyVars>>

Open(h) ==
  /\ hook[h].step = "open"
  /\ holder = Free
  /\ holder' = h
  /\ \E p \in Prompts :
       hook' = [hook EXCEPT ![h].step = "read", ![h].prompt = p,
                            ![h].last = IF p.kind = "ask" THEN p.task ELSE @]
  /\ UNCHANGED <<model, dbVars, historyVars>>

\* Variant: a hook that goes on without the database.
OpenTimeoutProceeding(h) ==
  /\ hook[h].step = "open"
  /\ holder # Free
  /\ \E p \in Prompts :
       hook' = [hook EXCEPT ![h].step = "read", ![h].prompt = p,
                            ![h].last = IF p.kind = "ask" THEN p.task ELSE @]
  /\ UNCHANGED <<model, holder, dbVars, historyVars>>

\* store.Open gives up after a second: the prompt passes through.
OpenTimeout(h) ==
  /\ hook[h].step = "open"
  /\ holder # Free
  /\ hook' = [hook EXCEPT ![h] = IdleAfter(hook[h].last)]
  /\ UNCHANGED <<model, holder, dbVars, historyVars>>

\* ReadClaudeSettings, and the branch on meta-commands.
Read(h) ==
  /\ hook[h].step = "read"
  /\ hook' = [hook EXCEPT
       ![h].read = model, ![h].stale = FALSE,
       ![h].step = IF hook[h].prompt.kind = "escalate" THEN "raise"
                   ELSE IF hook[h].prompt.kind = "ask" THEN "turn" ELSE "close"]
  /\ UNCHANGED <<model, holder, dbVars, historyVars>>

ReadError(h) ==
  /\ hook[h].step = "read"
  /\ Go(h, "close")
  /\ UNCHANGED <<model, holder, dbVars, historyVars>>

LogTurn(h) ==
  /\ hook[h].step = "turn"
  /\ LET all == Append(turns, hook[h].read)
     IN  turns' = IF Len(all) > FrustrationWindow THEN Tail(all) ELSE all
  /\ Go(h, "decide")
  /\ UNCHANGED <<model, holder, active, events, historyVars>>

\* EscalationCountForType reaches the threshold (on Haiku only).
Predicted(h) ==
  LET t == hook[h].prompt.task
  IN  Tier(hook[h].read) = 1 /\ t \in TaskType /\ events[t] >= PredictThreshold

\* The user is frustrated with a model that was tried before.
Stuck(h) ==
  /\ hook[h].prompt.frustrated
  /\ RecentAttempts(hook[h].read, FrustrationWindow) >= FewAttempts
  /\ hook[h].read # "opus"

\* Variant: only an active escalation earns a downgrade.
EarnedByEscalation(h) ==
  hook[h].prompt.success /\ Tier(hook[h].read) > 1 /\ active

\* A success on an expensive model, and handleDeEscalate finds an escalation
\* or enough turns on that model.
Earned(h) ==
  /\ hook[h].prompt.success
  /\ Tier(hook[h].read) > 1
  /\ active \/ RecentAttempts(hook[h].read, DowngradeWindow) >= FewAttempts

\* The hints, the first that applies; which concepts the recent turns share,
\* and so whether a circle is seen among them, is left open.
Hints(h) ==
  {a \in {"predictive", "stuck", "circular"} :
     /\ a = "predictive" <=> Predicted(h)
     /\ a = "stuck" <=> ~Predicted(h) /\ Stuck(h)
     /\ a = "circular" => Tier(hook[h].read) = 1 /\ Len(turns) >= CircularTurns}

Hint(h) ==
  /\ hook[h].step = "decide"
  /\ \E a \in Hints(h) : Finish(h, a)
  /\ UNCHANGED <<model, holder, dbVars, historyVars>>

Settle(h) ==
  /\ hook[h].step = "decide"
  /\ ~Predicted(h) /\ ~Stuck(h)
  /\ IF Earned(h) THEN Go(h, "session") ELSE Finish(h, "pass")
  /\ UNCHANGED <<model, holder, dbVars, historyVars>>

\* Variant: the session ends with the first step down.
UpdateSessionDeleting(h) ==
  /\ hook[h].step = "session"
  /\ active' = FALSE
  /\ lost' = lost
  /\ Go(h, "lower")
  /\ UNCHANGED <<model, holder, turns, events, origin>>

\* handleDeEscalate: the session is kept for the cascade or deleted, ...
UpdateSession(h) ==
  /\ hook[h].step = "session"
  /\ active' = (hook[h].read = "opus")
  /\ lost' = (lost /\ ~active')
  /\ Go(h, "lower")
  /\ UNCHANGED <<model, holder, turns, events, origin>>

\* ... then the settings are written, ...
Lower(h) ==
  /\ hook[h].step = "lower"
  /\ model' = Below(hook[h].read)
  /\ origin' = "lowered"
  /\ Go(h, "record")
  /\ UNCHANGED <<holder, dbVars, lost>>

LowerError(h) ==
  /\ hook[h].step = "lower"
  /\ lost' = (lost \/ ~active)
  /\ Finish(h, "pass")
  /\ UNCHANGED <<model, holder, dbVars, origin>>

\* ... and the event is logged as a success, which no count includes.
Record(h) ==
  /\ hook[h].step = "record"
  /\ Finish(h, "lowered")
  /\ UNCHANGED <<model, holder, dbVars, historyVars>>

\* handleEscalate: the settings are written, ...
Raise(h) ==
  /\ hook[h].step = "raise"
  /\ model' = hook[h].prompt.target
  /\ origin' = "raised"
  /\ Go(h, "count")
  /\ UNCHANGED <<holder, dbVars, lost>>

RaiseError(h) ==
  /\ hook[h].step = "raise"
  /\ Finish(h, "pass")
  /\ UNCHANGED <<model, holder, dbVars, historyVars>>

\* ... the event is logged as an escalation of type t, ...
LogEscalation(t) ==
  events' = IF t \in TaskType /\ events[t] < PredictThreshold
            THEN [events EXCEPT ![t] = @ + 1] ELSE events

Count(h) ==
  /\ hook[h].step = "count"
  /\ LogEscalation("general")
  /\ Go(h, "flag")
  /\ UNCHANGED <<model, holder, turns, active, historyVars>>

\* ... and the session becomes active.
Flag(h) ==
  /\ hook[h].step = "flag"
  /\ active' = TRUE
  /\ lost' = FALSE
  /\ Finish(h, "raised")
  /\ UNCHANGED <<model, holder, turns, events, origin>>

\* The answer is written, the database closed, and the process exits.
Close(h) ==
  /\ hook[h].step = "close"
  /\ holder' = Free
  /\ hook' = [hook EXCEPT ![h] = IdleAfter(hook[h].last)]
  /\ UNCHANGED <<model, dbVars, historyVars>>
-----------------------------------------------------------------------------
(* What happens around it                                                  *)

\* Claude Code kills the process; the system drops its file lock.
Kill(h) ==
  /\ hook[h].step # "idle"
  /\ holder' = IF holder = h THEN Free ELSE holder
  /\ lost' = (lost \/ (hook[h].step \in Between /\ ~active))
  /\ hook' = [hook EXCEPT ![h] = IdleAfter(hook[h].last)]
  /\ UNCHANGED <<model, dbVars, origin>>

\* Claude Code writes settings.json (/model, its configuration).
OutsideWrite(m) ==
  /\ model' = m
  /\ origin' = "outside"
  /\ hook' = [h \in Hook |-> [hook[h] EXCEPT !.stale = hook[h].step \in After]]
  /\ UNCHANGED <<holder, dbVars, lost>>

\* The service, the monitor or the stats command has the database open.
OtherOpen ==
  /\ holder = Free
  /\ holder' = Other
  /\ UNCHANGED <<model, dbVars, hook, historyVars>>

OtherClose ==
  /\ holder = Other
  /\ holder' = Free
  /\ UNCHANGED <<model, dbVars, hook, historyVars>>

Run(h) ==
  \/ Open(h) \/ OpenTimeout(h) \/ Read(h) \/ ReadError(h) \/ LogTurn(h)
  \/ Hint(h) \/ Settle(h) \/ UpdateSession(h)
  \/ Lower(h) \/ LowerError(h) \/ Record(h)
  \/ Raise(h) \/ RaiseError(h) \/ Count(h) \/ Flag(h) \/ Close(h)

Next ==
  \/ \E h \in Hook : Start(h) \/ Run(h) \/ Kill(h)
  \/ \E m \in Outside : OutsideWrite(m)
  \/ OtherOpen \/ OtherClose

Spec == Init /\ [][Next]_vars

\* A started process runs on: the system schedules it.
FairSpec == Spec /\ \A h \in Hook : WF_vars(Run(h))
-----------------------------------------------------------------------------
(* What must hold                                                          *)

\* A model above Haiku that a hook set has an active escalation, so that the
\* next success steps it down, although the two records are written one after
\* the other: unless a handler is between the two, or was stopped there.
SessionKept ==
  origin # "outside" /\ Tier(model) > 1 =>
    active \/ lost \/ \E h \in Hook : hook[h].step \in Between

\* A success steps the model down by exactly one tier, however many hooks and
\* kills came before, if Claude Code has not written meanwhile: no hook acts
\* on a model that another one has replaced.
DowngradeIsOneTier ==
  [][\A h \in Hook :
       hook[h].step = "lower" /\ hook'[h].step = "record" /\ ~hook[h].stale =>
         Tier(model') = Tier(model) - 1]_vars

\* Nothing but the user's escalation and Claude Code raises the model, unless a
\* hook steps down from a model that Claude Code has replaced meanwhile.
RaisedOnRequest ==
  [][Tier(model') > Tier(model) =>
       \/ origin' = "outside"
       \/ \E h \in Hook : /\ hook'[h].step # hook[h].step
                         /\ \/ hook[h].step = "raise" /\ model' = hook[h].prompt.target
                            \/ hook[h].step = "lower" /\ hook[h].stale]_vars

\* The model goes down one tier at a time for successes and up on request only.
ModelMovesRight == DowngradeIsOneTier /\ RaisedOnRequest

\* Users who keep reporting success without frustration come down to Haiku
\* and stay there once nothing raises the model and nothing fails any more,
\* whatever was lost before: the turns logged on a model stand in for a lost
\* session.
\* (A kill of a process that waits or is about to exit changes nothing.)
Disturbance ==
  \/ \E h \in Hook :
       \/ Raise(h) \/ LowerError(h)
       \/ Kill(h) /\ hook[h].step \notin {"open", "close"}
  \/ \E m \in Outside : OutsideWrite(m)
Reported ==
  \E h \in Hook : hook[h].step = "decide" /\ hook[h].prompt.success
                    /\ ~hook[h].prompt.frustrated
SuccessBringsDown ==
  <>[][~Disturbance]_vars /\ []<>Reported => <>[](Tier(model) = 1)
=============================================================================
