------------------------- MODULE EscalationService -------------------------
(***************************************************************************)
(* internal/service/service.go: HTTP handlers that change the model in      *)
(* settings.json and log escalations, each in its own goroutine, over the   *)
(* store of internal/store.  A handler is a list of rules; a rule reads the *)
(* settings, logs and calls WriteClaudeSettings, whose error it drops.      *)
(***************************************************************************)
EXTENDS SettingsFile, Sequences

CONSTANTS
  Prompt,          \* what the hook tells prompts apart by:
                   \* [frustrated, command, success, effort]
  Target,          \* targets of /escalate and /api/escalate
  BudgetRefuses,   \* hard limit, and the daily, monthly or haiku limit is
                   \* under the cent CheckBudget is asked for
  MaxRequests      \* bound on the requests

ASSUME ServiceAssumption ==
  /\ BudgetRefuses \in BOOLEAN
  /\ MaxRequests \in Nat

VARIABLES
  todo,        \* the rules each handler has still to run
  serving,     \* what each handler serves: a request, or Nothing
  requests,    \* how many there were
  escalations, \* rows of the escalations bucket: [from, to, task, reason]
  validations, \* rows of the validation bucket, in the order of their keys
  reply        \* the last answer of a validation or decision endpoint

serviceVars == <<todo, serving, requests, escalations, validations, reply>>
vars == <<settingsVars, serviceVars>>

Nothing == [kind |-> "nothing"]

\* modelShortName looks for parts of the name at offsets where no model of the
\* program has them, so it takes each of them for haiku.
ShortName(m) == "haiku"
FullName(m) == CASE m = "opus" -> "claude-opus-4-7"
                 [] m = "sonnet" -> "claude-sonnet-4-6"
                 [] OTHER -> "claude-haiku-4-5-20251001"

OneTierUp == [haiku |-> "sonnet", sonnet |-> "opus", opus |-> "opus"]   \* escalateByOne
OneTierDown == [haiku |-> "haiku", sonnet |-> "haiku", opus |-> "sonnet"]
CascadeDown(m) == OneTierDown[ShortName(m)]
EffortToModel == [low |-> "haiku", medium |-> "sonnet", high |-> "opus"]

\* findCheaperModel, asked about the model modelShortName makes out.
RecommendedModel == CascadeDown("haiku")

Init ==
  /\ SettingsInit
  /\ todo = [w \in Writer |-> <<>>]
  /\ serving = [w \in Writer |-> Nothing]
  /\ requests = 0
  /\ escalations = <<>> /\ validations = <<>>
  /\ reply = "none"

Row(from, to, task, reason) == [from |-> from, to |-> to, task |-> task, reason |-> reason]
-----------------------------------------------------------------------------
(* Requests                                                                *)

\* The rules of handleHook for a prompt, in the order of the code; detectEffort
\* always finds an effort.
HookRules(p) ==
  (IF p.frustrated THEN <<[rule |-> "frustration", arg |-> "none"]>> ELSE <<>>)
  \o (IF BudgetRefuses THEN <<[rule |-> "budget", arg |-> "none"]>> ELSE <<>>)
  \o (IF p.command # "none" THEN <<[rule |-> "command", arg |-> p.command]>> ELSE <<>>)
  \o (IF p.success THEN <<[rule |-> "success", arg |-> "none"]>> ELSE <<>>)
  \o <<[rule |-> "effort", arg |-> p.effort]>>

Begin(w, request, rules) ==
  /\ serving[w] = Nothing /\ requests < MaxRequests
  /\ serving' = [serving EXCEPT ![w] = request]
  /\ todo' = [todo EXCEPT ![w] = rules]
  /\ requests' = requests + 1
  /\ UNCHANGED <<settingsVars, escalations, validations, reply>>

HandleHook(w, p) == Begin(w, [kind |-> "hook"], HookRules(p))
HandleEscalate(w, t) ==
  Begin(w, [kind |-> "escalate"], <<[rule |-> "escalate", arg |-> t]>>)
HandleDeescalate(w) ==
  Begin(w, [kind |-> "deescalate"], <<[rule |-> "deescalate", arg |-> "none"]>>)
HandleEffort(w, level) ==
  Begin(w, [kind |-> "effort"], <<[rule |-> "setEffort", arg |-> level]>>)
-----------------------------------------------------------------------------
(* Rules                                                                   *)

\* ReadClaudeSettings gives nil for a file that does not parse.
Current == IF Parses(settings) THEN ShortName(data[settings].doc.model) ELSE "haiku"

\* What a rule logs and the model it sets, a short or a full name; nothing when
\* the de-escalations find no settings.
Logged(r) ==
  CASE r.rule = "frustration" ->
         <<Row(Current, OneTierUp[Current], "auto", "frustration_detected")>>
    [] r.rule = "command" -> <<Row("haiku", r.arg, "manual", "user_command")>>
    [] r.rule = "success" ->
         <<Row(data[settings].doc.model, CascadeDown(data[settings].doc.model),
               "success", "success_signal")>>
    [] r.rule = "effort" -> <<Row("haiku", EffortToModel[r.arg], "auto", r.arg)>>
    [] r.rule = "escalate" -> <<Row(Current, r.arg, "manual", "user_command")>>
    [] r.rule = "deescalate" ->
         <<Row(Current, CascadeDown(data[settings].doc.model), "cascade", "reason")>>
    [] OTHER -> <<>>

SetsModel(r, m) ==
  \/ r.rule = "frustration" /\ m = FullName(OneTierUp[Current])
  \/ r.rule = "budget"      /\ m = FullName(RecommendedModel)
  \/ r.rule = "command"     /\ m = r.arg
  \/ r.rule = "success"     /\ m = CascadeDown(data[settings].doc.model)
  \/ r.rule = "effort"      /\ m = EffortToModel[r.arg]
  \/ r.rule = "escalate"    /\ m = FullName(r.arg)
  \/ r.rule = "deescalate"  /\ m = FullName(CascadeDown(data[settings].doc.model))
  \/ r.rule = "setEffort"   /\ m = FullName(EffortToModel[r.arg])

Skips(r) == r.rule \in {"success", "deescalate"} /\ ~Parses(settings)

RunRule(w) ==
  /\ Idle(w) /\ todo[w] # <<>>
  /\ todo' = [todo EXCEPT ![w] = Tail(@)]
  /\ LET r == Head(todo[w]) IN
       \/ Skips(r) /\ UNCHANGED <<update, escalations>>
       \/ /\ ~Skips(r)
          /\ escalations' = escalations \o Logged(r)
          /\ \E m \in Model :
               /\ SetsModel(r, m)
               /\ update' = [update EXCEPT ![w] =
                    [stage |-> "read", doc |-> Doc(m, 0), fd |-> None]]
  /\ UNCHANGED <<settings, tmp, data, rest, overlapped, serving, requests,
                 validations, reply>>

WriteSettings(w) == UpdateStep(w) /\ UNCHANGED serviceVars

\* The response goes out whatever became of the updates.
Respond(w) ==
  /\ serving[w] # Nothing /\ Idle(w) /\ todo[w] = <<>>
  /\ serving' = [serving EXCEPT ![w] = Nothing]
  /\ UNCHANGED <<settingsVars, todo, requests, escalations, validations, reply>>
-----------------------------------------------------------------------------
(* Validation: the handlers are one transaction of the store each           *)

\* LogValidationMetric is handed a copy, so the caller answers with id zero.
LogValidation(v) ==
  /\ requests < MaxRequests
  /\ requests' = requests + 1
  /\ validations' = Append(validations, v)
  /\ reply' = "id zero"
  /\ UNCHANGED <<settingsVars, todo, serving, escalations>>

HandleHookMetrics(t) == LogValidation([estimated |-> t, actual |-> 0, validated |-> FALSE])
\* The validation_id of the request is not used.
HandleValidate(t) == LogValidation([estimated |-> 0, actual |-> t, validated |-> TRUE])

\* handleMakeDecision looks a row up under the digits of its id, while the
\* keys are the eight bytes of the number: no row is found.
HandleMakeDecision ==
  /\ requests < MaxRequests
  /\ requests' = requests + 1
  /\ reply' = "not found"
  /\ UNCHANGED <<settingsVars, todo, serving, escalations, validations>>
-----------------------------------------------------------------------------
Edit == ClaudeCodeEdits /\ UNCHANGED serviceVars

\* Only the files survive.
Crash ==
  /\ WritersDie
  /\ todo' = [w \in Writer |-> <<>>]
  /\ serving' = [w \in Writer |-> Nothing]
  /\ UNCHANGED <<settings, tmp, data, rest, overlapped, requests, escalations,
                 validations, reply>>

Next ==
  \/ \E w \in Writer :
       \/ \E p \in Prompt : HandleHook(w, p)
       \/ \E t \in Target : HandleEscalate(w, t)
       \/ \E level \in DOMAIN EffortToModel : HandleEffort(w, level)
       \/ HandleDeescalate(w) \/ RunRule(w) \/ WriteSettings(w) \/ Respond(w)
  \/ HandleHookMetrics(2) \/ HandleValidate(3) \/ HandleMakeDecision
  \/ Edit \/ Crash

\* Goroutines run until they have answered.
Fairness == \A w \in Writer : WF_vars(RunRule(w) \/ WriteSettings(w) \/ Respond(w))

Spec == Init /\ [][Next]_vars /\ Fairness
-----------------------------------------------------------------------------
(* What must hold                                                          *)

\* What an update puts in place is what it wrote itself, not another
\* handler's document nor what an earlier crash left under the temporary name,
\* as long as nothing overlapped.
InstallsOwn ==
  \A w \in Writer :
    update[w].stage = "rename" /\ update'[w] = NoUpdate /\ settings' # settings
      /\ ~overlapped => data'[settings'] = Whole(update[w].doc)
InstallsOwnStep == [][InstallsOwn]_vars

\* What a handler still has to do: five steps for a rule and its update, what is
\* left of the update under way, and the answer.
StagesLeft == [none |-> 0, read |-> 4, open |-> 3, write |-> 2, rename |-> 1]
WorkLeft(w) ==
  5 * Len(todo[w]) + StagesLeft[update[w].stage] + (IF serving[w] = Nothing THEN 0 ELSE 1)

\* A handler goes through its rules and updates once, whatever another handler,
\* Claude Code or a crash does to the files: no step sends it back.
WorkShrinks ==
  \A w \in Writer :
    <<todo[w], update[w], serving[w]>>' # <<todo[w], update[w], serving[w]>> =>
      (serving[w] = Nothing /\ WorkLeft(w) = 0) \/ WorkLeft(w)' < WorkLeft(w)
WorkShrinksStep == [][WorkShrinks]_vars

\* A step of a handler installs nothing but its own document and gives it no work back.
HandlerSteps == InstallsOwnStep /\ WorkShrinksStep

\* Every request is answered, even when the file is beyond repair.
Answered == \A w \in Writer : []<>(serving[w] = Nothing)
=============================================================================
