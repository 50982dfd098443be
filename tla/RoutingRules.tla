---------------------------- MODULE RoutingRules ----------------------------
(***************************************************************************)
(* The decision tables: signals/detector.go and decisions/engine.go,        *)
(* sentiment/sentiment.go and frustration_handler.go, and the classifier of *)
(* internal/intent with the feedback it learns from.  A text is the set of  *)
(* pattern groups it matches.  One state is one decision.                  *)
(***************************************************************************)
EXTENDS CostModel, Sequences, SequencesExt

VARIABLES
  feedback,  \* UserFeedbackPattern of one user: [accuracy, freshness]
  verdict    \* the decision made: [rule, given, out]

rulesVars == <<feedback, verdict>>

Tier == [haiku |-> 1, sonnet |-> 2, opus |-> 3]
Up(m) == IF m = "haiku" THEN "sonnet" ELSE "opus"
Down(m) == IF m = "opus" THEN "sonnet" ELSE "haiku"
EffortFor == [haiku |-> "low", sonnet |-> "medium", opus |-> "high"]
Undecided == [rule |-> "none"]
-----------------------------------------------------------------------------
(* Signals and the decision engine                                          *)

SignalOrder == <<"escalation", "success", "failure", "clarification", "effort_high", "effort_low">>

\* The first group in this order that any pattern matches.
DetectSignal(groups) ==
  LET hits == {k \in DOMAIN SignalOrder : SignalOrder[k] \in groups}
  IN IF hits = {} THEN "none" ELSE SignalOrder[CHOOSE k \in hits : \A l \in hits : k <= l]
\* The answer of the user is asked first, the prompt only if it says nothing.
AnalyzePromptAndResponse(prompt, response) ==
  IF DetectSignal(response) # "none" THEN DetectSignal(response) ELSE DetectSignal(prompt)

Decision(action, m, effort) == [action |-> action, model |-> m, effort |-> effort]

\* The fourth priority: the error of the token estimate, in percent.
ByTokens(model, effort, error) ==
  IF error > 15 /\ model # "opus" THEN Decision("escalate", Up(model), EffortFor[Up(model)])
  ELSE IF error < -15 /\ model # "haiku"
  THEN Decision("cascade", Down(model), IF model = "sonnet" THEN "low" ELSE effort)
  ELSE Decision(IF error \in -15..15 THEN "stay" ELSE "", model, effort)

\* The fifth: what the user says of the effort.
ByEffort(model, effort, signal) ==
  CASE signal = "effort_high" -> Decision("adjust_effort", Up(model), "high")
    [] signal = "effort_low" -> Decision("adjust_effort", Down(model), "low")
    [] OTHER -> Decision("", model, effort)

\* The first three: what the user says, if the words are clear enough.
BySignal(v, signal, sure) ==
  CASE signal = "escalation" -> Decision("escalate", "opus", v.effort)
    [] signal = "success" /\ sure ->
         IF v.model = "haiku" THEN Decision("stay", v.model, v.effort)
         ELSE Decision("cascade", Down(v.model), v.effort)
    [] signal = "failure" /\ sure ->
         IF v.model = "opus" THEN Decision("stay", v.model, v.effort)
         ELSE Decision("escalate", Up(v.model), EffortFor[Up(v.model)])
    [] OTHER -> Decision("", v.model, v.effort)
ByEstimate(v) ==
  IF v.validated THEN ByTokens(v.model, v.effort, v.error) ELSE Decision("", v.model, v.effort)

\* A rule counts only when no rule before it has decided.
Else(d, e) == IF d.action # "" THEN d ELSE e

\* Faulty variant: the tokens are asked before the user.
MakeDecisionByTokens(v, signal, sure) ==
  Else(ByEstimate(v), Else(BySignal(v, signal, sure), ByEffort(v.model, v.effort, signal)))

\* MakeDecision: the priorities in their order.
MakeDecision(v, signal, sure) ==
  Else(BySignal(v, signal, sure), Else(ByEstimate(v), ByEffort(v.model, v.effort, signal)))

Validation == [model : Models, effort : {"low", "medium", "high"}, validated : BOOLEAN,
               error : {-16, -15, 0, 15, 16}]
Groups == {"escalation", "success", "failure", "effort_low"}
DecideByEngine ==
  \E v \in Validation, prompt, response \in SUBSET Groups, sure \in BOOLEAN :
    LET signal == AnalyzePromptAndResponse(prompt, response) IN
    verdict' = [rule |-> "engine", model |-> v.model, asked |-> signal = "escalation",
                said |-> [prompt |-> prompt, response |-> response, sure |-> sure],
                close |-> v.validated /\ v.error \in -15..15, out |-> MakeDecision(v, signal, sure)]
-----------------------------------------------------------------------------
(* Sentiment                                                                *)

Moods == {"satisfied", "frustrated", "confused", "impatient"}

\* Detect: two moods matched equally often are told apart by the order in which
\* Go walks the map, which is any.  The risk is counted in twentieths.
Primaries(hits, rapid, escalate) ==
  LET most == Max({hits[s] : s \in Moods})
  IN IF most > 0 THEN {s \in Moods : hits[s] = most}
     ELSE IF rapid THEN {"confused"} ELSE IF escalate THEN {"frustrated"} ELSE {"neutral"}
Risk(hits, rapid, escalate) ==
  Min({20, 5 * (hits["frustrated"] + hits["confused"])
           + (IF rapid THEN 4 ELSE 0) + (IF escalate THEN 3 ELSE 0)})

NoAction == Decision("none", "", "")
HandleFrustration(risk, primary, model, attempts) ==
  IF risk > 14
  THEN IF model = "opus" THEN NoAction
       ELSE IF attempts < 2 THEN Decision("escalate", Up(model), EffortFor[Up(model)])
       ELSE Decision("escalate", "opus", "high")
  ELSE IF primary = "impatient" THEN Decision("adjust_effort", "haiku", "low")
  ELSE IF primary = "confused" /\ model = "haiku" THEN Decision("escalate", "sonnet", "medium")
  ELSE NoAction
ShouldDeEscalate(primary, success, model) ==
  IF ~success \/ primary # "satisfied" \/ model = "haiku" THEN NoAction
  ELSE Decision("cascade", Down(model), EffortFor[Down(model)])

DecideByMood ==
  \E hits \in [Moods -> 0..2], rapid, escalate \in BOOLEAN, model \in Models, attempts \in 0..2 :
    \E primary \in Primaries(hits, rapid, escalate) :
      LET risk == Risk(hits, rapid, escalate) IN
      \/ verdict' = [rule |-> "mood", model |-> model, risk |-> risk, attempts |-> attempts,
                     out |-> HandleFrustration(risk, primary, model, attempts)]
      \/ verdict' = [rule |-> "relief", model |-> model, risk |-> risk, attempts |-> attempts,
                     out |-> ShouldDeEscalate(primary, TRUE, model)]
-----------------------------------------------------------------------------
(* The classifier                                                          *)

Intents == {"quick_answer", "detailed_analysis", "routine", "learning", "follow_up", "cache_bypass"}

\* Detect of the bypass detector: [confidence in percent, layer].
DetectBypass(q) ==
  IF q.explicit THEN [sure |-> 99, layer |-> "explicit"]
  ELSE IF q.contextual >= 2 THEN [sure |-> Min({90, 20 * q.contextual}), layer |-> "contextual"]
  ELSE IF q.pasted THEN [sure |-> 10, layer |-> "paste"] ELSE [sure |-> 0, layer |-> "none"]
ShouldBypass(b) == b.layer # "paste" /\ b.sure >= 75

\* detectBaseIntent: brevity overrides detail; the answer of a model, if there is
\* one, overrides the keywords.
BaseIntent(q) ==
  CASE q.ml \in Intents -> q.ml
    [] "quick" \in q.words -> "quick_answer"
    [] "detail" \in q.words -> "detailed_analysis"
    [] "follow" \in q.words -> "follow_up"
    [] "learn" \in q.words -> "learning"
    [] OTHER -> "quick_answer"

\* applyFeedbackModulation looks for "summary" in the query as it is written,
\* while the keywords ("summary" is a quick one) ignore case.
Modulated(intent, q) ==
  IF feedback.freshness /\ q.summary = "lower" THEN "detailed_analysis" ELSE intent

IntentEffort(i) ==
  IF i \in {"quick_answer", "routine"} THEN "low" ELSE IF i = "follow_up" THEN "medium" ELSE "high"
\* Nothing in the program sets PrefersOpus.
EffortModel(e) == IF e = "low" THEN "haiku" ELSE "sonnet"
CacheSafe(i) == i \in {"quick_answer", "routine"}
MaxTokens(i) == CASE i \in {"quick_answer", "routine"} -> 256 [] i = "follow_up" -> 512
                  [] i = "learning" -> 1024 [] OTHER -> 2000
OptimizeMode(i) == CASE i \in {"quick_answer", "routine"} -> "aggressive"
                     [] i = "follow_up" -> "moderate" [] OTHER -> "minimal"

Classified(i) == [intent |-> i, cacheSafe |-> CacheSafe(i), model |-> EffortModel(IntentEffort(i)),
                  tokens |-> MaxTokens(i), mode |-> OptimizeMode(i), effort |-> IntentEffort(i)]
Classify(q) ==
  IF ShouldBypass(DetectBypass(q)) THEN Classified("cache_bypass")
  ELSE Classified(Modulated(BaseIntent(q), q))

Queries == {q \in [explicit : BOOLEAN, contextual : 0..4, pasted : BOOLEAN,
                   words : SUBSET {"quick", "detail", "follow", "learn"},
                   summary : {"no", "lower", "upper"}, ml : {"", "routine", "learning"}] :
              q.summary # "no" => "quick" \in q.words}
DecideByIntent ==
  \E q \in Queries : verdict' = [rule |-> "intent", given |-> q, fresh |-> feedback.freshness,
                                 out |-> Classify(q)]

\* RecordFeedback: only a poor rating of what was not cached asks for freshness; the
\* same rating of what may be cached leaves no trace in the later decisions.
RecordFeedback(rating) ==
  /\ verdict.rule = "intent"
  /\ feedback' = [accuracy |-> CASE rating = "excellent" -> 95 [] rating = "good" -> 80
                                 [] rating = "okay" -> 60 [] rating = "poor" -> 20,
                  freshness |-> feedback.freshness \/ (rating = "poor" /\ ~verdict.out.cacheSafe)]
  /\ verdict' = Undecided

RulesInit ==
  /\ feedback = [accuracy |-> 100, freshness |-> FALSE]
  /\ verdict = Undecided
Decide == verdict = Undecided /\ (DecideByEngine \/ DecideByMood \/ DecideByIntent)
          /\ UNCHANGED feedback
RulesNext == Decide \/ \E r \in {"excellent", "good", "okay", "poor"} : RecordFeedback(r)
RulesSpec == RulesInit /\ [][RulesNext]_rulesVars
-----------------------------------------------------------------------------
(* What must hold                                                          *)

\* The tables agree with the order of the models: an escalation never ends on a
\* lower tier and, unless the user asked for it, takes one step with the effort
\* of the new model (two steps from the second attempt of a frustrated user); a
\* cascade goes down exactly one tier; a mood at the highest risk always raises a
\* model that can be raised, whichever mood the map's order has put first.
RoutesRight ==
  verdict.rule \in {"engine", "mood", "relief"} =>
    LET d == verdict.out  from == Tier[verdict.model] IN
    /\ d.action = "escalate" =>
         /\ Tier[d.model] >= from
         /\ (verdict.rule = "engine" /\ verdict.asked)
              \/ (Tier[d.model] > from /\ d.effort = EffortFor[d.model])
         /\ Tier[d.model] > from + 1 =>
              (verdict.rule = "engine" /\ verdict.asked) \/ (verdict.rule = "mood" /\ verdict.attempts >= 2)
    /\ d.action = "cascade" => Tier[d.model] = from - 1
    /\ d.action \in {"stay", ""} => Tier[d.model] = from
    /\ verdict.rule = "mood" /\ verdict.risk = 20 /\ from < 3 => d.action = "escalate"

\* The rules of the engine are asked in their order, whatever the numbers say: the
\* answer of the user before the prompt, a wish for Opus before all else, a clear
\* success is never answered by a dearer model and a clear failure never by a cheaper
\* one, and a word on the effort counts only where nothing else was said and the
\* estimate was not a close one.
RulesInOrder ==
  verdict.rule = "engine" =>
    LET d == verdict.out
        said == IF verdict.said.response # {} THEN verdict.said.response ELSE verdict.said.prompt IN
    /\ "escalation" \in said => d.action = "escalate" /\ d.model = "opus"
    /\ verdict.said.sure /\ "success" \in said /\ "escalation" \notin said => d.action \in {"cascade", "stay"}
    /\ verdict.said.sure /\ said \cap {"escalation", "success", "failure"} = {"failure"} =>
         d.action \in {"escalate", "stay"}
    /\ d.action = "adjust_effort" => said = {"effort_low"} /\ ~verdict.close

\* What may be answered from the cache is what is answered cheaply, in every one
\* of the five tables, and never what the user marked: an explicit bypass, or a
\* query with the word "summary" in lower case once a poor rating of an answer that
\* was not cached has been recorded.  A poor rating of a cached answer marks
\* nothing, although classifier.go:439 says it does: line 440 tests the opposite.
CachedIsCheap ==
  verdict.rule = "intent" =>
    LET d == verdict.out  q == verdict.given IN
    /\ d.cacheSafe <=> d.model = "haiku"
    /\ d.cacheSafe <=> d.mode = "aggressive"
    /\ d.cacheSafe <=> d.tokens = 256
    /\ d.cacheSafe => ~q.explicit /\ ~(verdict.fresh /\ q.summary = "lower")
    /\ q.pasted /\ ~q.explicit /\ q.contextual < 2 => d.intent # "cache_bypass"

\* Every decision is right: where the user is sent, by which rule, and what the
\* cache may answer.
DecisionsRight == RoutesRight /\ RulesInOrder /\ CachedIsCheap
=============================================================================
