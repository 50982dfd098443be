----------------------------- MODULE ToolCalls ------------------------------
(***************************************************************************)
(* internal/tools: an intent's tools are selected, invoked through their     *)
(* adapters or answered from the invoker's cache, and their output injected  *)
(* into the context, counted against the token budget; and calls run under    *)
(* the shared ErrorHandler with its retries.  Text is counted in tokens.     *)
(***************************************************************************)
EXTENDS Integers, FiniteSets, FiniteSetsExt, Sequences, SequencesExt

CONSTANTS
  Tool, Intent,
  DefaultTools,    \* defaultIntentToolMap: the tools of each intent that has some
  FallbackTools,   \* the tools of an intent that has none
  Size,            \* tokens a tool's output, or its error, may have
  PerToolLimit, TokenBudget,
  MaxResults,      \* bound on the results given to ProcessResults
  Runner,          \* goroutines in InvokeWithErrorHandling
  AlertThreshold

ASSUME CallsAssumption ==
  /\ Size \subseteq Nat /\ {PerToolLimit, TokenBudget, MaxResults} \subseteq Nat
  /\ AlertThreshold \in Nat \ {0}
  /\ FallbackTools \in Seq(Tool)
  /\ \A n \in DOMAIN DefaultTools : DefaultTools[n] \in Seq(Tool)

MaxParallel == 2
MaxRetries == 3
ToolAnswer == [ok : BOOLEAN, size : Size]   \* an output, or the text of an error
\* Handle's answer to each scenario: whether it is retried.
Retried == [timeout |-> FALSE, connection_refused |-> TRUE, invalid_output |-> FALSE, crash |-> FALSE,
            rate_limit |-> TRUE, authorization |-> FALSE]

VARIABLES
  toolsOf,    \* Selector.intentToolMap
  answered,   \* Invoker.cache: the size of each tool's kept answer
  call,       \* the invocation under way: tools to do and results
  context,    \* ProcessResults: the results to look at, the tokens counted, those of the
              \* last result counted, the text written; history: its part from failures
  errors,     \* ErrorPolicy.ConsecutiveErrors, up to the threshold
  runner,     \* each guarded call: its tool, attempts made, whether another is due
  alerted     \* tools an alert was printed for

handlerVars == <<errors, runner, alerted>>
callsVars == <<toolsOf, answered, call, context, handlerVars>>
-----------------------------------------------------------------------------
(* Invocation                                                              *)

\* SelectForIntent; an empty intent is refused before this.
Select(i) == IF i \in DOMAIN toolsOf /\ toolsOf[i] # <<>> THEN toolsOf[i] ELSE FallbackTools

\* AddIntentMapping, for any tools in any number.
AddIntentMapping(i, ts) ==
  /\ toolsOf' = [j \in DOMAIN toolsOf \cup {i} |-> IF j = i THEN ts ELSE toolsOf[j]]
  /\ UNCHANGED <<answered, call, context, handlerVars>>

Truncate(s, n) == SubSeq(s, 1, Min({Len(s), n}))

\* Faulty variant: the limit of the request replaces that of the invoker.
BeginInvokeUpTo(i, most) ==
  /\ call.todo = <<>>
  /\ call' = [todo |-> IF most > 0 THEN Truncate(Select(i), most) ELSE Select(i), results |-> <<>>]
  /\ UNCHANGED <<toolsOf, answered, context, handlerVars>>

\* Invoke: at most MaxResults tools when that is given, and never more than two.
BeginInvoke(i, most) ==
  /\ call.todo = <<>>
  /\ call' = [todo |-> Truncate(IF most > 0 THEN Truncate(Select(i), most) ELSE Select(i), MaxParallel),
              results |-> <<>>]
  /\ UNCHANGED <<toolsOf, answered, context, handlerVars>>

\* invokeOne: the tool's kept answer whatever the input is now; or what its adapter
\* says, of which only a success is kept.
InvokeOne(said) ==
  /\ call.todo # <<>>
  /\ LET t == Head(call.todo)
         answer == IF t \in DOMAIN answered THEN [ok |-> TRUE, size |-> answered[t]] ELSE said IN
     /\ call' = [todo |-> Tail(call.todo), results |-> Append(call.results, answer)]
     /\ answered' = IF ~answer.ok THEN answered
                    ELSE [u \in DOMAIN answered \cup {t} |-> IF u = t THEN answer.size ELSE answered[u]]
  /\ UNCHANGED <<toolsOf, context, handlerVars>>
-----------------------------------------------------------------------------
(* ProcessResults, for the results of any invocations                       *)

NewContext(results) == [left |-> results, counted |-> 0, last |-> 0, text |-> 0, failures |-> 0]

ProcessResults(results) ==
  /\ context = NewContext(<<>>)
  /\ context' = NewContext(results)
  /\ UNCHANGED <<toolsOf, answered, call, handlerVars>>

\* One result: the error of a failure is written as it is and counted nowhere; an
\* output is cut at the limit of one tool and counted.
Injected(answer) ==
  LET kept == Min({answer.size, PerToolLimit})  rest == Tail(context.left) IN
  IF answer.ok
  THEN [left |-> rest, counted |-> context.counted + kept, last |-> kept,
        text |-> context.text + kept, failures |-> context.failures]
  ELSE [left |-> rest, counted |-> context.counted, last |-> context.last,
        text |-> context.text + answer.size, failures |-> context.failures + answer.size]

\* Faulty variant: it goes on after the result that passes the budget.
InjectOneMore ==
  /\ context.left # <<>>
  /\ context' = Injected(Head(context.left))
  /\ UNCHANGED <<toolsOf, answered, call, handlerVars>>

\* The next result, unless the one before it passed the budget.
InjectOne ==
  /\ context.left # <<>> /\ context.counted <= TokenBudget
  /\ context' = Injected(Head(context.left))
  /\ UNCHANGED <<toolsOf, answered, call, handlerVars>>
-----------------------------------------------------------------------------
(* Calls under the error handler                                            *)

Resting == [tool |-> "none", attempts |-> 0, due |-> FALSE]

Guard(r, t) ==
  /\ runner[r].tool = "none"
  /\ runner' = [runner EXCEPT ![r] = [tool |-> t, attempts |-> 0, due |-> TRUE]]
  /\ UNCHANGED <<toolsOf, answered, call, context, errors, alerted>>

\* Whether InvokeWithErrorHandling tries again when it has retried n times.
TriesAgain(scenario, n) == Retried[scenario] /\ n < MaxRetries

\* An attempt fails and Handle counts it, and alerts at the threshold.
AttemptFails(r, scenario) ==
  LET t == runner[r].tool
      count == Min({errors[t] + 1, AlertThreshold}) IN
  /\ runner[r].due
  /\ errors' = [errors EXCEPT ![t] = count]
  /\ alerted' = IF count = AlertThreshold THEN alerted \cup {t} ELSE alerted
  /\ runner' = [runner EXCEPT ![r] = 
       [tool |-> t, attempts |-> @.attempts + 1, due |-> TriesAgain(scenario, @.attempts)]]
  /\ UNCHANGED <<toolsOf, answered, call, context>>

\* An attempt succeeds: the tool's count goes back to zero.
AttemptSucceeds(r) ==
  /\ runner[r].due
  /\ errors' = [errors EXCEPT ![runner[r].tool] = 0]
  /\ runner' = [runner EXCEPT ![r] = Resting]
  /\ UNCHANGED <<toolsOf, answered, call, context, alerted>>

\* The error is returned: it is final, or the context ended the wait before a retry.
Return(r) ==
  /\ runner[r].tool # "none" /\ runner[r].attempts > 0
  /\ runner' = [runner EXCEPT ![r] = Resting]
  /\ UNCHANGED <<toolsOf, answered, call, context, errors, alerted>>
-----------------------------------------------------------------------------
CallsInit ==
  /\ toolsOf = DefaultTools
  /\ answered = [t \in {} |-> 0]
  /\ call = [todo |-> <<>>, results |-> <<>>]
  /\ context = NewContext(<<>>)
  /\ errors = [t \in Tool |-> 0]
  /\ runner = [r \in Runner |-> Resting]
  /\ alerted = {}

Invocation ==
  \/ \E i \in Intent, ts \in SeqOf(Tool, MaxParallel + 1) : AddIntentMapping(i, ts)
  \/ \E i \in Intent, most \in 0..MaxParallel + 1 : BeginInvoke(i, most)
  \/ \E said \in ToolAnswer : InvokeOne(said)
Processing ==
  \/ \E results \in SeqOf(ToolAnswer, MaxResults) : ProcessResults(results)
  \/ InjectOne
Guarded ==
  \E r \in Runner :
    \/ \E t \in Tool : Guard(r, t)
    \/ \E s \in DOMAIN Retried : AttemptFails(r, s)
    \/ AttemptSucceeds(r) \/ Return(r)

CallsSpec == CallsInit /\ [][Invocation \/ Processing \/ Guarded]_callsVars
-----------------------------------------------------------------------------
(* What must hold                                                          *)

\* Whatever the mapping says, an invocation runs two tools at most.  Whatever their
\* results, what is counted passes the budget by one output at most and only with the
\* last one; the text of the outputs is what is counted, and what failures add to it
\* is in no count and under no limit.  A call under the error handler makes four
\* attempts at most.
CallsBounded ==
  /\ Len(call.todo) + Len(call.results) <= MaxParallel
  /\ context.counted <= TokenBudget + PerToolLimit
  /\ context.counted - context.last <= TokenBudget
  /\ context.text = context.counted + context.failures
  /\ \A r \in Runner : runner[r].attempts <= MaxRetries + 1
=============================================================================
