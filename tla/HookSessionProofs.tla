------------------------- MODULE HookSessionProofs -------------------------
(* Proofs about HookSession, for every number of sessions and every set of  *)
(* prompts and outside models.                                              *)
EXTENDS HookSession, TLAPS

\* A hook process is past store.Open exactly while it holds the database.
Serial == \A h \in Hook : hook[h].step \notin {"idle", "open"} <=> holder = h

\* Until it writes, the model a process read is the one in settings.json,
\* unless Claude Code has written since.
ReadIsCurrent ==
  \A h \in Hook :
    hook[h].step \in {"turn", "decide", "session", "lower"} /\ ~hook[h].stale =>
      hook[h].read = model

\* Only an expensive model is stepped down, ...
StepsFromExpensive ==
  \A h \in Hook : hook[h].step \in {"session", "lower"} => Tier(hook[h].read) > 1

\* ... and a step down from Opus finds the session kept.
OpusKeepsSession ==
  \A h \in Hook : hook[h].step = "lower" /\ hook[h].read = "opus" => active

IInv == /\ HookTypeOK /\ Serial /\ ReadIsCurrent /\ StepsFromExpensive
        /\ OpusKeepsSession /\ SessionKept

-----------------------------------------------------------------------------
\* The tiers are the numbers 1, 2, 3, and a step down is a step of one.
LEMMA Tiers ==
  /\ Tier("haiku") = 1 /\ Tier("sonnet") = 2 /\ Tier("opus") = 3
  /\ \A m \in Model : Tier(m) \in {1, 2, 3}
  /\ \A m \in Model : Tier(m) > 1 => /\ m \in {"sonnet", "opus"}
                                     /\ Tier(Below(m)) = Tier(m) - 1
  BY DEF Tier, Below, Model

LEMMA IdleIsProcess ==
  \A t \in TaskType \cup {"general"} : IdleAfter(t) \in Process
  BY DEF Process, IdleAfter, Meta, Prompt, Steps, Answers, Model

\* The state a specification starts in.
LEMMA InitIInv == Init => IInv
  <1> SUFFICES ASSUME Init PROVE IInv
    OBVIOUS
  <1>1. HookTypeOK
    <2>1. hook \in [Hook -> Process]
      BY IdleIsProcess DEF Init
    <2>2. turns \in Seq(Model) /\ Len(turns) <= FrustrationWindow
      BY DEF Init, FrustrationWindow
    <2>3. events \in [TaskType -> 0..PredictThreshold]
      BY DEF Init, PredictThreshold
    <2>4. model \in Model /\ holder \in Hook \cup {Free, Other}
      BY HookAssumption DEF Init
    <2>5. \A h \in Hook : hook[h].step = "idle"
      BY DEF Init, IdleAfter
    <2> QED BY <2>1, <2>2, <2>3, <2>4, <2>5 DEF Init, HookTypeOK
  <1>2. /\ holder = Free
        /\ \A h \in Hook : hook[h].step = "idle"
    BY DEF Init, IdleAfter
  <1>3. Serial
    BY <1>2, HookAssumption DEF Serial
  <1>4. ReadIsCurrent /\ StepsFromExpensive /\ OpusKeepsSession
    BY <1>2 DEF ReadIsCurrent, StepsFromExpensive, OpusKeepsSession
  <1>5. SessionKept
    BY DEF Init, SessionKept
  <1> QED BY <1>1, <1>3, <1>4, <1>5 DEF IInv

\* Go and Finish change the step, and Finish the answer, of one process.
LEMMA ProcessMoves ==
  ASSUME HookTypeOK, NEW h \in Hook, NEW s \in Steps,
         Go(h, s) \/ (s = "close" /\ \E a \in Answers : Finish(h, a))
  PROVE  /\ hook' \in [Hook -> Process]
         /\ \A g \in Hook : g # h => hook'[g] = hook[g]
         /\ hook'[h].step = s
         /\ hook'[h].prompt = hook[h].prompt
         /\ hook'[h].read = hook[h].read
         /\ hook'[h].stale = hook[h].stale
  <1>1. CASE Go(h, s)
    BY <1>1 DEF HookTypeOK, Go, Process
  <1>2. CASE s = "close" /\ \E a \in Answers : Finish(h, a)
    <2>1. PICK a \in Answers : Finish(h, a)
      BY <1>2
    <2>2. hook' = [hook EXCEPT ![h].step = "close", ![h].answer = a]
      BY <2>1 DEF Finish
    <2>3. hook \in [Hook -> Process]
      BY DEF HookTypeOK
    <2>4. "close" \in Steps
      BY DEF Steps
    <2> QED BY <1>2, <2>2, <2>3, <2>4 DEF Process
  <1> QED BY <1>1, <1>2

\* A process that times out, exits or is killed goes back to the start.
LEMMA ProcessEnds ==
  ASSUME HookTypeOK, NEW h \in Hook, OpenTimeout(h) \/ Close(h) \/ Kill(h)
  PROVE  /\ hook' \in [Hook -> Process]
         /\ \A g \in Hook : g # h => hook'[g] = hook[g]
         /\ hook'[h].step = "idle"
         /\ holder' \in {holder, Free} /\ lost' \in BOOLEAN
         /\ UNCHANGED <<model, dbVars, origin>>
  <1>1. hook' = [hook EXCEPT ![h] = IdleAfter(hook[h].last)]
    BY DEF OpenTimeout, Close, Kill
  <1>2. IdleAfter(hook[h].last) \in Process /\ IdleAfter(hook[h].last).step = "idle"
    BY IdleIsProcess DEF HookTypeOK, Process, IdleAfter
  <1>3. /\ hook' \in [Hook -> Process] /\ hook'[h].step = "idle"
        /\ \A g \in Hook : g # h => hook'[g] = hook[g]
    BY <1>1, <1>2 DEF HookTypeOK
  <1>4. lost' \in BOOLEAN /\ holder' \in {holder, Free}
    BY DEF HookTypeOK, OpenTimeout, Close, Kill, historyVars
  <1> QED BY <1>3, <1>4 DEF OpenTimeout, Close, Kill, historyVars

\* Every step keeps the types.
LEMMA TypeStep == HookTypeOK /\ [Next]_vars => HookTypeOK'
  <1> SUFFICES ASSUME HookTypeOK, [Next]_vars PROVE HookTypeOK'
    OBVIOUS
  <1> DEFINE Kinds(s, h) ==
        /\ s \in {"turn", "decide", "session", "lower", "record"} =>
             hook[h].prompt.kind = "ask"
        /\ s \in {"raise", "count", "flag"} => hook[h].prompt.kind = "escalate"
  <1> DEFINE Rest ==
        /\ model' \in Model /\ holder' \in Hook \cup {Free, Other}
        /\ turns' \in Seq(Model) /\ Len(turns') <= FrustrationWindow
        /\ active' \in BOOLEAN
        /\ events' \in [TaskType -> 0..PredictThreshold]
        /\ origin' \in {"outside", "raised", "lowered"} /\ lost' \in BOOLEAN
  <1>a. ASSUME NEW h \in Hook, NEW s \in Steps, Kinds(s, h), Rest,
               Go(h, s) \/ (s = "close" /\ \E a \in Answers : Finish(h, a))
        PROVE  HookTypeOK'
    <2>1. /\ hook' \in [Hook -> Process]
          /\ \A g \in Hook : g # h => hook'[g] = hook[g]
          /\ hook'[h].step = s /\ hook'[h].prompt = hook[h].prompt
      BY <1>a, ProcessMoves
    <2> QED BY <1>a, <2>1 DEF HookTypeOK
  <1>1. ASSUME NEW h \in Hook, Start(h) PROVE HookTypeOK'
    <2>1. "open" \in Steps /\ Kinds("open", h) /\ Go(h, "open")
      BY <1>1 DEF Start, Steps
    <2>2. Rest
      BY <1>1 DEF HookTypeOK, Start, dbVars, historyVars
    <2> QED BY <1>a, <2>1, <2>2
  <1>2. ASSUME NEW h \in Hook, Open(h) PROVE HookTypeOK'
    <2>1. PICK p \in Prompts :
            hook' = [hook EXCEPT ![h].step = "read", ![h].prompt = p,
                                 ![h].last = IF p.kind = "ask" THEN p.task ELSE @]
      BY <1>2 DEF Open
    <2>2. p \in Prompt
      BY HookAssumption
    <2>3. p.kind = "ask" => p.task \in TaskType \cup {"general"}
      BY <2>2 DEF Prompt
    <2>4. DEFINE last == IF p.kind = "ask" THEN p.task ELSE hook[h].last
    <2>5. hook[h] \in Process
      BY DEF HookTypeOK
    <2>6. last \in TaskType \cup {"general"}
      BY <2>3, <2>5 DEF Process
    <2>7. hook' = [hook EXCEPT ![h].step = "read", ![h].prompt = p, ![h].last = last]
      BY <2>1
    <2> HIDE DEF last
    <2>8. hook' \in [Hook -> Process]
      <3>1. "read" \in Steps
        BY DEF Steps
      <3>2. [hook[h] EXCEPT !.step = "read", !.prompt = p, !.last = last] \in Process
        BY <2>2, <2>5, <2>6, <3>1 DEF Process
      <3>3. hook \in [Hook -> Process]
        BY DEF HookTypeOK
      <3>4. hook' = [hook EXCEPT
              ![h] = [hook[h] EXCEPT !.step = "read", !.prompt = p, !.last = last]]
        BY <2>5, <2>7, <3>3
      <3> QED BY <3>2, <3>3, <3>4
    <2>9. hook'[h].step = "read" /\ \A g \in Hook : g # h => hook'[g] = hook[g]
      BY <2>5, <2>7 DEF HookTypeOK, Process
    <2> QED BY <1>2, <2>8, <2>9 DEF HookTypeOK, Open, dbVars, historyVars
  <1>3. ASSUME NEW h \in Hook, OpenTimeout(h) \/ Close(h) \/ Kill(h) PROVE HookTypeOK'
    BY <1>3, ProcessEnds DEF HookTypeOK, dbVars
  <1>4. ASSUME NEW h \in Hook, Read(h) PROVE HookTypeOK'
    <2>1. hook[h] \in Process /\ model \in Model
      BY DEF HookTypeOK
    <2>2. hook' \in [Hook -> Process]
      BY <1>4, <2>1 DEF HookTypeOK, Read, Process, Steps
    <2>3. /\ \A g \in Hook : g # h => hook'[g] = hook[g]
          /\ hook'[h].prompt = hook[h].prompt
          /\ hook'[h].step = IF hook[h].prompt.kind = "escalate" THEN "raise"
                             ELSE IF hook[h].prompt.kind = "ask" THEN "turn" ELSE "close"
      BY <1>4, <2>1 DEF HookTypeOK, Read, Process
    <2> QED BY <1>4, <2>2, <2>3 DEF HookTypeOK, Read, dbVars, historyVars
  <1>5. ASSUME NEW h \in Hook, ReadError(h) PROVE HookTypeOK'
    <2>1. "close" \in Steps /\ Kinds("close", h) /\ Go(h, "close")
      BY <1>5 DEF ReadError, Steps
    <2>2. Rest
      BY <1>5 DEF HookTypeOK, ReadError, dbVars, historyVars
    <2> QED BY <1>a, <2>1, <2>2
  <1>6. ASSUME NEW h \in Hook, LogTurn(h) PROVE HookTypeOK'
    <2>1. turns' \in Seq(Model) /\ Len(turns') <= FrustrationWindow
      <3>1. hook[h].read \in Model /\ turns \in Seq(Model) /\ Len(turns) <= FrustrationWindow
        BY DEF HookTypeOK, Process
      <3> QED BY <1>6, <3>1 DEF LogTurn, FrustrationWindow
    <2>2. "decide" \in Steps /\ Kinds("decide", h) /\ Go(h, "decide")
      BY <1>6 DEF HookTypeOK, LogTurn, Steps
    <2>3. Rest
      BY <1>6, <2>1 DEF HookTypeOK, LogTurn, historyVars
    <2> QED BY <1>a, <2>2, <2>3
  <1>7. ASSUME NEW h \in Hook, Hint(h) PROVE HookTypeOK'
    <2>1. "close" \in Steps /\ Kinds("close", h) /\ \E a \in Answers : Finish(h, a)
      BY <1>7 DEF Hint, Hints, Steps, Answers
    <2>2. Rest
      BY <1>7 DEF HookTypeOK, Hint, dbVars, historyVars
    <2> QED BY <1>a, <2>1, <2>2
  <1>8. ASSUME NEW h \in Hook, Settle(h) PROVE HookTypeOK'
    <2>1. Rest
      BY <1>8 DEF HookTypeOK, Settle, dbVars, historyVars
    <2>2. CASE Earned(h)
      <3>1. "session" \in Steps /\ Kinds("session", h) /\ Go(h, "session")
        BY <1>8, <2>2 DEF HookTypeOK, Settle, Steps
      <3> QED BY <1>a, <2>1, <3>1
    <2>3. CASE ~Earned(h)
      <3>1. "close" \in Steps /\ Kinds("close", h) /\ \E a \in Answers : Finish(h, a)
        BY <1>8, <2>3 DEF Settle, Steps, Answers
      <3> QED BY <1>a, <2>1, <3>1
    <2> QED BY <2>2, <2>3
  <1>9. ASSUME NEW h \in Hook, UpdateSession(h) PROVE HookTypeOK'
    <2>1. "lower" \in Steps /\ Kinds("lower", h) /\ Go(h, "lower")
      BY <1>9 DEF HookTypeOK, UpdateSession, Steps
    <2>2. Rest
      BY <1>9 DEF HookTypeOK, UpdateSession
    <2> QED BY <1>a, <2>1, <2>2
  <1>10. ASSUME NEW h \in Hook, Lower(h) PROVE HookTypeOK'
    <2>1. "record" \in Steps /\ Kinds("record", h) /\ Go(h, "record")
      BY <1>10 DEF HookTypeOK, Lower, Steps
    <2>2. Rest
      BY <1>10 DEF HookTypeOK, Lower, Below, Model, dbVars
    <2> QED BY <1>a, <2>1, <2>2
  <1>11. ASSUME NEW h \in Hook, LowerError(h) PROVE HookTypeOK'
    <2>1. "close" \in Steps /\ Kinds("close", h) /\ \E a \in Answers : Finish(h, a)
      BY <1>11 DEF LowerError, Steps, Answers
    <2>2. Rest
      BY <1>11 DEF HookTypeOK, LowerError, dbVars
    <2> QED BY <1>a, <2>1, <2>2
  <1>12. ASSUME NEW h \in Hook, Record(h) \/ RaiseError(h) PROVE HookTypeOK'
    <2>1. "close" \in Steps /\ Kinds("close", h) /\ \E a \in Answers : Finish(h, a)
      BY <1>12 DEF Record, RaiseError, Steps, Answers
    <2>2. Rest
      BY <1>12 DEF HookTypeOK, Record, RaiseError, dbVars, historyVars
    <2> QED BY <1>a, <2>1, <2>2
  <1>13. ASSUME NEW h \in Hook, Raise(h) PROVE HookTypeOK'
    <2>1. "count" \in Steps /\ Kinds("count", h) /\ Go(h, "count")
      BY <1>13 DEF HookTypeOK, Raise, Steps
    <2>2. hook[h].prompt \in Prompt /\ hook[h].prompt.kind = "escalate"
      BY <1>13 DEF HookTypeOK, Raise, Process
    <2>3. hook[h].prompt.target \in Model
      BY <2>2 DEF Prompt, Model
    <2>4. Rest
      BY <1>13, <2>3 DEF HookTypeOK, Raise, dbVars
    <2> QED BY <1>a, <2>1, <2>4
  <1>14. ASSUME NEW h \in Hook, Count(h) PROVE HookTypeOK'
    <2>1. "flag" \in Steps /\ Kinds("flag", h) /\ Go(h, "flag")
      BY <1>14 DEF HookTypeOK, Count, Steps
    <2>2. events' \in [TaskType -> 0..PredictThreshold]
      BY <1>14 DEF HookTypeOK, Count, LogEscalation, PredictThreshold
    <2>3. Rest
      BY <1>14, <2>2 DEF HookTypeOK, Count, historyVars
    <2> QED BY <1>a, <2>1, <2>3
  <1>15. ASSUME NEW h \in Hook, Flag(h) PROVE HookTypeOK'
    <2>1. "close" \in Steps /\ Kinds("close", h) /\ \E a \in Answers : Finish(h, a)
      BY <1>15 DEF Flag, Steps, Answers
    <2>2. Rest
      BY <1>15 DEF HookTypeOK, Flag
    <2> QED BY <1>a, <2>1, <2>2
  <1>16. ASSUME NEW m \in Outside, OutsideWrite(m) PROVE HookTypeOK'
    <2>1. \A h \in Hook : hook[h] \in Process
      BY DEF HookTypeOK
    <2>2. \A h \in Hook, b \in BOOLEAN : [hook[h] EXCEPT !.stale = b] \in Process
      BY <2>1 DEF Process
    <2>3. \A h \in Hook : (hook[h].step \in After) \in BOOLEAN
      OBVIOUS
    <2>4. hook' = [h \in Hook |-> [hook[h] EXCEPT !.stale = hook[h].step \in After]]
      BY <1>16 DEF OutsideWrite
    <2>5. \A h \in Hook : /\ hook'[h] \in Process
                          /\ hook'[h].step = hook[h].step
                          /\ hook'[h].prompt = hook[h].prompt
      <3> SUFFICES ASSUME NEW h \in Hook
                   PROVE  /\ hook'[h] \in Process
                          /\ hook'[h].step = hook[h].step
                          /\ hook'[h].prompt = hook[h].prompt
        OBVIOUS
      <3>1. hook'[h] = [hook[h] EXCEPT !.stale = hook[h].step \in After]
        BY <2>4
      <3>2. hook'[h] \in Process
        BY <2>2, <2>3, <3>1
      <3>3. hook'[h].step = hook[h].step /\ hook'[h].prompt = hook[h].prompt
        BY <2>1, <3>1 DEF Process
      <3> QED BY <3>2, <3>3
    <2>6. hook' \in [Hook -> Process]
      BY <2>4, <2>5
    <2> QED BY <1>16, <2>5, <2>6, HookAssumption DEF HookTypeOK, OutsideWrite, dbVars
  <1>17. CASE OtherOpen \/ OtherClose
    BY <1>17 DEF HookTypeOK, OtherOpen, OtherClose, dbVars, historyVars
  <1>18. CASE UNCHANGED vars
    BY <1>18 DEF HookTypeOK, vars
  <1> QED
    BY <1>1, <1>2, <1>3, <1>4, <1>5, <1>6, <1>7, <1>8, <1>9, <1>10, <1>11, <1>12,
       <1>13, <1>14, <1>15, <1>16, <1>17, <1>18 DEF Next, Run

\* While h holds the database every other process waits for it or is gone.
LEMMA OthersWait ==
  ASSUME Serial, NEW h \in Hook, hook[h].step \notin {"idle", "open"}
  PROVE  holder = h /\ \A g \in Hook : g # h => hook[g].step \in {"idle", "open"}
  BY DEF Serial

\* The inductive invariant follows from what a step makes of the process that
\* takes it, when that process holds the database before and after.
LEMMA HolderStep ==
  ASSUME IInv, HookTypeOK', NEW h \in Hook,
         hook[h].step \notin {"idle", "open"}, hook'[h].step \notin {"idle", "open"},
         holder' = holder,
         \A g \in Hook : g # h => hook'[g] = hook[g],
         hook'[h].step \in {"turn", "decide", "session", "lower"} /\ ~hook'[h].stale =>
           hook'[h].read = model',
         hook'[h].step \in {"session", "lower"} => Tier(hook'[h].read) > 1,
         hook'[h].step = "lower" /\ hook'[h].read = "opus" => active',
         origin' # "outside" /\ Tier(model') > 1 =>
           active' \/ lost' \/ hook'[h].step \in Between
  PROVE  IInv'
  <1>1. holder = h /\ \A g \in Hook : g # h => hook[g].step \in {"idle", "open"}
    BY OthersWait DEF IInv
  <1>2. Serial'
    BY <1>1 DEF Serial
  <1>3. ReadIsCurrent'
    BY <1>1 DEF ReadIsCurrent
  <1>4. StepsFromExpensive'
    BY <1>1 DEF StepsFromExpensive
  <1>5. OpusKeepsSession'
    BY <1>1 DEF OpusKeepsSession
  <1>6. SessionKept'
    BY DEF SessionKept
  <1> QED BY <1>2, <1>3, <1>4, <1>5, <1>6 DEF IInv

\* Between the two writes of a handler there is only the process that holds
\* the database: if it is not there, the session is kept.
LEMMA KeptUnlessBetween ==
  ASSUME IInv, NEW h \in Hook, hook[h].step \notin {"idle", "open"}
  PROVE  origin # "outside" /\ Tier(model) > 1 =>
           active \/ lost \/ hook[h].step \in Between
  BY OthersWait DEF IInv, SessionKept, Between

\* Every step keeps the inductive invariant.
LEMMA IInvStep == IInv /\ [Next]_vars => IInv'
  <1> SUFFICES ASSUME IInv, [Next]_vars PROVE IInv'
    OBVIOUS
  <1>t. HookTypeOK /\ HookTypeOK'
    BY TypeStep DEF IInv
  <1>s. \A h \in Hook : hook[h].read \in Model /\ hook[h].stale \in BOOLEAN
    BY <1>t DEF HookTypeOK, Process
  <1>1. ASSUME NEW h \in Hook, Start(h) PROVE IInv'
    <2>1. /\ hook'[h].step = "open" /\ hook[h].step = "idle"
          /\ \A g \in Hook : g # h => hook'[g] = hook[g]
      BY <1>1, <1>t, ProcessMoves DEF Start, Steps
    <2>2. UNCHANGED <<model, holder, active, origin, lost>>
      BY <1>1 DEF Start, dbVars, historyVars
    <2>3. \A g \in Hook : hook'[g].step # "open" => hook'[g] = hook[g]
      BY <2>1
    <2>4. Serial' /\ ReadIsCurrent' /\ StepsFromExpensive' /\ OpusKeepsSession'
      BY <2>1, <2>2, <2>3 DEF IInv, Serial, ReadIsCurrent, StepsFromExpensive,
         OpusKeepsSession
    <2>5. SessionKept'
      BY <2>1, <2>2 DEF IInv, SessionKept, Between
    <2> QED BY <1>t, <2>4, <2>5 DEF IInv
  <1>2. ASSUME NEW h \in Hook, Open(h) PROVE IInv'
    <2>1. /\ hook[h].step = "open" /\ holder = Free /\ holder' = h
          /\ UNCHANGED <<model, active, origin, lost>>
      BY <1>2 DEF Open, dbVars, historyVars
    <2>2. hook'[h].step = "read" /\ \A g \in Hook : g # h => hook'[g] = hook[g]
      <3>1. hook \in [Hook -> Process] /\ hook[h] \in Process
        BY <1>t DEF HookTypeOK
      <3>2. PICK p \in Prompts :
              hook' = [hook EXCEPT ![h].step = "read", ![h].prompt = p,
                                   ![h].last = IF p.kind = "ask" THEN p.task ELSE @]
        BY <1>2 DEF Open
      <3> QED BY <3>1, <3>2 DEF Process
    <2>3. \A g \in Hook : hook[g].step \in {"idle", "open"}
      BY <2>1, HookAssumption DEF IInv, Serial
    <2>4. Serial' /\ ReadIsCurrent' /\ StepsFromExpensive' /\ OpusKeepsSession'
      BY <2>1, <2>2, <2>3 DEF Serial, ReadIsCurrent, StepsFromExpensive, OpusKeepsSession
    <2>5. SessionKept'
      BY <2>1, <2>3 DEF IInv, SessionKept, Between
    <2> QED BY <1>t, <2>4, <2>5 DEF IInv
  <1>3. ASSUME NEW h \in Hook, OpenTimeout(h) \/ Close(h) \/ Kill(h) PROVE IInv'
    <2>1. /\ hook'[h].step = "idle"
          /\ \A g \in Hook : g # h => hook'[g] = hook[g]
          /\ UNCHANGED <<model, active, origin>>
      BY <1>3, <1>t, ProcessEnds DEF dbVars
    <2>2. holder' = IF holder = h THEN Free ELSE holder
      BY <1>3, HookAssumption DEF IInv, Serial, OpenTimeout, Close, Kill
    <2>3. Serial'
      BY <2>1, <2>2, HookAssumption DEF IInv, Serial
    <2>4. ReadIsCurrent' /\ StepsFromExpensive' /\ OpusKeepsSession'
      BY <2>1 DEF IInv, ReadIsCurrent, StepsFromExpensive, OpusKeepsSession
    <2>5. /\ lost => lost'
          /\ hook[h].step \in Between => active \/ lost'
      <3>1. CASE OpenTimeout(h) \/ Close(h)
        <4>1. hook[h].step \in {"open", "close"} /\ lost' = lost
          BY <3>1 DEF OpenTimeout, Close, historyVars
        <4> QED BY <4>1 DEF Between
      <3>2. CASE Kill(h)
        <4>1. lost' = (lost \/ (hook[h].step \in Between /\ ~active))
          BY <3>2 DEF Kill
        <4> QED BY <4>1
      <3> QED BY <1>3, <3>1, <3>2
    <2>6. SessionKept'
      BY <2>1, <2>5 DEF IInv, SessionKept
    <2> QED BY <1>t, <2>3, <2>4, <2>6 DEF IInv
  <1>4. ASSUME NEW h \in Hook, Read(h) PROVE IInv'
    <2>1. hook \in [Hook -> Process] /\ hook[h] \in Process
      BY <1>t DEF HookTypeOK
    <2>2. /\ \A g \in Hook : g # h => hook'[g] = hook[g]
          /\ hook'[h].read = model
          /\ hook'[h].step \in {"raise", "turn", "close"}
      BY <1>4, <2>1 DEF Read, Process
    <2>3. hook[h].step = "read" /\ UNCHANGED <<model, holder, active, origin, lost>>
      BY <1>4 DEF Read, dbVars, historyVars
    <2> QED BY <1>t, <2>2, <2>3, HolderStep, KeptUnlessBetween DEF Between
  <1>5. ASSUME NEW h \in Hook,
               ReadError(h) \/ LogTurn(h) \/ Hint(h) \/ Record(h) \/ RaiseError(h)
        PROVE  IInv'
    <2>1. /\ hook[h].step \in {"read", "turn", "decide", "record", "raise"}
          /\ UNCHANGED <<model, holder, active, origin, lost>>
      BY <1>5 DEF ReadError, LogTurn, Hint, Record, RaiseError, dbVars, historyVars
    <2>2. \/ hook[h].step = "turn" /\ Go(h, "decide")
          \/ Go(h, "close") \/ \E a \in Answers : Finish(h, a)
      BY <1>5 DEF ReadError, LogTurn, Hint, Hints, Record, RaiseError, Answers
    <2>3. /\ \A g \in Hook : g # h => hook'[g] = hook[g]
          /\ hook'[h].read = hook[h].read /\ hook'[h].stale = hook[h].stale
          /\ \/ hook[h].step = "turn" /\ hook'[h].step = "decide"
             \/ hook'[h].step = "close"
      <3> "decide" \in Steps /\ "close" \in Steps
        BY DEF Steps
      <3> QED BY <2>2, <1>t, ProcessMoves
    <2>4. hook[h].step = "turn" /\ ~hook[h].stale => hook[h].read = model
      BY DEF IInv, ReadIsCurrent
    <2> QED BY <1>t, <2>1, <2>3, <2>4, HolderStep, KeptUnlessBetween DEF Between
  <1>6. ASSUME NEW h \in Hook, Settle(h) PROVE IInv'
    <2>1. hook[h].step = "decide" /\ UNCHANGED <<model, holder, active, origin, lost>>
      BY <1>6 DEF Settle, dbVars, historyVars
    <2>2. \/ Tier(hook[h].read) > 1 /\ Go(h, "session")
          \/ \E a \in Answers : Finish(h, a)
      BY <1>6 DEF Settle, Earned, Answers
    <2>3. /\ \A g \in Hook : g # h => hook'[g] = hook[g]
          /\ hook'[h].read = hook[h].read /\ hook'[h].stale = hook[h].stale
          /\ \/ Tier(hook[h].read) > 1 /\ hook'[h].step = "session"
             \/ hook'[h].step = "close"
      <3> "session" \in Steps /\ "close" \in Steps
        BY DEF Steps
      <3> QED BY <2>2, <1>t, ProcessMoves
    <2>4. ~hook[h].stale => hook[h].read = model
      BY <2>1 DEF IInv, ReadIsCurrent
    <2> QED BY <1>t, <2>1, <2>3, <2>4, HolderStep, KeptUnlessBetween DEF Between
  <1>7. ASSUME NEW h \in Hook, UpdateSession(h) PROVE IInv'
    <2>1. /\ hook[h].step = "session" /\ UNCHANGED <<model, holder, origin>>
          /\ active' = (hook[h].read = "opus")
      BY <1>7 DEF UpdateSession
    <2>2. /\ \A g \in Hook : g # h => hook'[g] = hook[g]
          /\ hook'[h].read = hook[h].read /\ hook'[h].stale = hook[h].stale
          /\ hook'[h].step = "lower"
      BY <1>7, <1>t, ProcessMoves DEF UpdateSession, Steps
    <2>3. /\ ~hook[h].stale => hook[h].read = model
          /\ Tier(hook[h].read) > 1
      BY <2>1 DEF IInv, ReadIsCurrent, StepsFromExpensive
    <2> QED BY <1>t, <2>1, <2>2, <2>3, HolderStep DEF Between
  <1>8. ASSUME NEW h \in Hook, Lower(h) PROVE IInv'
    <2>1. /\ hook[h].step = "lower" /\ model' = Below(hook[h].read)
          /\ UNCHANGED <<holder, active, lost>>
      BY <1>8 DEF Lower, dbVars
    <2>2. (\A g \in Hook : g # h => hook'[g] = hook[g]) /\ hook'[h].step = "record"
      BY <1>8, <1>t, ProcessMoves DEF Lower, Steps
    <2>3. /\ Tier(hook[h].read) > 1
          /\ hook[h].read = "opus" => active
      BY <2>1 DEF IInv, StepsFromExpensive, OpusKeepsSession
    <2>4. Tier(model') > 1 => active'
      BY <2>1, <2>3, Tiers DEF Below
    <2> QED BY <1>t, <2>1, <2>2, <2>4, HolderStep
  <1>9. ASSUME NEW h \in Hook, LowerError(h) PROVE IInv'
    <2>1. /\ hook[h].step = "lower" /\ UNCHANGED <<model, holder, active, origin>>
          /\ active \/ lost'
      BY <1>9 DEF LowerError, dbVars
    <2>2. (\A g \in Hook : g # h => hook'[g] = hook[g]) /\ hook'[h].step = "close"
      BY <1>9, <1>t, ProcessMoves DEF LowerError, Steps, Answers
    <2> QED BY <1>t, <2>1, <2>2, HolderStep
  <1>10. ASSUME NEW h \in Hook, Raise(h) \/ Count(h) PROVE IInv'
    <2>1. /\ hook[h].step \in {"raise", "count"} /\ holder' = holder
          /\ \/ Go(h, "count") \/ Go(h, "flag")
      BY <1>10 DEF Raise, Count
    <2>2. /\ \A g \in Hook : g # h => hook'[g] = hook[g]
          /\ hook'[h].step \in {"count", "flag"}
      <3> "count" \in Steps /\ "flag" \in Steps
        BY DEF Steps
      <3> QED BY <2>1, <1>t, ProcessMoves
    <2> QED BY <1>t, <2>1, <2>2, HolderStep DEF Between
  <1>11. ASSUME NEW h \in Hook, Flag(h) PROVE IInv'
    <2>1. hook[h].step = "flag" /\ active' /\ UNCHANGED <<model, holder, origin>>
      BY <1>11 DEF Flag
    <2>2. (\A g \in Hook : g # h => hook'[g] = hook[g]) /\ hook'[h].step = "close"
      BY <1>11, <1>t, ProcessMoves DEF Flag, Steps, Answers
    <2> QED BY <1>t, <2>1, <2>2, HolderStep
  <1>12. ASSUME NEW m \in Outside, OutsideWrite(m) PROVE IInv'
    <2>1. /\ UNCHANGED <<holder, active, lost>> /\ origin' = "outside"
          /\ hook' = [h \in Hook |-> [hook[h] EXCEPT !.stale = hook[h].step \in After]]
      BY <1>12 DEF OutsideWrite, dbVars
    <2>2. \A h \in Hook : hook[h] \in Process
      BY <1>t DEF HookTypeOK
    <2>3. \A h \in Hook : /\ hook'[h].step = hook[h].step
                          /\ hook'[h].read = hook[h].read
                          /\ hook[h].step \in After => hook'[h].stale
      BY <2>1, <2>2 DEF Process
    <2>4. ReadIsCurrent'
      BY <2>2, <2>3 DEF ReadIsCurrent, After, Process, Steps
    <2>5. Serial' /\ StepsFromExpensive' /\ OpusKeepsSession'
      BY <2>1, <2>3 DEF IInv, Serial, StepsFromExpensive, OpusKeepsSession
    <2>6. SessionKept'
      BY <2>1 DEF SessionKept
    <2> QED BY <1>t, <2>4, <2>5, <2>6 DEF IInv
  <1>13. CASE OtherOpen \/ OtherClose
    <2>1. /\ UNCHANGED <<model, active, hook, origin, lost>>
          /\ holder \in {Free, Other} /\ holder' \in {Free, Other}
      BY <1>13 DEF OtherOpen, OtherClose, dbVars, historyVars
    <2>2. Serial'
      BY <2>1, HookAssumption DEF IInv, Serial
    <2> QED BY <1>t, <2>1, <2>2 DEF IInv, ReadIsCurrent, StepsFromExpensive,
            OpusKeepsSession, SessionKept
  <1>14. CASE UNCHANGED vars
    BY <1>t, <1>14 DEF vars, dbVars, IInv, Serial, ReadIsCurrent, StepsFromExpensive,
       OpusKeepsSession, SessionKept
  <1> QED
    BY <1>1, <1>2, <1>3, <1>4, <1>5, <1>6, <1>7, <1>8, <1>9, <1>10, <1>11, <1>12,
       <1>13, <1>14 DEF Next, Run
-----------------------------------------------------------------------------
\* The inductive invariant holds always.
LEMMA Inductive == Spec => []IInv
  BY InitIInv, IInvStep, PTL DEF Spec

\* The hooks, the database and the settings keep their types (main.go, runHook).
THEOREM HookTypeCorrect == Spec => []HookTypeOK
  <1>1. IInv => HookTypeOK
    BY DEF IInv
  <1> QED BY <1>1, Inductive, PTL

\* A model above Haiku that handleEscalate or handleDeEscalate set has an
\* active session, unless a handler is, or was stopped, between its writes.
THEOREM SessionIsKept == Spec => []SessionKept
  <1>1. IInv => SessionKept
    BY DEF IInv
  <1> QED BY <1>1, Inductive, PTL

\* handleDeEscalate steps the model down by one tier, whatever other hooks did.
THEOREM StepsDownByOne == Spec => DowngradeIsOneTier
  <1>1. IInv /\ [Next]_vars =>
          [\A h \in Hook :
             hook[h].step = "lower" /\ hook'[h].step = "record" /\ ~hook[h].stale =>
               Tier(model') = Tier(model) - 1]_vars
    <2> SUFFICES ASSUME IInv, [Next]_vars, NEW h \in Hook,
                        hook[h].step = "lower", hook'[h].step = "record", ~hook[h].stale
                 PROVE  Tier(model') = Tier(model) - 1
      OBVIOUS
    <2>1. hook[h].read = model /\ Tier(model) > 1 /\ model \in Model
      BY DEF IInv, ReadIsCurrent, StepsFromExpensive, HookTypeOK
    <2>2. Lower(h)
      <3>t. HookTypeOK /\ hook \in [Hook -> Process] /\ hook[h] \in Process
        BY DEF IInv, HookTypeOK
      <3>1. ~UNCHANGED hook
        OBVIOUS
      <3>2. ASSUME NEW g \in Hook, g # h, Start(g) \/ Run(g) \/ Kill(g) PROVE FALSE
        <4>1. hook'[h] = hook[h]
          BY <3>t, <3>2 DEF Start, Run, Open, OpenTimeout, Read, ReadError, LogTurn,
             Hint, Settle, UpdateSession, Lower, LowerError, Record, Raise, RaiseError,
             Count, Flag, Close, Kill, Go, Finish
        <4> QED BY <4>1
      <3>3. ASSUME Start(h) \/ Run(h), ~Lower(h) PROVE FALSE
        <4>1. LowerError(h)
          BY <3>3 DEF Start, Run, Open, OpenTimeout, Read, ReadError, LogTurn,
             Hint, Settle, UpdateSession, Record, Raise, RaiseError, Count, Flag, Close
        <4>2. hook'[h].step = "close"
          BY <4>1, <3>t, ProcessMoves DEF LowerError, Steps, Answers
        <4> QED BY <4>2
      <3>4. ASSUME Kill(h) PROVE FALSE
        <4>1. hook'[h].step = "idle"
          BY <3>4, <3>t, ProcessEnds
        <4> QED BY <4>1
      <3>5. ASSUME NEW m \in Outside, OutsideWrite(m) PROVE FALSE
        <4>1. hook'[h].step = hook[h].step
          BY <3>t, <3>5 DEF OutsideWrite, Process
        <4> QED BY <4>1
      <3> QED
        BY <3>1, <3>2, <3>3, <3>4, <3>5 DEF Next, OtherOpen, OtherClose, vars
    <2>3. model' = Below(model)
      BY <2>1, <2>2 DEF Lower
    <2> QED BY <2>1, <2>3, Tiers
  <1> QED BY <1>1, Inductive, PTL DEF DowngradeIsOneTier, Spec

\* For any sessions and prompts, whatever is killed: the model goes up only when the
\* user escalates or Claude Code writes it, or when handleDeEscalate steps down from a
\* model that Claude Code has replaced since it was read.
THEOREM OnlyRequestsRaise == Spec => RaisedOnRequest
  <1> DEFINE Asked ==
        \/ origin' = "outside"
        \/ \E h \in Hook : /\ hook'[h].step # hook[h].step
                          /\ \/ hook[h].step = "raise" /\ model' = hook[h].prompt.target
                             \/ hook[h].step = "lower" /\ hook[h].stale
  <1>1. IInv /\ [Next]_vars => [Tier(model') > Tier(model) => Asked]_vars
    <2> SUFFICES ASSUME IInv, [Next]_vars, Tier(model') > Tier(model) PROVE Asked
      OBVIOUS
    <2>t. HookTypeOK /\ model \in Model /\ \A h \in Hook : hook[h] \in Process
      BY DEF IInv, HookTypeOK
    <2>1. model' # model
      BY <2>t DEF Tier
    <2>2. ASSUME NEW h \in Hook, Raise(h) PROVE Asked
      <3>1. hook'[h].step = "count"
        BY <2>t, <2>2, ProcessMoves DEF Raise, Steps
      <3>2. hook[h].step = "raise" /\ model' = hook[h].prompt.target
        BY <2>2 DEF Raise
      <3> QED BY <3>1, <3>2
    <2>3. ASSUME NEW h \in Hook, Lower(h) PROVE Asked
      <3>1. hook[h].step = "lower" /\ hook'[h].step = "record" /\ model' = Below(hook[h].read)
        BY <2>t, <2>3, ProcessMoves DEF Lower, Steps
      <3>2. ~hook[h].stale => hook[h].read = model /\ Tier(model) > 1
        BY <3>1 DEF IInv, ReadIsCurrent, StepsFromExpensive
      <3>3. hook[h].stale
        BY <2>t, <3>1, <3>2, Tiers
      <3> QED BY <3>1, <3>3
    <2>4. ASSUME NEW m \in Outside, OutsideWrite(m) PROVE Asked
      BY <2>4 DEF OutsideWrite
    <2>5. \/ \E h \in Hook : Raise(h) \/ Lower(h)
          \/ \E m \in Outside : OutsideWrite(m)
      BY <2>1 DEF Next, Run, vars, dbVars, historyVars, Start, Open, OpenTimeout, Read, ReadError,
         LogTurn, Hint, Settle, UpdateSession, LowerError, Record, RaiseError, Count, Flag, Close,
         Kill, OtherOpen, OtherClose
    <2> QED BY <2>2, <2>3, <2>4, <2>5
  <1> QED BY <1>1, Inductive, PTL DEF RaisedOnRequest, Spec

\* For any sessions: the model goes down tier by tier and up on request only.
THEOREM ModelMovesOnRequest == Spec => ModelMovesRight
BY StepsDownByOne, OnlyRequestsRaise DEF ModelMovesRight
=============================================================================
