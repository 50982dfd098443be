----------------------------- MODULE Telemetry ------------------------------
(***************************************************************************)
(* internal/metrics: the collector's counters, the publisher that saves and  *)
(* exports them, and the token books of a session.  The exporter gets the    *)
(* collector's own records, not copies, and reads them without its lock, one *)
(* counter after another, while requests are being counted.                *)
(***************************************************************************)
EXTENDS Integers, FiniteSets, FiniteSetsExt, Sequences, SequencesExt, Sums

CONSTANTS
  Event,          \* the events counted, among the keys of Bumps
  MaxEvents,      \* bound on the events
  Target,         \* the publishing targets, in the order they were added
  MaxHistorySize, \* snapshots kept
  Layer,          \* optimization types the breakdown knows
  Day,            \* days of the session, 1..n
  Amount          \* tokens of one saving or request

ASSUME TelemetryAssumption ==
  /\ MaxEvents \in Nat /\ MaxHistorySize \in Nat \ {0}
  /\ Target \in Seq(ToSet(Target)) /\ IsFiniteSet(Layer) /\ Amount \subseteq Nat
  /\ IsFiniteSet(Day) /\ Day = 1..Cardinality(Day) /\ Day # {}

\* What each event of the emitter counts; the kinds of cost, latency, quality and
\* gateway status count nothing, "unknown" neither.
Bumps ==
  [hit |-> {"hits"}, miss |-> {"misses"}, false_positive |-> {"falsePositives"},
   input |-> {"input"}, output |-> {"output"}, saved |-> {"saved"}, burned_cost |-> {"input"},
   injection |-> {"injections"}, rate_limit |-> {"rateLimits"},
   validation_failure |-> {"validationFailures"}, unauthorized |-> {"unauthorized"},
   success |-> {"requests"}, error |-> {"requests", "errors"},
   latency |-> {}, quality |-> {}, gateway_status |-> {}, unknown |-> {}]
Counters == UNION {Bumps[e] : e \in DOMAIN Bumps}

\* GetMetrics copies the requests and hands out the rest; ExportJSON reads it in
\* this order.  The errors are never exported.
Exported == <<"hits", "misses", "falsePositives", "input", "output", "saved",
              "injections", "rateLimits", "validationFailures", "unauthorized">>
Publisher == {"loop", "now"}   \* publishOnce of the ticker, PublishNow of a caller
Zero == [c \in Counters |-> 0]
AtRest == [at |-> "idle", next |-> 1, export |-> Zero]

VARIABLES
  live,      \* the collector's counters
  history,   \* metricsHistory
  publisher, \* where each publisher is, and what it has exported so far
  running,   \* the loop of Start: "no", "yes", "told" by Stop or "ended"
  published, \* what each target received last
  books      \* SessionMetrics: today, the daily records and the totals

meterVars == <<live, history, publisher, running, published>>
telemetryVars == <<meterVars, books>>
-----------------------------------------------------------------------------
(* The collector and its publisher                                          *)

\* The Record methods, called by the emitter under the collector's lock.
Record(e) ==
  /\ live.requests + live.hits + live.saved + live.misses < MaxEvents
  /\ live' = [c \in Counters |-> IF c \in Bumps[e] THEN live[c] + 1 ELSE live[c]]
  /\ UNCHANGED <<history, publisher, running, published>>

\* Start and Stop; both are called once.
StartLoop == running = "no" /\ running' = "yes" /\ UNCHANGED <<live, history, publisher, published>>
StopLoop == running = "yes" /\ running' = "told" /\ UNCHANGED <<live, history, publisher, published>>
LoopEnds ==
  /\ running = "told" /\ publisher["loop"].at = "idle"
  /\ running' = "ended"
  /\ UNCHANGED <<live, history, publisher, published>>

Works(p) == publisher[p].at # "idle"
Becomes(p, to) == publisher' = [publisher EXCEPT ![p] = to]
Reading == [AtRest EXCEPT !.at = "read", !.export = [Zero EXCEPT !.requests = live.requests]]

\* Faulty variant: PublishNow exports before it takes the publisher's lock.
BeginUnlocked(p) ==
  /\ ~Works(p)
  /\ p = "loop" => running \in {"yes", "told"}
  /\ Becomes(p, Reading)
  /\ history' = IF p = "loop" THEN Append(history, live) ELSE history
  /\ UNCHANGED <<live, running, published>>

\* Under mp.mu: the loop saves a snapshot, dropping the oldest above the limit, then
\* both export.
Begin(p) ==
  /\ \A q \in Publisher : ~Works(q)
  /\ p = "loop" => running \in {"yes", "told"}
  /\ Becomes(p, Reading)
  /\ history' = IF p # "loop" THEN history
                ELSE IF Len(history) < MaxHistorySize THEN Append(history, live)
                ELSE Append(Tail(history), live)
  /\ UNCHANGED <<live, running, published>>

\* ExportJSON reads the next counter from the live record.
ReadNext(p) ==
  LET me == publisher[p] IN
  /\ me.at = "read"
  /\ Becomes(p, IF me.next > Len(Exported) THEN [me EXCEPT !.at = "send", !.next = 1]
                ELSE [me EXCEPT !.next = @ + 1, !.export = [@ EXCEPT ![Exported[me.next]] = live[Exported[me.next]]]])
  /\ UNCHANGED <<live, history, running, published>>

\* A target takes the export or fails; PublishNow stops at the first failure.
Send(p) ==
  LET me == publisher[p]
      t == Target[me.next] IN
  /\ me.at = "send"
  /\ IF me.next > Len(Target)
     THEN Becomes(p, AtRest) /\ UNCHANGED published
     ELSE \/ /\ published' = [published EXCEPT ![t] = me.export]
             /\ Becomes(p, [me EXCEPT !.next = @ + 1])
          \/ /\ Becomes(p, IF p = "now" THEN AtRest ELSE [me EXCEPT !.next = @ + 1])
             /\ UNCHANGED published
  /\ UNCHANGED <<live, history, running>>

Meter ==
  \/ \E e \in Event : Record(e)
  \/ StartLoop \/ StopLoop \/ LoopEnds
  \/ \E p \in Publisher : Begin(p) \/ ReadNext(p) \/ Send(p)
-----------------------------------------------------------------------------
(* The books of a session                                                   *)

NoDay == [burned |-> 0, saved |-> 0, requests |-> 0, by |-> [l \in Layer |-> 0]]

\* RecordBurnedTokens
Burn(n) ==
  LET plus(b) == [b EXCEPT !.burned = @ + n, !.requests = @ + 1] IN
  books' = [books EXCEPT !.day[books.today] = plus(@), !.total = plus(@)]

\* Faulty variant: the totals know no more layers than the day has seen.
SaveTodayOnly(l, n) ==
  LET plus(b) == [b EXCEPT !.saved = @ + n, !.by = [k \in Layer |-> IF k = l THEN @[k] + n ELSE @[k]]] IN
  books' = [books EXCEPT !.day[books.today] = plus(@), !.total.saved = @ + n]

\* RecordOptimizationSaving and updateBreakdown: of an unknown type only the sum is kept.
Save(l, n) ==
  LET plus(b) == [b EXCEPT !.saved = @ + n, !.by = [k \in Layer |-> IF k = l THEN @[k] + n ELSE @[k]]] IN
  books' = [books EXCEPT !.day[books.today] = plus(@), !.total = plus(@)]

Midnight == books.today < Cardinality(Day) /\ books' = [books EXCEPT !.today = @ + 1]

\* CalculateSavingsPercent, of what there would have been without optimization.
SavingsPercent(b) == IF b.burned = 0 THEN 0 ELSE (100 * b.saved) \div (b.burned + b.saved)

\* ProjectMonthly of the totals, and its confidence in thirtieths: the longer the
\* period the projection rests on, the lower.
Projected(days) ==
  IF days = 0 THEN [burned |-> 0, saved |-> 0, confidence |-> 0]
  ELSE [burned |-> (30 * books.total.burned) \div days, saved |-> (30 * books.total.saved) \div days,
        confidence |-> 30 - days]

Keep ==
  /\ books.total.burned + books.total.saved < MaxEvents
  /\ (\E n \in Amount : Burn(n) \/ \E l \in Layer \cup {"unknown"} : Save(l, n)) \/ Midnight
-----------------------------------------------------------------------------
TelemetryInit ==
  /\ live = Zero /\ history = <<>> /\ running = "no"
  /\ publisher = [p \in Publisher |-> AtRest]
  /\ published = [i \in ToSet(Target) |-> Zero]
  /\ books = [today |-> 1, day |-> [d \in Day |-> NoDay], total |-> NoDay]
TelemetryNext ==
  \/ Meter /\ UNCHANGED books
  \/ Keep /\ UNCHANGED meterVars
TelemetrySpec == TelemetryInit /\ [][TelemetryNext]_telemetryVars
-----------------------------------------------------------------------------
(* What must hold                                                          *)

Covers(a, b) == \A c \in DOMAIN a : a[c] >= b[c]

\* Although the export is read from records that change meanwhile, no target ever
\* receives a counter lower than it has seen, nor one the collector has not reached.
PublishedGrows ==
  [][\A t \in ToSet(Target) :
       Covers(published'[t], published[t]) /\ Covers(live', published'[t])]_telemetryVars

\* Whatever the order of records and midnights, the days add up to the totals, the
\* layers to no more than what was saved, and the percentage is one.
BooksAddUp ==
  /\ books.total.burned = SumOver([d \in Day |-> books.day[d].burned], Day)
  /\ books.total.saved = SumOver([d \in Day |-> books.day[d].saved], Day)
  /\ \A l \in Layer : books.total.by[l] = SumOver([d \in Day |-> books.day[d].by[l]], Day)
  /\ SumOver(books.total.by, Layer) <= books.total.saved
  /\ SavingsPercent(books.total) \in 0..100
  /\ \A n \in 1..30 : Projected(n).saved >= books.total.saved
=============================================================================
