----------------------------- MODULE Analytics ------------------------------
(***************************************************************************)
(* internal/analytics: records saved in four tables by one transaction, and  *)
(* the hourly aggregation of metrics, whose query and upsert are two          *)
(* statements, so that records and other aggregations may come in between.   *)
(***************************************************************************)
EXTENDS Integers, FiniteSets, FiniteSetsExt, Sequences, Sums

CONSTANTS
  Saver,       \* goroutines in SaveRecord
  RecordId,    \* validation ids
  Frustrated,  \* the records with frustration detected
  Cron,        \* invocations of AggregateHourly that may overlap
  LastHour,    \* bound on the clock
  MaxMetrics   \* bound on the metrics of one hour

ASSUME AnalyticsAssumption ==
  /\ Frustrated \subseteq RecordId
  /\ {LastHour, MaxMetrics} \subseteq Nat \ {0}

Tables == <<"records", "sentiment", "budget", "frustration">>
Hours == 1..LastHour
Kinds == {"cached", "batched", "both", "direct"}
NoRow == [total |-> -1]
None == "none"

VARIABLES
  rows,     \* the committed rows of each table, counted by validation id
  saver,    \* the transaction of each saver: its id and the number of its inserts
  hour,     \* the hour it is
  metrics,  \* validation_metrics: how many of each kind in each hour
  hourly,   \* metrics_hourly: the row of each hour
  cron,     \* the hour and the figures an aggregation has read
  late      \* history: hours a metric was stored for after they had ended

recordVars == <<rows, saver>>
bucketVars == <<hour, metrics, hourly, cron, late>>
analyticsVars == <<recordVars, bucketVars>>
-----------------------------------------------------------------------------
(* SaveRecord                                                              *)

NotSaving == [id |-> None, done |-> 0]
Inserts(r) == IF r \in Frustrated THEN 4 ELSE 3

SaveBegin(s, r) ==
  /\ saver[s].id = None
  /\ saver' = [saver EXCEPT ![s] = [id |-> r, done |-> 0]]
  /\ UNCHANGED <<rows, bucketVars>>

\* The database has one writer, and a validation id is the key of its record.
MayInsert(s) ==
  /\ saver[s].id # None /\ saver[s].done < Inserts(saver[s].id)
  /\ saver[s].done = 0 => /\ \A t \in Saver : saver[t].done = 0
                          /\ rows["records"][saver[s].id] = 0

\* Faulty variant: the outcome is stored through the database, not the transaction.
InsertDirectly(s) ==
  /\ MayInsert(s)
  /\ saver' = [saver EXCEPT ![s].done = @ + 1]
  /\ rows' = IF saver[s].done = 1 THEN [rows EXCEPT !["sentiment"][saver[s].id] = 1] ELSE rows
  /\ UNCHANGED bucketVars

Insert(s) ==
  /\ MayInsert(s)
  /\ saver' = [saver EXCEPT ![s].done = @ + 1]
  /\ UNCHANGED <<rows, bucketVars>>

\* An insert, the commit or a helper fails or panics, or the process dies.
Rollback(s) ==
  /\ saver[s].id # None
  /\ saver' = [saver EXCEPT ![s] = NotSaving]
  /\ UNCHANGED <<rows, bucketVars>>

Commit(s) ==
  LET r == saver[s].id IN
  /\ r # None /\ saver[s].done = Inserts(r)
  /\ rows' = [t \in DOMAIN rows |->
       IF \E k \in 1..Inserts(r) : Tables[k] = t THEN [rows[t] EXCEPT ![r] = @ + 1] ELSE rows[t]]
  /\ saver' = [saver EXCEPT ![s] = NotSaving]
  /\ UNCHANGED bucketVars
-----------------------------------------------------------------------------
(* AggregateHourly and EnforceRetention                                     *)

\* A metric of this hour is stored, or one of the last hour arrives late.
StoreMetric(h, k) ==
  /\ h \in {hour - 1, hour} \cap Hours
  /\ SumOver(metrics[h], Kinds) < MaxMetrics
  /\ metrics' = [metrics EXCEPT ![h][k] = @ + 1]
  /\ late' = IF h < hour THEN late \cup {h} ELSE late
  /\ UNCHANGED <<recordVars, hour, hourly, cron>>

HourPasses == hour < LastHour /\ hour' = hour + 1 /\ UNCHANGED <<recordVars, metrics, hourly, cron, late>>

\* The figures of an hour as the SELECT computes them.
Figures(h) ==
  LET m == metrics[h] IN
  [total |-> m["cached"] + m["batched"] + m["both"] + m["direct"],
   hits |-> m["cached"] + m["both"], misses |-> m["batched"] + m["direct"],
   batched |-> m["batched"] + m["both"], direct |-> m["direct"]]

\* The hour before this one is queried,
Query(c) ==
  /\ cron[c].hour = 0 /\ hour > 1
  /\ cron' = [cron EXCEPT ![c] = [hour |-> hour - 1, row |-> Figures(hour - 1)]]
  /\ UNCHANGED <<recordVars, hour, metrics, hourly, late>>

\* and its row inserted or overwritten, unless the aggregation failed or died.
Upsert(c) ==
  /\ cron[c].hour # 0
  /\ hourly' \in {hourly, [hourly EXCEPT ![cron[c].hour] = cron[c].row]}
  /\ cron' = [cron EXCEPT ![c] = [hour |-> 0, row |-> NoRow]]
  /\ UNCHANGED <<recordVars, hour, metrics, late>>

\* EnforceRetention drops the rows before a time.
EnforceRetention(h) ==
  /\ hourly' = [g \in Hours |-> IF g < h THEN NoRow ELSE hourly[g]]
  /\ UNCHANGED <<recordVars, hour, metrics, cron, late>>
-----------------------------------------------------------------------------
AnalyticsInit ==
  /\ rows = [t \in {Tables[k] : k \in 1..4} |-> [r \in RecordId |-> 0]]
  /\ saver = [s \in Saver |-> NotSaving]
  /\ hour = 1
  /\ metrics = [h \in Hours |-> [k \in Kinds |-> 0]]
  /\ hourly = [h \in Hours |-> NoRow]
  /\ cron = [c \in Cron |-> [hour |-> 0, row |-> NoRow]]
  /\ late = {}

SaveNext == \E s \in Saver : (\E r \in RecordId : SaveBegin(s, r)) \/ Insert(s) \/ Rollback(s) \/ Commit(s)
BucketNext ==
  \/ \E h \in Hours, k \in Kinds : StoreMetric(h, k)
  \/ HourPasses
  \/ \E c \in Cron : Query(c) \/ Upsert(c)
  \/ \E h \in Hours : EnforceRetention(h)
AnalyticsSpec == AnalyticsInit /\ [][SaveNext \/ BucketNext]_analyticsVars
-----------------------------------------------------------------------------
(* What must hold                                                          *)

\* Whatever fails, and however savers overlap or try again, a record is in all the
\* tables it belongs to, once, or in none.
RecordsAreWhole ==
  \A r \in RecordId, t \in DOMAIN rows :
    rows[t][r] = IF rows["records"][r] = 1 /\ (t = "frustration" => r \in Frustrated) THEN 1 ELSE 0

\* However aggregations overlap, fail and are repeated, the row of an hour counts
\* every metric of that hour once, unless one was stored after the hour had ended.
BucketsAreExact ==
  \A h \in Hours :
    hourly[h] # NoRow =>
      /\ h < hour
      /\ hourly[h].total = hourly[h].hits + hourly[h].misses
      /\ hourly[h].total <= Figures(h).total
      /\ h \notin late => hourly[h] = Figures(h)

\* Tables filled by several statements, of a transaction or of none, end as if
\* each record and each hour had been stored by one.
AnalyticsIsSound == RecordsAreWhole /\ BucketsAreExact
=============================================================================
