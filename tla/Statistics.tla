----------------------------- MODULE Statistics -----------------------------
(***************************************************************************)
(* internal/analytics: percentiles, the regression and its forecast, the    *)
(* trend test, and the model with the best record, over integers.  A value   *)
(* between two data is kept as a fraction.                                 *)
(***************************************************************************)
EXTENDS Integers, FiniteSets, Sequences, Sums

CONSTANTS
  Points,   \* how many data a sample has, at most
  Level     \* values of a datum

ASSUME StatisticsAssumption == Points \in Nat \ {0, 1} /\ Level \subseteq Nat

VARIABLES
  sample,   \* the data of one call, in order
  days,     \* the day of each datum, counted from the first
  judged    \* the models a task has enough successes with

statisticsVars == <<sample, days, judged>>

Models3 == {"haiku", "sonnet", "opus"}
Sum(f, n) == Totals(f, n)[n]
-----------------------------------------------------------------------------
(* percentile, of a sorted sequence, in hundredths: type 7                   *)

Ascending(d) == \A k \in 1..(Len(d) - 1) : d[k] <= d[k + 1]

\* Faulty variant: ranks count from one.
Percentile100FromOne(d, p) ==
  LET h == Len(d) * p  k == h \div 100 IN
  IF Len(d) = 0 THEN 0
  ELSE IF k >= Len(d) - 1 THEN 100 * d[Len(d)]
  ELSE 100 * d[k + 1] + (h % 100) * (d[k + 2] - d[k + 1])

Percentile100(d, p) ==
  LET h == (Len(d) - 1) * p  k == h \div 100 IN
  IF Len(d) = 0 THEN 0
  ELSE IF k >= Len(d) - 1 THEN 100 * d[Len(d)]
  ELSE 100 * d[k + 1] + (h % 100) * (d[k + 2] - d[k + 1])
-----------------------------------------------------------------------------
(* Train, Predict and DetectTrendChange                                     *)

\* The regression of the data d on the days x: its slope and intercept over det, or
\* det = 0 when it cannot be fitted.
Train(x, d) ==
  LET n == Len(d)
      sx == Sum(x, n)
      sy == Sum(d, n)
      sxy == Sum([k \in 1..n |-> x[k] * d[k]], n)
      sxx == Sum([k \in 1..n |-> x[k] * x[k]], n)
      det == n * (n * sxx - sx * sx)
  IN [det |-> det, slope |-> n * (n * sxy - sx * sy),
      intercept |-> sy * (n * sxx - sx * sx) - sx * (n * sxy - sx * sy)]

\* Predict, i days ahead, over det: it takes the data for daily ones.
Predicted(x, d, i) ==
  LET fit == Train(x, d) IN fit.slope * (Len(d) - 1 + i) + fit.intercept

\* DetectTrendChange at a threshold in percent: the mean of the last third, of two
\* data at least, against that of the others.
TrendChanges(d, percent) ==
  LET n == Len(d)
      recent == IF n \div 3 < 2 THEN 2 ELSE n \div 3
      old == n - recent
      sumOld == Sum(d, old)
      sumNew == Sum([k \in 1..recent |-> d[old + k]], recent)
      shift == sumNew * old - sumOld * recent
  IN n >= 3 /\ sumOld # 0 /\ 100 * (IF shift < 0 THEN -shift ELSE shift) > percent * sumOld * recent

\* GetBestModelForTask: the first of the judged models in the order of their names.
Alphabet == [haiku |-> 1, opus |-> 2, sonnet |-> 3]
Price == [haiku |-> 80, sonnet |-> 300, opus |-> 1500]
BestModelFor(ms) == CHOOSE m \in ms : \A o \in ms : Alphabet[m] <= Alphabet[o]
-----------------------------------------------------------------------------
StatisticsInit == sample = <<>> /\ days = <<>> /\ judged = {}

\* A call on some data, of consecutive days or with a gap after the first.
Sampled ==
  /\ sample = <<>>
  /\ \E n \in 1..Points, gap \in 1..2 :
       /\ sample' \in [1..n -> Level]
       /\ days' = [k \in 1..n |-> IF k = 1 THEN 0 ELSE k + gap - 2]
  /\ judged' \in (SUBSET Models3) \ {{}}
StatisticsSpec == StatisticsInit /\ [][Sampled]_statisticsVars
-----------------------------------------------------------------------------
(* What must hold                                                          *)

OnLine(x, d) == \A k \in 1..(Len(d) - 1) :
  (d[k + 1] - d[k]) * (x[Len(d)] - x[1]) = (d[Len(d)] - d[1]) * (x[k + 1] - x[k])

\* Percentiles rise with their rank from the least to the greatest datum and leave
\* no more than their share of the data above and below; data on two days or more
\* can be fitted; a series of consecutive days on a line is forecast along it; and
\* a constant series has no change of trend.
StatisticsAgree ==
  LET n == Len(sample)  fit == Train(days, sample) IN
  /\ n > 0 /\ Ascending(sample) =>
       /\ Percentile100(sample, 0) = 100 * sample[1]
       /\ Percentile100(sample, 100) = 100 * sample[n]
       /\ \A p, q \in {0, 50, 75, 90, 95, 99, 100} :
            p <= q => Percentile100(sample, p) <= Percentile100(sample, q)
       /\ \A p \in {50, 75, 90, 95, 99} :
            LET above == {k \in 1..n : 100 * sample[k] > Percentile100(sample, p)}
                below == {k \in 1..n : 100 * sample[k] < Percentile100(sample, p)}
            IN /\ above # {} => 100 * (Cardinality(above) - 1) < (100 - p) * (n - 1)
               /\ below # {} => 100 * (Cardinality(below) - 1) < p * (n - 1)
  /\ n > 1 => fit.det > 0
  /\ n > 1 /\ days[n] = n - 1 /\ OnLine(days, sample) =>
       \A i \in 1..3 : Predicted(days, sample, i) * (n - 1)
                         = fit.det * (sample[n] * (n - 1) + (sample[n] - sample[1]) * i)
  /\ (\A k \in 1..n : sample[k] = sample[1]) => ~TrendChanges(sample, 0)

\* task_accuracy.go:116 "GetBestModelForTask finds the cheapest model with >80%
\* success rate for a task": it finds the first in alphabetical order.
BestIsCheapest == judged # {} => \A m \in judged : Price[BestModelFor(judged)] <= Price[m]
=============================================================================
