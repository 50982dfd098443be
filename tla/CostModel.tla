----------------------------- MODULE CostModel ------------------------------
(***************************************************************************)
(* internal/costs and internal/budgets: the price of a request, the budget  *)
(* that admits it and keeps what was spent.  Money is counted               *)
(* in twentieths of a cent per million tokens, in which every price is an   *)
(* integer.                                                                *)
(***************************************************************************)
EXTENDS Integers, FiniteSets, FiniteSetsExt, Sums

CONSTANTS
  DailyLimit, MonthlyLimit,   \* of the budget
  OpusLimit,                  \* the one model with a limit of its own
  Cost,                       \* costs of single requests
  Count,                      \* numbers of tokens a request may have of each sort
  MaxMoney                    \* bound on what is recorded

ASSUME CostAssumption ==
  /\ Cost \subseteq Nat \ {0} /\ Count \subseteq Nat
  /\ {DailyLimit, MonthlyLimit, OpusLimit, MaxMoney} \subseteq Nat

Models == {"haiku", "sonnet", "opus"}
NoModel == "none"   \* a use recorded with an empty model name

VARIABLES
  used,     \* BudgetState: [daily, monthly, model]
  strict,   \* history: only what was admitted has been recorded
  unnamed,  \* history: what was recorded without a model
  quoted    \* the last request priced: its tokens and each model's breakdown

costVars == <<used, strict, unnamed, quoted>>
-----------------------------------------------------------------------------
(* Prices: getModelRates and CalculateCost                                  *)

Rate == [haiku |-> [in |-> 80, out |-> 400], sonnet |-> [in |-> 300, out |-> 1500],
         opus |-> [in |-> 1500, out |-> 7500]]

\* Cache reads cost 0.30 and writes 1.20 of the input rate, a batch half.
Undiscounted(m, t) ==
  20 * (t.in * Rate[m].in + t.out * Rate[m].out)
  + (IF t.cached THEN (6 * t.read + 24 * t.write) * Rate[m].in ELSE 0)
TotalCost(m, t) == Undiscounted(m, t) \div (IF t.batch THEN 2 ELSE 1)
BatchSavings(m, t) == IF t.batch THEN Undiscounted(m, t) \div 2 ELSE 0

\* The baseline of the savings has its own copy of the formula.
OpusBaseline(t) ==
  LET tokens == 20 * (t.in * Rate["opus"].in + t.out * Rate["opus"].out)
      cache == IF t.cached THEN t.read * Rate["opus"].in * 6 + t.write * Rate["opus"].in * 24 ELSE 0
  IN (tokens + cache) \div (IF t.batch THEN 2 ELSE 1)
SavingsVsOpus(m, t) == IF m = "opus" THEN 0 ELSE OpusBaseline(t) - TotalCost(m, t)
-----------------------------------------------------------------------------
(* The budget engine, with a hard limit                                     *)

Cheaper(m) == IF m = "opus" THEN "sonnet" ELSE "haiku"

\* CheckBudget: the limits a cost would exceed.  A limit of zero is no limit's
\* absence: it refuses everything.
Violations(m, c) ==
  (IF used.daily + c > DailyLimit THEN {"daily"} ELSE {})
  \cup (IF used.monthly + c > MonthlyLimit THEN {"monthly"} ELSE {})
  \cup (IF m = "opus" /\ used.model[m] + c > OpusLimit THEN {"model"} ELSE {})
CheckBudget(m, c) ==
  [allowed |-> Violations(m, c) = {},
   recommended |-> IF Violations(m, c) = {} THEN m ELSE Cheaper(m),
   warning |-> LET spent == 20 * (used.daily + c) IN
     IF spent > 18 * DailyLimit THEN 3 ELSE IF spent > 15 * DailyLimit THEN 2
     ELSE IF spent > 10 * DailyLimit THEN 1 ELSE 0]

\* Faulty variant: the model's share of a use is not recorded.
SpendUnattributed(m, c) ==
  /\ used.monthly + c <= MaxMoney
  /\ used' = [used EXCEPT !.daily = @ + c, !.monthly = @ + c]

\* RecordUsage: nothing ever resets the daily amount.  A use without a model counts
\* for the day and the month only.
Spend(m, c) ==
  /\ used.monthly + c <= MaxMoney
  /\ used' = [daily |-> used.daily + c, monthly |-> used.monthly + c,
              model |-> IF m = NoModel THEN used.model ELSE [used.model EXCEPT ![m] = @ + c]]

Unnamed(m, c) == unnamed' = IF m = NoModel THEN unnamed + c ELSE unnamed
\* One caller asks and then records; another records what it never asked for.
SpendAdmitted(m, c) == CheckBudget(m, c).allowed /\ Spend(m, c) /\ Unnamed(m, c) /\ UNCHANGED strict
SpendUnasked(m, c) ==
  Spend(m, c) /\ Unnamed(m, c) /\ strict' = (strict /\ CheckBudget(m, c).allowed)
-----------------------------------------------------------------------------
(* CompareCosts of the batch calculator prices a request twice              *)

Compared(m, t) ==
  LET regular == TotalCost(m, [t EXCEPT !.batch = FALSE, !.cached = FALSE])
      batch == TotalCost(m, [t EXCEPT !.batch = TRUE, !.cached = FALSE])
  IN [regular |-> regular, batch |-> batch, savings |-> regular - batch]

\* CalculateCost for every model (CompareModels), once as it is and once not in a batch.
Breakdown(m, t) ==
  [total |-> TotalCost(m, t), plain |-> TotalCost(m, [t EXCEPT !.batch = FALSE]),
   vsOpus |-> SavingsVsOpus(m, t), batchSavings |-> BatchSavings(m, t), compared |-> Compared(m, t)]
Tokens == [in : Count, out : Count, read : Count, write : Count, cached : BOOLEAN, batch : BOOLEAN]
Quote ==
  /\ quoted = <<>>
  /\ \E t \in Tokens : quoted' = [t |-> t, by |-> [m \in Models |-> Breakdown(m, t)]]
  /\ UNCHANGED <<used, strict, unnamed>>

CostInit ==
  /\ used = [daily |-> 0, monthly |-> 0, model |-> [m \in Models |-> 0]]
  /\ strict = TRUE /\ unnamed = 0
  /\ quoted = <<>>
CostNext ==
  \/ Quote
  \/ \E m \in Models \cup {NoModel}, c \in Cost :
       (SpendAdmitted(m, c) \/ SpendUnasked(m, c)) /\ UNCHANGED quoted
CostSpec == CostInit /\ [][CostNext]_costVars
-----------------------------------------------------------------------------
(* What must hold                                                          *)

\* The budget's own books agree: what the day spent is what the models spent and
\* what was recorded without a model; while only admitted requests are recorded no
\* limit is passed, though uses without a model escape the model's own limit; a
\* refusal for the day comes with the warning of level 3, the highest the code gives
\* although budgets.go:49 names a fourth for it; and the recommendation after a
\* refusal is never a dearer model.
BudgetsHold ==
  /\ used.daily = SumOver(used.model, Models) + unnamed
  /\ strict => /\ used.daily <= DailyLimit /\ used.monthly <= MonthlyLimit
               /\ used.model["opus"] <= OpusLimit
  /\ \A m \in Models, c \in Cost : LET r == CheckBudget(m, c) IN
       /\ "daily" \in Violations(m, c) => r.warning = 3
       /\ Rate[r.recommended].in <= Rate[m].in

\* The savings shown for a request are the difference to what the same request
\* costs with Opus, the batch savings what the discount took off, and a better
\* model is never cheaper, for cached, batched and plain requests.
CostsAgree ==
  quoted # <<>> => LET q == quoted.by IN
    /\ \A m \in Models :
         /\ m # "opus" => q[m].total + q[m].vsOpus = q["opus"].total
         /\ q[m].total + q[m].batchSavings = q[m].plain
         /\ q[m].compared.savings = q[m].compared.batch
    /\ q["haiku"].total <= q["sonnet"].total /\ q["sonnet"].total <= q["opus"].total

\* Both, for the runs.
MoneyAgrees == BudgetsHold /\ CostsAgree
=============================================================================
