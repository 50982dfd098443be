---- MODULE PartsProofs ----
(***************************************************************************)
(* Proofs about the components that share nothing with another, each for   *)
(* any values of its constants.                                            *)
(***************************************************************************)
EXTENDS PrioritySort, PollerLifecycle, RoutingRules, RateLimiter, ModelStore, Telemetry,
        ToolCalls, Analytics, Statistics, StatusLine,
        FunctionTheorems, FiniteSetTheorems, SequenceTheorems, WellFoundedInduction, TLAPS

(* Lemmas about data                                                       *)

\* A set of numbers has a least element.
LEMMA LeastNumber ==
  ASSUME NEW T \in SUBSET Nat, T # {}
  PROVE  \E m \in T : \A n \in T : m <= n
<1> DEFINE R == {p \in Nat \X Nat : p[1] < p[2]}
<1>1. IsWellFoundedOn(R, Nat)
  BY NatLessThanWellFounded DEF OpToRel
<1> HIDE DEF R
<1>2. PICK m \in T : \A n \in T : ~(<<n, m>> \in R)
  BY <1>1, WFMin
<1>3. ASSUME NEW n \in T, n < m PROVE FALSE
  BY <1>2, <1>3 DEF R
<1> QED
  BY <1>3

\* Min chooses it.
LEMMA MinOfNumbers ==
  ASSUME NEW T \in SUBSET Nat, T # {}
  PROVE  Min(T) \in T /\ \A n \in T : Min(T) <= n
BY LeastNumber DEF Min

LEMMA MinOfInts ==
  ASSUME NEW x \in Int, NEW y \in Int
  PROVE  Min({x, y}) = IF x <= y THEN x ELSE y
BY DEF Min

LEMMA MinOfTwo ==
  ASSUME NEW x \in Nat, NEW y \in Nat
  PROVE  Min({x, y}) = IF x <= y THEN x ELSE y
<1>1. Min({x, y}) \in {x, y} /\ \A n \in {x, y} : Min({x, y}) <= n
  BY MinOfNumbers
<1> QED
  BY <1>1

\* Induction, with the property as a set: no operator need be passed.
LEMMA NumbersByInduction ==
  ASSUME NEW T, 0 \in T, \A n \in Nat : n \in T => n + 1 \in T
  PROVE  Nat \subseteq T
<1> DEFINE rest == Nat \ T
<1>1. ASSUME rest # {} PROVE FALSE
  <2>1. PICK m \in rest : \A n \in rest : m <= n
    BY <1>1, LeastNumber
  <2>2. m # 0 /\ m \in Nat
    BY <2>1
  <2>3. m - 1 \in Nat /\ m - 1 \notin rest
    BY <2>1, <2>2
  <2> QED
    BY <2>1, <2>2, <2>3
<1> QED
  BY <1>1

-----------------------------------------------------------------------------
(* Sums                                                                    *)

\* The sums of f over the subsets of S with k elements at most, by which SumOver is
\* defined: each is got from that of the set without one element.
Chosen(s) == CHOOSE x \in s : TRUE
Small(S, k) == {s \in SUBSET S : Cardinality(s) <= k}
AreSetSums(g, f, D) == g = [s \in D |-> IF s = {} THEN 0 ELSE f[Chosen(s)] + g[s \ {Chosen(s)}]]

LEMMA WithoutOne ==
  ASSUME NEW S, IsFiniteSet(S), NEW k \in Nat, NEW s \in Small(S, k), s # {}
  PROVE  /\ Chosen(s) \in s /\ k > 0
         /\ s \ {Chosen(s)} \in Small(S, k - 1)
<1>1. Chosen(s) \in s
  BY DEF Chosen
<1>2. IsFiniteSet(s) /\ Cardinality(s) \in Nat /\ Cardinality(s) <= k /\ s \in SUBSET S
  BY FS_Subset, FS_CardinalityType DEF Small
<1>3. Cardinality(s \ {Chosen(s)}) = Cardinality(s) - 1
  BY <1>1, <1>2, FS_RemoveElement
<1>4. Cardinality(s) # 0
  BY <1>2, FS_EmptySet
<1> QED
  BY <1>1, <1>2, <1>3, <1>4 DEF Small

LEMMA NothingSmall ==
  ASSUME NEW S, IsFiniteSet(S)
  PROVE  Small(S, 0) = {{}}
<1>1. \A s \in SUBSET S : IsFiniteSet(s) /\ Cardinality(s) \in Nat /\ (Cardinality(s) = 0 <=> s = {})
  BY FS_Subset, FS_CardinalityType, FS_EmptySet
<1> QED
  BY <1>1 DEF Small

LEMMA SetSumsGrow ==
  ASSUME NEW S, IsFiniteSet(S), NEW f, NEW k \in Nat, NEW g, AreSetSums(g, f, Small(S, k))
  PROVE  \E h : AreSetSums(h, f, Small(S, k + 1))
<1> DEFINE h == [s \in Small(S, k + 1) |->
                   IF s \in Small(S, k) THEN g[s] ELSE f[Chosen(s)] + g[s \ {Chosen(s)}]]
<1>0. Small(S, k) \subseteq Small(S, k + 1)
  <2>1. \A s \in SUBSET S : Cardinality(s) \in Nat
    BY FS_Subset, FS_CardinalityType
  <2> QED
    BY <2>1 DEF Small
<1>1. ASSUME NEW s \in Small(S, k + 1)
      PROVE  h[s] = IF s = {} THEN 0 ELSE f[Chosen(s)] + h[s \ {Chosen(s)}]
  <2>1. CASE s = {}
    <3>1. s \in Small(S, k)
      BY <2>1, FS_EmptySet DEF Small
    <3>2. h[s] = g[s] /\ g[s] = 0
      BY <2>1, <3>1 DEF AreSetSums
    <3> QED
      BY <2>1, <3>2
  <2>2. CASE s # {}
    <3> DEFINE r == s \ {Chosen(s)}
    <3>1. r \in Small(S, k) /\ r \in Small(S, k + 1)
      BY <1>0, <2>2, WithoutOne
    <3>2. h[r] = g[r]
      BY <3>1
    <3>3. h[s] = f[Chosen(s)] + g[r]
      <4>1. CASE s \in Small(S, k)
        <5>1. h[s] = g[s]
          BY <4>1
        <5>2. g[s] = f[Chosen(s)] + g[r]
          BY <2>2, <4>1 DEF AreSetSums
        <5> QED
          BY <5>1, <5>2
      <4>2. CASE s \notin Small(S, k)
        BY <4>2
      <4> QED
        BY <4>1, <4>2
    <3> HIDE DEF h
    <3> QED
      BY <2>2, <3>2, <3>3
  <2> QED
    BY <2>1, <2>2
<1>2. h = [s \in Small(S, k + 1) |-> h[s]]
  OBVIOUS
<1> HIDE DEF h
<1>3. h = [s \in Small(S, k + 1) |-> IF s = {} THEN 0 ELSE f[Chosen(s)] + h[s \ {Chosen(s)}]]
  BY <1>1, <1>2
<1> QED
  BY <1>3 DEF AreSetSums

LEMMA SetSumsExist ==
  ASSUME NEW S, IsFiniteSet(S), NEW f
  PROVE  \E g : AreSetSums(g, f, SUBSET S)
<1> DEFINE T == {k \in Nat : \E g : AreSetSums(g, f, Small(S, k))}
<1>1. 0 \in T
  <2>1. Small(S, 0) = {{}}
    BY NothingSmall
  <2> DEFINE z == [s \in {{}} |-> 0]
  <2>2. z = [s \in {{}} |-> IF s = {} THEN 0 ELSE f[Chosen(s)] + z[s \ {Chosen(s)}]]
    OBVIOUS
  <2>3. AreSetSums(z, f, Small(S, 0))
    BY <2>1, <2>2 DEF AreSetSums
  <2> QED
    BY <2>3
<1>2. \A k \in Nat : k \in T => k + 1 \in T
  BY SetSumsGrow
<1> HIDE DEF T
<1>3. Nat \subseteq T
  BY <1>1, <1>2, NumbersByInduction
<1>4. Cardinality(S) \in T
  BY <1>3, FS_CardinalityType
<1>5. Small(S, Cardinality(S)) = SUBSET S
  BY FS_Subset DEF Small
<1> QED
  BY <1>4, <1>5 DEF T

\* SumOver is what adding up one element after another gives.
LEMMA SumIsSetSum ==
  ASSUME NEW S, IsFiniteSet(S), NEW f
  PROVE  \E g : AreSetSums(g, f, SUBSET S) /\ SumOver(f, S) = g[S]
<1> DEFINE Sums(g) == g = [s \in SUBSET S |-> IF s = {} THEN 0
                           ELSE f[CHOOSE x \in s : TRUE] + g[s \ {CHOOSE x \in s : TRUE}]]
<1>1. SumOver(f, S) = (CHOOSE g : Sums(g))[S]
  BY DEF SumOver, MapThenSumSet, MapThenFoldSet
<1>2. \E g : Sums(g)
  <2>1. PICK g : AreSetSums(g, f, SUBSET S)
    BY SetSumsExist
  <2>2. Sums(g)
    BY <2>1 DEF AreSetSums, Chosen
  <2> QED
    BY <2>2
<1>3. Sums(CHOOSE g : Sums(g))
  BY <1>2
<1>4. AreSetSums(CHOOSE g : Sums(g), f, SUBSET S)
  BY <1>3 DEF AreSetSums, Chosen
<1> QED
  BY <1>1, <1>4

\* One of the values grows by n: so does the sum.
LEMMA SumGrows ==
  ASSUME NEW S, IsFiniteSet(S), NEW f \in [S -> Int], NEW d \in S, NEW n \in Int
  PROVE  /\ SumOver(f, S) \in Int
         /\ SumOver([f EXCEPT ![d] = @ + n], S) = SumOver(f, S) + n
<1> DEFINE h == [f EXCEPT ![d] = @ + n]
<1>0. \A x \in S : h[x] = IF x = d THEN f[x] + n ELSE f[x]
  OBVIOUS
<1> HIDE DEF h
<1>1. PICK g : AreSetSums(g, f, SUBSET S) /\ SumOver(f, S) = g[S]
  BY SumIsSetSum
<1>2. PICK e : AreSetSums(e, h, SUBSET S) /\ SumOver(h, S) = e[S]
  BY SumIsSetSum
<1> DEFINE Right(s) == g[s] \in Int /\ e[s] = IF d \in s THEN g[s] + n ELSE g[s]
           T == {k \in Nat : \A s \in Small(S, k) : Right(s)}
<1>3. ASSUME NEW k \in Nat, \A s \in Small(S, k) : s # {} => Right(s \ {Chosen(s)})
      PROVE  k \in T
  <2> SUFFICES ASSUME NEW s \in Small(S, k) PROVE Right(s)
    OBVIOUS
  <2>0. s \in SUBSET S
    BY DEF Small
  <2>1. CASE s = {}
    BY <1>1, <1>2, <2>0, <2>1 DEF AreSetSums
  <2>2. CASE s # {}
    <3> DEFINE c == Chosen(s)
               r == s \ {c}
    <3>1. c \in s /\ c \in S
      BY <2>0, <2>2, WithoutOne
    <3>2. g[s] = f[c] + g[r] /\ e[s] = h[c] + e[r]
      BY <1>1, <1>2, <2>0, <2>2 DEF AreSetSums
    <3>3. g[r] \in Int /\ e[r] = IF d \in r THEN g[r] + n ELSE g[r]
      BY <1>3, <2>2
    <3>4. f[c] \in Int /\ h[c] = IF c = d THEN f[c] + n ELSE f[c]
      BY <1>0, <3>1
    <3>5. d \in r <=> d \in s /\ c # d
      OBVIOUS
    <3> HIDE DEF c, r
    <3>6. g[s] \in Int
      BY <3>2, <3>3, <3>4
    <3>7. CASE d \in s /\ c = d
      BY <3>2, <3>3, <3>4, <3>5, <3>6, <3>7
    <3>8. CASE d \in s /\ c # d
      BY <3>2, <3>3, <3>4, <3>5, <3>6, <3>8
    <3>9. CASE d \notin s
      BY <3>1, <3>2, <3>3, <3>4, <3>5, <3>6, <3>9
    <3> QED
      BY <3>7, <3>8, <3>9
  <2> QED
    BY <2>1, <2>2
<1>4. 0 \in T
  <2>1. \A s \in Small(S, 0) : s = {}
    BY NothingSmall
  <2> HIDE DEF Right, T
  <2> QED
    BY <1>3, <2>1
<1>5. ASSUME NEW k \in Nat, k \in T PROVE k + 1 \in T
  <2>1. \A s \in Small(S, k + 1) : s # {} => s \ {Chosen(s)} \in Small(S, k)
    BY WithoutOne
  <2>2. \A s \in Small(S, k) : Right(s)
    BY <1>5
  <2> HIDE DEF Right, T
  <2>3. \A s \in Small(S, k + 1) : s # {} => Right(s \ {Chosen(s)})
    BY <2>1, <2>2
  <2> QED
    BY <1>3, <2>3
<1> HIDE DEF T
<1>6. Cardinality(S) \in T
  BY <1>4, <1>5, NumbersByInduction, FS_CardinalityType
<1>7. S \in Small(S, Cardinality(S))
  BY FS_CardinalityType DEF Small
<1>8. Right(S)
  BY <1>6, <1>7 DEF T
<1> QED
  BY <1>1, <1>2, <1>8 DEF h

\* Nothing adds up to nothing.
LEMMA SumOfZeros ==
  ASSUME NEW S, IsFiniteSet(S), NEW f, \A x \in S : f[x] = 0
  PROVE  SumOver(f, S) = 0
<1>1. PICK g : AreSetSums(g, f, SUBSET S) /\ SumOver(f, S) = g[S]
  BY SumIsSetSum
<1> DEFINE T == {k \in Nat : \A s \in Small(S, k) : g[s] = 0}
<1>2. ASSUME NEW k \in Nat, \A s \in Small(S, k) : s # {} => g[s \ {Chosen(s)}] = 0
      PROVE  k \in T
  <2> SUFFICES ASSUME NEW s \in Small(S, k) PROVE g[s] = 0
    OBVIOUS
  <2>0. s \in SUBSET S
    BY DEF Small
  <2>1. CASE s = {}
    BY <1>1, <2>0, <2>1 DEF AreSetSums
  <2>2. CASE s # {}
    <3>1. f[Chosen(s)] = 0
      BY <2>0, <2>2, WithoutOne
    <3>2. g[s] = f[Chosen(s)] + g[s \ {Chosen(s)}]
      BY <1>1, <2>0, <2>2 DEF AreSetSums
    <3> QED
      BY <1>2, <2>2, <3>1, <3>2
  <2> QED
    BY <2>1, <2>2
<1>3. 0 \in T
  BY <1>2, NothingSmall
<1>4. ASSUME NEW k \in Nat, k \in T PROVE k + 1 \in T
  <2>1. \A s \in Small(S, k + 1) : s # {} => s \ {Chosen(s)} \in Small(S, k)
    BY WithoutOne
  <2>2. \A s \in Small(S, k) : g[s] = 0
    BY <1>4
  <2> QED
    BY <1>2, <2>1, <2>2
<1> HIDE DEF T
<1>5. Cardinality(S) \in T
  BY <1>3, <1>4, NumbersByInduction, FS_CardinalityType
<1>6. S \in Small(S, Cardinality(S))
  BY FS_CardinalityType DEF Small
<1> QED
  BY <1>1, <1>5, <1>6 DEF T

-----------------------------------------------------------------------------
(* Running totals                                                          *)

\* The running sums of g up to m.
AreSums(f, g, m) == f = [k \in 0..m |-> IF k = 0 THEN 0 ELSE f[k - 1] + g[k]]

LEMMA SumsGrow ==
  ASSUME NEW m \in Nat, NEW g, NEW f, AreSums(f, g, m)
  PROVE  \E h : AreSums(h, g, m + 1)
<1> DEFINE h == [k \in 0..(m + 1) |-> IF k = m + 1 THEN f[m] + g[m + 1] ELSE f[k]]
<1>1. ASSUME NEW k \in 0..(m + 1) PROVE h[k] = IF k = 0 THEN 0 ELSE h[k - 1] + g[k]
  <2>1. CASE k = m + 1
    BY <2>1
  <2>2. CASE k = 0
    BY <2>2 DEF AreSums
  <2>3. CASE k \in 1..m
    <3>1. h[k] = f[k] /\ h[k - 1] = f[k - 1] /\ k \in 0..m /\ k # 0
      BY <2>3
    <3>2. f[k] = f[k - 1] + g[k]
      BY <3>1 DEF AreSums
    <3> QED
      BY <3>1, <3>2
  <2> QED
    BY <2>1, <2>2, <2>3
<1>2. h = [k \in 0..(m + 1) |-> h[k]]
  OBVIOUS
<1> HIDE DEF h
<1>3. h = [k \in 0..(m + 1) |-> IF k = 0 THEN 0 ELSE h[k - 1] + g[k]]
  BY <1>1, <1>2
<1> QED
  BY <1>3 DEF AreSums

LEMMA SumsExist ==
  ASSUME NEW n \in Nat, NEW g
  PROVE  \E f : AreSums(f, g, n)
<1> DEFINE T == {m \in Nat : \E f : AreSums(f, g, m)}
<1>1. 0 \in T
  <2> DEFINE z == [k \in 0..0 |-> 0]
  <2>1. z = [k \in 0..0 |-> IF k = 0 THEN 0 ELSE z[k - 1] + g[k]]
    OBVIOUS
  <2>2. AreSums(z, g, 0)
    BY <2>1 DEF AreSums
  <2> QED
    BY <2>2
<1>2. \A m \in Nat : m \in T => m + 1 \in T
  BY SumsGrow
<1> HIDE DEF T
<1>3. Nat \subseteq T
  BY <1>1, <1>2, NumbersByInduction
<1> QED
  BY <1>3 DEF T

LEMMA TotalsAre ==
  ASSUME NEW n \in Nat, NEW g, \A k \in 1..n : g[k] \in Int
  PROVE  /\ Totals(g, n)[0] = 0
         /\ \A k \in 0..n : Totals(g, n)[k] \in Int
         /\ \A k \in 1..n : Totals(g, n)[k] = Totals(g, n)[k - 1] + g[k]
<1> DEFINE total == Totals(g, n)
<1>1. total = CHOOSE f : f = [k \in 0..n |-> IF k = 0 THEN 0 ELSE f[k - 1] + g[k]]
  BY DEF Totals
<1>2. \E f : f = [k \in 0..n |-> IF k = 0 THEN 0 ELSE f[k - 1] + g[k]]
  BY SumsExist DEF AreSums
<1> HIDE DEF total
<1>3. total = [k \in 0..n |-> IF k = 0 THEN 0 ELSE total[k - 1] + g[k]]
  BY <1>1, <1>2
<1>4. total[0] = 0 /\ \A k \in 1..n : total[k] = total[k - 1] + g[k]
  <2>1. \A k \in 0..n : total[k] = IF k = 0 THEN 0 ELSE total[k - 1] + g[k]
    BY <1>3
  <2> QED
    BY <2>1
<1>5. ASSUME NEW k \in 0..n PROVE total[k] \in Int
  <2> DEFINE T == {m \in Nat : m <= n => total[m] \in Int}
  <2>1. 0 \in T
    BY <1>4
  <2>2. ASSUME NEW m \in Nat, m \in T PROVE m + 1 \in T
    <3>1. CASE m + 1 <= n
      <4>1. total[m] \in Int /\ m + 1 \in 1..n /\ (m + 1) - 1 = m
        BY <2>2, <3>1
      <4>2. total[m + 1] = total[m] + g[m + 1]
        BY <1>4, <4>1
      <4> QED
        BY <4>1, <4>2
    <3>2. CASE ~(m + 1 <= n)
      BY <3>2
    <3> QED
      BY <3>1, <3>2
  <2> HIDE DEF T
  <2>3. Nat \subseteq T
    BY <2>1, <2>2, NumbersByInduction
  <2>4. k \in Nat /\ k <= n
    OBVIOUS
  <2> QED
    BY <2>3, <2>4 DEF T
<1> QED
  BY <1>4, <1>5 DEF total
-----------------------------------------------------------------------------
(* Costs and budgets                                                       *)

BudgetInv ==
  /\ used \in [daily : Nat, monthly : Nat, model : [Models -> Nat]]
  /\ used.daily = SumOver(used.model, Models) + unnamed /\ used.monthly = used.daily
  /\ strict \in BOOLEAN /\ unnamed \in Nat
  /\ strict => /\ used.daily <= DailyLimit /\ used.monthly <= MonthlyLimit
               /\ used.model["opus"] <= OpusLimit

QuoteOf(t) == [t |-> t, by |-> [m \in Models |-> Breakdown(m, t)]]
CostInv == BudgetInv /\ (quoted = <<>> \/ \E t \in Tokens : quoted = QuoteOf(t))

LEMMA ModelsAreFinite == IsFiniteSet(Models) /\ Models = {"haiku", "sonnet", "opus"}
<1>1. IsFiniteSet({}) /\ Models = (({} \cup {"haiku"}) \cup {"sonnet"}) \cup {"opus"}
  BY FS_EmptySet DEF Models
<1>2. IsFiniteSet({} \cup {"haiku"})
  BY <1>1, FS_AddElement
<1>3. IsFiniteSet(({} \cup {"haiku"}) \cup {"sonnet"})
  BY <1>2, FS_AddElement
<1>4. IsFiniteSet((({} \cup {"haiku"}) \cup {"sonnet"}) \cup {"opus"})
  BY <1>3, FS_AddElement
<1> QED
  BY <1>1, <1>4 DEF Models

\* A use of a model adds to its share, one without a model to what is not shared.
LEMMA SpendStep ==
  ASSUME BudgetInv, NEW m \in Models \cup {NoModel}, NEW c \in Cost, Spend(m, c), Unnamed(m, c)
  PROVE  /\ used' \in [daily : Nat, monthly : Nat, model : [Models -> Nat]] /\ unnamed' \in Nat
         /\ used'.daily = SumOver(used'.model, Models) + unnamed' /\ used'.monthly = used'.daily
         /\ CheckBudget(m, c).allowed /\ strict =>
              /\ used'.daily <= DailyLimit /\ used'.monthly <= MonthlyLimit
              /\ used'.model["opus"] <= OpusLimit
<1> DEFINE f == used.model
           h == IF m = NoModel THEN f ELSE [f EXCEPT ![m] = @ + c]
<1>1. c \in Nat /\ c \in Int /\ {DailyLimit, MonthlyLimit, OpusLimit} \subseteq Nat
  BY CostAssumption
<1>2. used.daily \in Nat /\ used.monthly \in Nat /\ f \in [Models -> Nat] /\ f \in [Models -> Int]
      /\ unnamed \in Nat
  BY DEF BudgetInv
<1>3. used' = [daily |-> used.daily + c, monthly |-> used.monthly + c, model |-> h]
  BY DEF Spend
<1>4. unnamed' = IF m = NoModel THEN unnamed + c ELSE unnamed
  BY DEF Unnamed
<1>5. NoModel \notin Models
  BY DEF NoModel, Models
<1>6. h \in [Models -> Nat] /\ \A x \in Models : h[x] = IF x = m THEN f[x] + c ELSE f[x]
  <2>1. CASE m = NoModel
    BY <1>2, <1>5, <2>1
  <2>2. CASE m # NoModel
    BY <1>1, <1>2, <2>2
  <2> QED
    BY <2>1, <2>2
<1>7. SumOver(h, Models) + unnamed' = SumOver(f, Models) + unnamed + c
  <2>1. SumOver(f, Models) \in Int
    <3>1. SumOver(f, Models) = used.daily - unnamed
      <4>1. used.daily = SumOver(f, Models) + unnamed
        BY DEF BudgetInv
      <4>2. SumOver(f, Models) \in Int
        <5>1. "opus" \in Models /\ 0 \in Int /\ IsFiniteSet(Models) /\ f \in [Models -> Int]
          BY <1>2, ModelsAreFinite DEF Models
        <5> HIDE DEF f
        <5> QED
          BY <5>1, SumGrows, ZenonT(60)
      <4> QED
        BY <1>2, <4>1, <4>2
    <3> QED
      BY <1>2, <3>1
  <2>2. CASE m = NoModel
    BY <1>1, <1>2, <1>4, <2>1, <2>2
  <2>3. CASE m # NoModel
    <3>1. SumOver([f EXCEPT ![m] = @ + c], Models) = SumOver(f, Models) + c
      <4> HIDE DEF f
      <4>1. IsFiniteSet(Models) /\ f \in [Models -> Int] /\ m \in Models /\ c \in Int
        BY <1>1, <1>2, <2>3, ModelsAreFinite
      <4> QED
        BY <4>1, SumGrows, ZenonT(60)
    <3>2. SumOver(h, Models) = SumOver(f, Models) + c
      BY <2>3, <3>1, Zenon
    <3> HIDE DEF f, h
    <3> QED
      BY <1>1, <1>2, <1>4, <2>1, <2>3, <3>2
  <2> QED
    BY <2>2, <2>3
<1> HIDE DEF h
<1>8. used'.daily = SumOver(used'.model, Models) + unnamed' /\ used'.monthly = used'.daily
  <2>1. used'.daily = used.daily + c /\ used'.monthly = used.monthly + c /\ used'.model = h
    BY <1>3
  <2>2. used.daily = SumOver(f, Models) + unnamed /\ used.monthly = used.daily
    BY DEF BudgetInv
  <2> QED
    BY <1>7, <2>1, <2>2
<1>9. used' \in [daily : Nat, monthly : Nat, model : [Models -> Nat]] /\ unnamed' \in Nat
  BY <1>1, <1>2, <1>3, <1>4, <1>6
<1>10. ASSUME CheckBudget(m, c).allowed, strict
       PROVE  /\ used'.daily <= DailyLimit /\ used'.monthly <= MonthlyLimit
              /\ used'.model["opus"] <= OpusLimit
  <2>1. "daily" \notin Violations(m, c) /\ "monthly" \notin Violations(m, c) /\ "model" \notin Violations(m, c)
    BY <1>10 DEF CheckBudget
  <2>2. ~(used.daily + c > DailyLimit) /\ ~(used.monthly + c > MonthlyLimit)
        /\ (m = "opus" => ~(used.model[m] + c > OpusLimit))
    BY <2>1 DEF Violations
  <2>3. used'.daily <= DailyLimit /\ used'.monthly <= MonthlyLimit
    BY <1>1, <1>2, <1>3, <2>2
  <2>4. h["opus"] <= OpusLimit
    <3>1. "opus" \in Models /\ f["opus"] <= OpusLimit
      BY <1>10 DEF BudgetInv, Models
    <3> QED
      BY <1>1, <1>2, <1>6, <2>2, <3>1
  <2> QED
    BY <1>3, <2>3, <2>4
<1> QED
  BY <1>8, <1>9, <1>10

LEMMA CostInitInv == CostInit => CostInv
<1> SUFFICES ASSUME CostInit PROVE CostInv
  OBVIOUS
<1>1. /\ used = [daily |-> 0, monthly |-> 0, model |-> [m \in Models |-> 0]]
      /\ strict = TRUE /\ unnamed = 0 /\ quoted = <<>>
  BY DEF CostInit
<1>2. SumOver(used.model, Models) = 0
  BY <1>1, ModelsAreFinite, SumOfZeros
<1>3. "opus" \in Models /\ {DailyLimit, MonthlyLimit, OpusLimit} \subseteq Nat
  BY CostAssumption DEF Models
<1> QED
  BY <1>1, <1>2, <1>3 DEF CostInv, BudgetInv

LEMMA CostNextInv == CostInv /\ [CostNext]_costVars => CostInv'
<1> SUFFICES ASSUME CostInv, [CostNext]_costVars PROVE CostInv'
  OBVIOUS
<1>0. BudgetInv /\ (quoted = <<>> \/ \E t \in Tokens : quoted = QuoteOf(t))
  BY DEF CostInv
<1>1. CASE UNCHANGED costVars
  BY <1>0, <1>1 DEF costVars, CostInv, BudgetInv
<1>2. CASE Quote
  <2>1. \E t \in Tokens : quoted' = QuoteOf(t)
    BY <1>2 DEF Quote, QuoteOf
  <2>2. BudgetInv'
    BY <1>0, <1>2 DEF Quote, BudgetInv
  <2> QED
    BY <2>1, <2>2 DEF CostInv
<1>3. ASSUME NEW m \in Models \cup {NoModel}, NEW c \in Cost,
             SpendAdmitted(m, c) \/ SpendUnasked(m, c), UNCHANGED quoted
      PROVE  CostInv'
  <2>1. Spend(m, c) /\ Unnamed(m, c)
    BY <1>3 DEF SpendAdmitted, SpendUnasked
  <2>2. strict' \in BOOLEAN /\ (strict' => strict /\ CheckBudget(m, c).allowed)
    <3>1. strict \in BOOLEAN /\ CheckBudget(m, c).allowed \in BOOLEAN
      BY <1>0 DEF BudgetInv, CheckBudget
    <3>2. CASE SpendAdmitted(m, c)
      BY <3>1, <3>2 DEF SpendAdmitted
    <3>3. CASE SpendUnasked(m, c)
      <4>1. strict' = (strict /\ CheckBudget(m, c).allowed)
        BY <3>3 DEF SpendUnasked
      <4> DEFINE ok == CheckBudget(m, c).allowed
      <4> HIDE DEF ok
      <4>2. strict' = (strict /\ ok)
        BY <4>1 DEF ok
      <4> QED
        BY <4>2, Zenon DEF ok
    <3> QED
      BY <1>3, <3>2, <3>3
  <2>3. BudgetInv'
    BY <1>0, <2>1, <2>2, SpendStep DEF BudgetInv
  <2> QED
    BY <1>0, <1>3, <2>3 DEF CostInv
<1> QED
  BY <1>1, <1>2, <1>3 DEF CostNext

LEMMA BudgetsFollow == CostInv => BudgetsHold
<1> SUFFICES ASSUME BudgetInv PROVE BudgetsHold
  BY DEF CostInv
<1>1. ASSUME NEW m \in Models, NEW c \in Cost
      PROVE  /\ "daily" \in Violations(m, c) => CheckBudget(m, c).warning = 3
             /\ Rate[CheckBudget(m, c).recommended].in <= Rate[m].in
  <2>1. CheckBudget(m, c).recommended \in {m, Cheaper(m)}
    BY DEF CheckBudget
  <2>2. Rate["haiku"].in = 80 /\ Rate["sonnet"].in = 300 /\ Rate["opus"].in = 1500
    BY DEF Rate
  <2>3. Rate[CheckBudget(m, c).recommended].in <= Rate[m].in
    BY <2>1, <2>2 DEF Cheaper, Models
  <2>4. ASSUME "daily" \in Violations(m, c) PROVE CheckBudget(m, c).warning = 3
    <3> DEFINE x == used.daily + c
    <3>1. x \in Nat /\ DailyLimit \in Nat /\ x > DailyLimit
      BY <2>4, CostAssumption DEF Violations, BudgetInv
    <3>2. CheckBudget(m, c).warning =
            IF 20 * x > 18 * DailyLimit THEN 3 ELSE IF 20 * x > 15 * DailyLimit THEN 2
            ELSE IF 20 * x > 10 * DailyLimit THEN 1 ELSE 0
      BY DEF CheckBudget
    <3> HIDE DEF x
    <3>3. 20 * x > 18 * DailyLimit
      BY <3>1
    <3> QED
      BY <3>2, <3>3
  <2> QED
    BY <2>3, <2>4
<1> QED
  BY <1>1 DEF BudgetsHold, BudgetInv
-----------------------------------------------------------------------------
(* The prices of a request                                                 *)

\* What the tokens of t weigh at the rates x and y, in halves.
Half(t, x, y) == 10 * (t.in * x + t.out * y) + (IF t.cached THEN (3 * t.read + 12 * t.write) * x ELSE 0)

LEMMA RatesAre ==
  /\ Rate["haiku"].in = 80 /\ Rate["haiku"].out = 400
  /\ Rate["sonnet"].in = 300 /\ Rate["sonnet"].out = 1500
  /\ Rate["opus"].in = 1500 /\ Rate["opus"].out = 7500
BY DEF Rate

LEMMA TokensAre ==
  ASSUME NEW t \in Tokens
  PROVE  /\ t.in \in Nat /\ t.out \in Nat /\ t.read \in Nat /\ t.write \in Nat
         /\ t.cached \in BOOLEAN /\ t.batch \in BOOLEAN
BY CostAssumption DEF Tokens

\* Everything is counted in an even number, of the half that a batch costs.
LEMMA HalvesAre ==
  ASSUME NEW t \in Tokens
  PROVE  /\ Half(t, 80, 400) \in Nat /\ Half(t, 300, 1500) \in Nat /\ Half(t, 1500, 7500) \in Nat
         /\ Half(t, 80, 400) <= Half(t, 300, 1500) /\ Half(t, 300, 1500) <= Half(t, 1500, 7500)
         /\ Undiscounted("haiku", t) = 2 * Half(t, 80, 400)
         /\ Undiscounted("sonnet", t) = 2 * Half(t, 300, 1500)
         /\ Undiscounted("opus", t) = 2 * Half(t, 1500, 7500)
         /\ OpusBaseline(t) = IF t.batch THEN (2 * Half(t, 1500, 7500)) \div 2 ELSE (2 * Half(t, 1500, 7500)) \div 1
<1> DEFINE n == t.in  o == t.out  r == t.read  w == t.write
<1>1. n \in Nat /\ o \in Nat /\ r \in Nat /\ w \in Nat
  BY TokensAre
<1>2. CASE t.cached
  <2>1. /\ Half(t, 80, 400) = 10 * (n * 80 + o * 400) + (3 * r + 12 * w) * 80
        /\ Half(t, 300, 1500) = 10 * (n * 300 + o * 1500) + (3 * r + 12 * w) * 300
        /\ Half(t, 1500, 7500) = 10 * (n * 1500 + o * 7500) + (3 * r + 12 * w) * 1500
    BY <1>2 DEF Half
  <2>2. /\ Undiscounted("haiku", t) = 20 * (n * 80 + o * 400) + (6 * r + 24 * w) * 80
        /\ Undiscounted("sonnet", t) = 20 * (n * 300 + o * 1500) + (6 * r + 24 * w) * 300
        /\ Undiscounted("opus", t) = 20 * (n * 1500 + o * 7500) + (6 * r + 24 * w) * 1500
    BY <1>2, RatesAre DEF Undiscounted
  <2>3. OpusBaseline(t) = (20 * (n * 1500 + o * 7500) + (r * 1500 * 6 + w * 1500 * 24)) \div (IF t.batch THEN 2 ELSE 1)
    BY <1>2, RatesAre DEF OpusBaseline
  <2> HIDE DEF n, o, r, w
  <2>4. 20 * (n * 1500 + o * 7500) + (r * 1500 * 6 + w * 1500 * 24) = 2 * Half(t, 1500, 7500)
    BY <1>1, <2>1
  <2> QED
    BY <1>1, <2>1, <2>2, <2>3, <2>4
<1>3. CASE ~t.cached
  <2>1. /\ Half(t, 80, 400) = 10 * (n * 80 + o * 400) + 0
        /\ Half(t, 300, 1500) = 10 * (n * 300 + o * 1500) + 0
        /\ Half(t, 1500, 7500) = 10 * (n * 1500 + o * 7500) + 0
    BY <1>3 DEF Half
  <2>2. /\ Undiscounted("haiku", t) = 20 * (n * 80 + o * 400) + 0
        /\ Undiscounted("sonnet", t) = 20 * (n * 300 + o * 1500) + 0
        /\ Undiscounted("opus", t) = 20 * (n * 1500 + o * 7500) + 0
    BY <1>3, RatesAre DEF Undiscounted
  <2>3. OpusBaseline(t) = (20 * (n * 1500 + o * 7500) + 0) \div (IF t.batch THEN 2 ELSE 1)
    BY <1>3, RatesAre DEF OpusBaseline
  <2> HIDE DEF n, o, r, w
  <2>4. 20 * (n * 1500 + o * 7500) + 0 = 2 * Half(t, 1500, 7500)
    BY <1>1, <2>1
  <2> QED
    BY <1>1, <2>1, <2>2, <2>3, <2>4
<1> QED
  BY <1>2, <1>3

\* The half price of a model.
HalfOf(m, t) == CASE m = "haiku" -> Half(t, 80, 400) [] m = "sonnet" -> Half(t, 300, 1500)
                  [] OTHER -> Half(t, 1500, 7500)

LEMMA PricesAre ==
  ASSUME NEW m \in Models, NEW t \in Tokens
  PROVE  /\ HalfOf(m, t) \in Nat
         /\ TotalCost(m, t) = IF t.batch THEN HalfOf(m, t) ELSE 2 * HalfOf(m, t)
         /\ BatchSavings(m, t) = IF t.batch THEN HalfOf(m, t) ELSE 0
         /\ OpusBaseline(t) = TotalCost("opus", t)
<1> DEFINE x == HalfOf(m, t)
           y == Half(t, 1500, 7500)
<1>1. x \in Nat /\ Undiscounted(m, t) = 2 * x /\ y \in Nat /\ Undiscounted("opus", t) = 2 * y
  BY HalvesAre DEF HalfOf, Models
<1>2. OpusBaseline(t) = IF t.batch THEN (2 * y) \div 2 ELSE (2 * y) \div 1
  BY HalvesAre
<1> HIDE DEF x, y
<1>3. (2 * x) \div 2 = x /\ (2 * x) \div 1 = 2 * x
  BY <1>1
<1>4. TotalCost(m, t) = IF t.batch THEN (2 * x) \div 2 ELSE (2 * x) \div 1
  BY <1>1 DEF TotalCost
<1>5. BatchSavings(m, t) = IF t.batch THEN (2 * x) \div 2 ELSE 0
  BY <1>1 DEF BatchSavings
<1>6. TotalCost("opus", t) = IF t.batch THEN (2 * y) \div 2 ELSE (2 * y) \div 1
  BY <1>1 DEF TotalCost
<1> QED
  BY <1>1, <1>2, <1>3, <1>4, <1>5, <1>6 DEF x

LEMMA PricesAgree ==
  ASSUME NEW t \in Tokens
  PROVE  /\ \A m \in Models :
              /\ m # "opus" => Breakdown(m, t).total + Breakdown(m, t).vsOpus = Breakdown("opus", t).total
              /\ Breakdown(m, t).total + Breakdown(m, t).batchSavings = Breakdown(m, t).plain
              /\ Breakdown(m, t).compared.savings = Breakdown(m, t).compared.batch
         /\ Breakdown("haiku", t).total <= Breakdown("sonnet", t).total
         /\ Breakdown("sonnet", t).total <= Breakdown("opus", t).total
<1>1. "opus" \in Models /\ "haiku" \in Models /\ "sonnet" \in Models
  BY DEF Models
<1>2. ASSUME NEW m \in Models
      PROVE  /\ m # "opus" => Breakdown(m, t).total + Breakdown(m, t).vsOpus = Breakdown("opus", t).total
             /\ Breakdown(m, t).total + Breakdown(m, t).batchSavings = Breakdown(m, t).plain
             /\ Breakdown(m, t).compared.savings = Breakdown(m, t).compared.batch
  <2> DEFINE plain == [t EXCEPT !.batch = FALSE]
             p == [plain EXCEPT !.cached = FALSE]
             b == [[t EXCEPT !.batch = TRUE] EXCEPT !.cached = FALSE]
  <2>1. plain \in Tokens /\ p \in Tokens /\ b \in Tokens /\ plain.batch = FALSE /\ p.batch = FALSE /\ b.batch = TRUE
    BY DEF Tokens
  <2>2. HalfOf(m, plain) = HalfOf(m, t)
    BY DEF HalfOf, Half, Tokens
  <2>3. HalfOf(m, p) = HalfOf(m, b)
    BY DEF HalfOf, Half, Tokens
  <2>4. /\ [t EXCEPT !.batch = FALSE, !.cached = FALSE] = p
        /\ [t EXCEPT !.batch = TRUE, !.cached = FALSE] = b
    BY Zenon
  <2>5. /\ Breakdown(m, t).compared.savings = TotalCost(m, p) - TotalCost(m, b)
        /\ Breakdown(m, t).compared.batch = TotalCost(m, b)
    BY <2>4 DEF Breakdown, Compared
  <2>6. /\ Breakdown(m, t).total = TotalCost(m, t) /\ Breakdown("opus", t).total = TotalCost("opus", t)
        /\ Breakdown(m, t).plain = TotalCost(m, plain) /\ Breakdown(m, t).batchSavings = BatchSavings(m, t)
        /\ m # "opus" => Breakdown(m, t).vsOpus = OpusBaseline(t) - TotalCost(m, t)
    BY DEF Breakdown, SavingsVsOpus
  <2> HIDE DEF plain, p, b
  <2>7. /\ TotalCost(m, p) = 2 * HalfOf(m, p) /\ TotalCost(m, b) = HalfOf(m, p)
        /\ HalfOf(m, p) \in Nat /\ TotalCost(m, plain) = 2 * HalfOf(m, t)
    BY <2>1, <2>2, <2>3, PricesAre
  <2>8. /\ TotalCost(m, t) = IF t.batch THEN HalfOf(m, t) ELSE 2 * HalfOf(m, t)
        /\ BatchSavings(m, t) = IF t.batch THEN HalfOf(m, t) ELSE 0
        /\ HalfOf(m, t) \in Nat /\ OpusBaseline(t) = TotalCost("opus", t)
        /\ HalfOf("opus", t) \in Nat
        /\ TotalCost("opus", t) = IF t.batch THEN HalfOf("opus", t) ELSE 2 * HalfOf("opus", t)
    BY <1>1, PricesAre
  <2> QED
    BY <2>5, <2>6, <2>7, <2>8
<1>3. /\ TotalCost("haiku", t) <= TotalCost("sonnet", t) /\ TotalCost("sonnet", t) <= TotalCost("opus", t)
  BY <1>1, PricesAre, HalvesAre DEF HalfOf
<1>4. \A m \in Models : Breakdown(m, t).total = TotalCost(m, t)
  BY DEF Breakdown
<1> QED
  BY <1>1, <1>2, <1>3, <1>4

LEMMA CostsFollow == CostInv => CostsAgree
<1> SUFFICES ASSUME CostInv, quoted # <<>> PROVE CostsAgree
  BY DEF CostsAgree
<1>1. PICK t \in Tokens : quoted = QuoteOf(t)
  BY DEF CostInv
<1>2. quoted.by = [m \in Models |-> Breakdown(m, t)]
  BY <1>1 DEF QuoteOf
<1>3. \A m \in Models : quoted.by[m] = Breakdown(m, t)
  BY <1>2
<1>4. "opus" \in Models /\ "haiku" \in Models /\ "sonnet" \in Models
  BY DEF Models
<1> QED
  BY <1>3, <1>4, PricesAgree DEF CostsAgree

\* For all limits, costs and numbers of tokens: the budget's books agree, only what is
\* not asked for passes a limit, and the prices of a request agree with each other.
THEOREM MoneyAlwaysAgrees == CostSpec => []MoneyAgrees
<1>1. CostInit => CostInv
  BY CostInitInv
<1>2. CostInv /\ [CostNext]_costVars => CostInv'
  BY CostNextInv
<1>3. CostInv => MoneyAgrees
  BY BudgetsFollow, CostsFollow DEF MoneyAgrees
<1> QED
  BY <1>1, <1>2, <1>3, PTL DEF CostSpec
-----------------------------------------------------------------------------
(* The decision tables                                                     *)

\* What a decision d for a request at a model must satisfy.
GoesRight(d, m, asked, twice, worst) ==
  /\ d.action = "escalate" =>
       /\ Tier[d.model] >= Tier[m]
       /\ asked \/ (Tier[d.model] > Tier[m] /\ d.effort = EffortFor[d.model])
       /\ Tier[d.model] > Tier[m] + 1 => asked \/ twice
  /\ d.action = "cascade" => Tier[d.model] = Tier[m] - 1
  /\ d.action \in {"stay", ""} => Tier[d.model] = Tier[m]
  /\ worst /\ Tier[m] < 3 => d.action = "escalate"

LEMMA TiersAre ==
  /\ Tier["haiku"] = 1 /\ Tier["sonnet"] = 2 /\ Tier["opus"] = 3
  /\ EffortFor["haiku"] = "low" /\ EffortFor["sonnet"] = "medium" /\ EffortFor["opus"] = "high"
BY DEF Tier, EffortFor

\* The decisions that leave a model, keep it or reach the highest.
LEMMA StepUp ==
  ASSUME NEW m \in Models, m # "opus", NEW asked \in BOOLEAN, NEW twice \in BOOLEAN, NEW worst \in BOOLEAN
  PROVE  GoesRight(Decision("escalate", Up(m), EffortFor[Up(m)]), m, asked, twice, worst)
BY TiersAre DEF GoesRight, Decision, Up, Models

LEMMA StepDown ==
  ASSUME NEW m \in Models, m # "haiku", NEW e, NEW asked \in BOOLEAN, NEW twice \in BOOLEAN
  PROVE  GoesRight(Decision("cascade", Down(m), e), m, asked, twice, FALSE)
BY TiersAre DEF GoesRight, Decision, Down, Models

LEMMA StepNone ==
  ASSUME NEW m \in Models, NEW act \in {"stay", ""}, NEW e, NEW asked \in BOOLEAN, NEW twice \in BOOLEAN
  PROVE  GoesRight(Decision(act, m, e), m, asked, twice, FALSE)
BY TiersAre DEF GoesRight, Decision, Models

LEMMA StepOther ==
  ASSUME NEW m \in Models, NEW act \in {"none", "adjust_effort"}, NEW to, NEW e,
         NEW asked \in BOOLEAN, NEW twice \in BOOLEAN, NEW worst \in BOOLEAN, worst => m = "opus"
  PROVE  GoesRight(Decision(act, to, e), m, asked, twice, worst)
<1> DEFINE d == Decision(act, to, e)
<1>1. d.action = act
  BY DEF Decision
<1>2. worst => Tier[m] = 3
  BY TiersAre
<1> HIDE DEF d
<1>3. d.action # "escalate" /\ d.action # "cascade" /\ d.action \notin {"stay", ""}
  BY <1>1
<1>4. ~(worst /\ Tier[m] < 3)
  BY <1>2
<1>5. GoesRight(d, m, asked, twice, worst)
  BY <1>3, <1>4, Zenon DEF GoesRight
<1> QED
  BY <1>5 DEF d

LEMMA StepToTop ==
  ASSUME NEW m \in Models, NEW e, NEW asked \in BOOLEAN, NEW twice \in BOOLEAN, NEW worst \in BOOLEAN,
         asked \/ (twice /\ m # "opus" /\ e = "high")
  PROVE  GoesRight(Decision("escalate", "opus", e), m, asked, twice, worst)
BY TiersAre DEF GoesRight, Decision, Models

\* What each rule of the engine decides, and which of them does.
LEMMA DecidingRule ==
  ASSUME NEW v \in Validation, NEW s, NEW sure \in BOOLEAN
  PROVE  LET d == MakeDecision(v, s, sure)  said == BySignal(v, s, sure) IN
         \/ d = said /\ said.action # ""
         \/ /\ said.action = ""
            /\ \/ v.validated /\ d = ByTokens(v.model, v.effort, v.error) /\ d.action # ""
               \/ /\ d = ByEffort(v.model, v.effort, s)
                  /\ v.validated => ByTokens(v.model, v.effort, v.error).action = ""
<1>1. v.validated \in BOOLEAN
  BY DEF Validation
<1> DEFINE d == MakeDecision(v, s, sure)
           said == BySignal(v, s, sure)
           counted == ByEstimate(v)
           heard == ByEffort(v.model, v.effort, s)
<1>2. d = IF said.action # "" THEN said ELSE IF counted.action # "" THEN counted ELSE heard
  BY Zenon DEF MakeDecision, Else
<1>3. CASE v.validated
  <2>1. counted = ByTokens(v.model, v.effort, v.error)
    BY <1>3 DEF ByEstimate
  <2> HIDE DEF d, said, counted, heard
  <2> QED
    BY <1>2, <1>3, <2>1, Zenon DEF d, said, heard
<1>4. CASE ~v.validated
  <2>1. counted.action = ""
    BY <1>4 DEF ByEstimate, Decision
  <2> HIDE DEF d, said, counted, heard
  <2> QED
    BY <1>2, <1>4, <2>1, Zenon DEF d, said, heard
<1> QED
  BY <1>1, <1>3, <1>4

LEMMA EngineGoesRight ==
  ASSUME NEW v \in Validation, NEW s, NEW sure \in BOOLEAN
  PROVE  GoesRight(MakeDecision(v, s, sure), v.model, s = "escalation", FALSE, FALSE)
<1> DEFINE asked == s = "escalation"
           d == MakeDecision(v, s, sure)
<1>0. v.model \in Models /\ asked \in BOOLEAN
  BY DEF Validation
<1> HIDE DEF asked
<1> DEFINE said == BySignal(v, s, sure)
<1>1. CASE d = said /\ said.action # ""
  <2>1. CASE s = "escalation"
    <3>1. d = Decision("escalate", "opus", v.effort) /\ asked
      BY <1>1, <2>1 DEF BySignal, asked
    <3> QED
      BY <1>0, <3>1, StepToTop DEF asked
  <2>2. CASE s = "success" /\ sure
    <3>1. d = IF v.model = "haiku" THEN Decision("stay", v.model, v.effort)
              ELSE Decision("cascade", Down(v.model), v.effort)
      BY <1>1, <2>2 DEF BySignal
    <3>2. CASE v.model = "haiku"
      <4>1. GoesRight(Decision("stay", v.model, v.effort), v.model, asked, FALSE, FALSE)
        BY <1>0, StepNone
      <4> QED
        BY <3>1, <3>2, <4>1, Zenon DEF asked
    <3>3. CASE v.model # "haiku"
      <4>1. GoesRight(Decision("cascade", Down(v.model), v.effort), v.model, asked, FALSE, FALSE)
        BY <1>0, <3>3, StepDown
      <4> QED
        BY <3>1, <3>3, <4>1, Zenon DEF asked
    <3> QED
      BY <3>2, <3>3
  <2>3. CASE s = "failure" /\ sure
    <3>1. d = IF v.model = "opus" THEN Decision("stay", v.model, v.effort)
              ELSE Decision("escalate", Up(v.model), EffortFor[Up(v.model)])
      BY <1>1, <2>3 DEF BySignal
    <3>2. CASE v.model = "opus"
      <4>1. GoesRight(Decision("stay", v.model, v.effort), v.model, asked, FALSE, FALSE)
        BY <1>0, StepNone
      <4> QED
        BY <3>1, <3>2, <4>1, Zenon DEF asked
    <3>3. CASE v.model # "opus"
      <4>1. GoesRight(Decision("escalate", Up(v.model), EffortFor[Up(v.model)]), v.model, asked, FALSE, FALSE)
        BY <1>0, <3>3, StepUp
      <4> QED
        BY <3>1, <3>3, <4>1 DEF asked
    <3> QED
      BY <3>2, <3>3
  <2>4. CASE s # "escalation" /\ ~(s = "success" /\ sure) /\ ~(s = "failure" /\ sure)
    <3>1. said.action = ""
      BY <2>4 DEF BySignal, Decision
    <3> QED
      BY <1>1, <3>1
  <2> QED
    BY <2>1, <2>2, <2>3, <2>4
<1>2. CASE d = ByTokens(v.model, v.effort, v.error) \/ d = ByEffort(v.model, v.effort, s)
  <2>2. \/ ByTokens(v.model, v.effort, v.error) = Decision("escalate", Up(v.model), EffortFor[Up(v.model)]) /\ v.model # "opus"
        \/ v.model # "haiku" /\ \E e : ByTokens(v.model, v.effort, v.error) = Decision("cascade", Down(v.model), e)
        \/ \E act \in {"stay", ""} : ByTokens(v.model, v.effort, v.error) = Decision(act, v.model, v.effort)
    BY DEF ByTokens
  <2>3. \/ \E to, e : ByEffort(v.model, v.effort, s) = Decision("adjust_effort", to, e)
        \/ ByEffort(v.model, v.effort, s) = Decision("", v.model, v.effort)
    BY DEF ByEffort
  <2>4. GoesRight(ByTokens(v.model, v.effort, v.error), v.model, asked, FALSE, FALSE)
    BY <1>0, <2>2, StepUp, StepDown, StepNone
  <2>5. GoesRight(ByEffort(v.model, v.effort, s), v.model, asked, FALSE, FALSE)
    BY <1>0, <2>3, StepOther, StepNone
  <2> QED
    BY <1>2, <2>4, <2>5 DEF asked
<1>3. (d = said /\ said.action # "") \/ d = ByTokens(v.model, v.effort, v.error) \/ d = ByEffort(v.model, v.effort, s)
  <2> HIDE DEF d, said
  <2> QED
    BY DecidingRule, Zenon DEF d, said
<1> QED
  BY <1>1, <1>2, <1>3, Zenon

\* A text is heard for the first group it matches.
LEMMA HeardFirst ==
  ASSUME NEW G \in SUBSET Groups
  PROVE  /\ "escalation" \in G => DetectSignal(G) = "escalation"
         /\ "escalation" \notin G /\ "success" \in G => DetectSignal(G) = "success"
         /\ G \cap {"escalation", "success", "failure"} = {"failure"} => DetectSignal(G) = "failure"
         /\ G \cap {"escalation", "success", "failure"} = {} /\ G # {} =>
              G = {"effort_low"} /\ DetectSignal(G) = "effort_low"
         /\ DetectSignal(G) = "none" <=> G = {}
<1> DEFINE hits == {k \in DOMAIN SignalOrder : SignalOrder[k] \in G}
           first == CHOOSE k \in hits : \A l \in hits : k <= l
<1>1. /\ DOMAIN SignalOrder = 1..6 /\ SignalOrder[1] = "escalation" /\ SignalOrder[2] = "success"
      /\ SignalOrder[3] = "failure" /\ SignalOrder[4] = "clarification" /\ SignalOrder[5] = "effort_high"
      /\ SignalOrder[6] = "effort_low"
  BY DEF SignalOrder
<1>2. hits \in SUBSET {1, 2, 3, 6} /\ (1 \in hits <=> "escalation" \in G) /\ (2 \in hits <=> "success" \in G)
      /\ (3 \in hits <=> "failure" \in G) /\ (6 \in hits <=> "effort_low" \in G)
  BY <1>1 DEF Groups
<1>3. DetectSignal(G) = IF hits = {} THEN "none" ELSE SignalOrder[first]
  BY DEF DetectSignal
<1>4. hits # {} => first \in hits /\ \A l \in hits : first <= l
  <2>1. hits \in SUBSET Nat
    BY <1>2
  <2> HIDE DEF hits
  <2>2. hits # {} => \E k \in hits : \A l \in hits : k <= l
    BY <2>1, LeastNumber
  <2> QED
    BY <2>2, Zenon
<1> HIDE DEF hits, first
<1>5. G \subseteq {"escalation", "success", "failure", "effort_low"}
  BY DEF Groups
<1>12. hits # {} => first \in {1, 2, 3, 6} /\ first \in hits /\ \A l \in hits : first <= l
  BY <1>2, <1>4
<1>6. CASE 1 \in hits
  <2>1. first = 1
    <3>1. first \in {1, 2, 3, 6} /\ first \in hits /\ first <= 1
      BY <1>12, <1>6
    <3> QED
      BY <1>6, <3>1
  <2> QED
    BY <1>1, <1>2, <1>3, <1>6, <2>1
<1>7. CASE 1 \notin hits /\ 2 \in hits
  <2>1. first = 2
    <3>1. first \in {1, 2, 3, 6} /\ first \in hits /\ first <= 2
      BY <1>12, <1>7
    <3> QED
      BY <1>7, <3>1
  <2> QED
    BY <1>1, <1>2, <1>3, <1>7, <2>1
<1>8. CASE 1 \notin hits /\ 2 \notin hits /\ 3 \in hits
  <2>1. first = 3
    <3>1. first \in {1, 2, 3, 6} /\ first \in hits /\ first <= 3
      BY <1>12, <1>8
    <3> QED
      BY <1>8, <3>1
  <2> QED
    BY <1>1, <1>2, <1>3, <1>8, <2>1
<1>9. CASE hits = {6}
  <2>1. first = 6
    BY <1>4, <1>9
  <2>2. G = {"effort_low"}
    <3>1. "escalation" \notin G /\ "success" \notin G /\ "failure" \notin G /\ "effort_low" \in G
      BY <1>2, <1>9
    <3> QED
      BY <1>5, <3>1
  <2> QED
    BY <1>1, <1>2, <1>3, <1>9, <2>1, <2>2
<1>10. CASE hits = {}
  <2>1. G = {}
    BY <1>2, <1>5, <1>10
  <2> QED
    BY <1>3, <1>10, <2>1
<1>11. 1 \in hits \/ 2 \in hits \/ 3 \in hits \/ hits = {6} \/ hits = {}
  BY <1>2
<1> QED
  BY <1>6, <1>7, <1>8, <1>9, <1>10, <1>11

\* The rules of the engine in their order.
InOrder(d, said, sure, close) ==
  /\ "escalation" \in said => d.action = "escalate" /\ d.model = "opus"
  /\ sure /\ "success" \in said /\ "escalation" \notin said => d.action \in {"cascade", "stay"}
  /\ sure /\ said \cap {"escalation", "success", "failure"} = {"failure"} => d.action \in {"escalate", "stay"}
  /\ d.action = "adjust_effort" => said = {"effort_low"} /\ ~close

LEMMA EngineInOrder ==
  ASSUME NEW v \in Validation, NEW G \in SUBSET Groups, NEW sure \in BOOLEAN
  PROVE  InOrder(MakeDecision(v, DetectSignal(G), sure), G, sure, v.validated /\ v.error \in -15..15)
<1> DEFINE s == DetectSignal(G)
           d == MakeDecision(v, s, sure)
           said == BySignal(v, s, sure)
           close == v.validated /\ v.error \in -15..15
<1>0. v.validated \in BOOLEAN /\ close \in BOOLEAN
  BY DEF Validation
<1>1. s = "escalation" => said = Decision("escalate", "opus", v.effort)
  BY DEF BySignal
<1>2. s = "success" /\ sure => said.action \in {"cascade", "stay"}
  BY DEF BySignal, Decision
<1>3. s = "failure" /\ sure => said.action \in {"escalate", "stay"}
  BY DEF BySignal, Decision
<1>4. said.action # "adjust_effort"
  BY DEF BySignal, Decision
<1>5. ByTokens(v.model, v.effort, v.error).action # "adjust_effort"
  BY DEF ByTokens, Decision
<1>6. v.error \in -15..15 => ByTokens(v.model, v.effort, v.error).action = "stay"
  <2>1. v.error \in {-16, -15, 0, 15, 16}
    BY DEF Validation
  <2> QED
    BY <2>1 DEF ByTokens, Decision
<1>7. ByEffort(v.model, v.effort, s).action = "adjust_effort" => s \in {"effort_high", "effort_low"}
  BY DEF ByEffort, Decision
<1>8. s = "escalation" => said.action = "escalate" /\ said.model = "opus"
  BY <1>1 DEF Decision
<1>9. \/ d = said /\ said.action # ""
      \/ /\ said.action = ""
         /\ \/ v.validated /\ d = ByTokens(v.model, v.effort, v.error) /\ d.action # ""
            \/ /\ d = ByEffort(v.model, v.effort, s)
               /\ v.validated => ByTokens(v.model, v.effort, v.error).action = ""
  <2> HIDE DEF s, d, said
  <2> QED
    BY DecidingRule, Zenon DEF d, said
<1>10. /\ "escalation" \in G => s = "escalation"
       /\ "escalation" \notin G /\ "success" \in G => s = "success"
       /\ G \cap {"escalation", "success", "failure"} = {"failure"} => s = "failure"
       /\ s \in {"effort_high", "effort_low"} => G = {"effort_low"}
  <2>1. /\ "escalation" \in G => s = "escalation"
        /\ "escalation" \notin G /\ "success" \in G => s = "success"
        /\ G \cap {"escalation", "success", "failure"} = {"failure"} => s = "failure"
        /\ G \cap {"escalation", "success", "failure"} = {} /\ G # {} => G = {"effort_low"}
        /\ s = "none" <=> G = {}
    BY HeardFirst
  <2>2. G \in SUBSET {"escalation", "success", "failure", "effort_low"}
    BY DEF Groups
  <2> HIDE DEF s
  <2>3. s \in {"effort_high", "effort_low"} => G = {"effort_low"}
    <3>1. "escalation" \in G \/ "success" \in G \/ G \cap {"escalation", "success", "failure"} = {"failure"}
          \/ G \cap {"escalation", "success", "failure"} = {}
      BY <2>2
    <3> QED
      BY <2>1, <3>1
  <2> QED
    BY <2>1, <2>3
<1> HIDE DEF s, d, said, close
<1>11. "escalation" \in G => d.action = "escalate" /\ d.model = "opus"
  BY <1>8, <1>9, <1>10
<1>12. sure /\ "success" \in G /\ "escalation" \notin G => d.action \in {"cascade", "stay"}
  BY <1>2, <1>9, <1>10
<1>13. sure /\ G \cap {"escalation", "success", "failure"} = {"failure"} => d.action \in {"escalate", "stay"}
  BY <1>3, <1>9, <1>10
<1>14. d.action = "adjust_effort" => G = {"effort_low"} /\ ~close
  <2>1. d.action = "adjust_effort" =>
          /\ d = ByEffort(v.model, v.effort, s)
          /\ v.validated => ByTokens(v.model, v.effort, v.error).action = ""
    BY <1>4, <1>5, <1>9
  <2> QED
    BY <1>0, <1>6, <1>7, <1>10, <2>1 DEF close
<1>15. InOrder(d, G, sure, close)
  BY <1>11, <1>12, <1>13, <1>14, Zenon DEF InOrder
<1> QED
  BY <1>15 DEF d, s, close

LEMMA MoodGoesRight ==
  ASSUME NEW risk, NEW mood, NEW m \in Models, NEW attempts \in 0..2
  PROVE  GoesRight(HandleFrustration(risk, mood, m, attempts), m, FALSE, attempts >= 2, risk = 20)
<1> DEFINE d == HandleFrustration(risk, mood, m, attempts)
           twice == attempts >= 2
           worst == risk = 20
<1>0. twice \in BOOLEAN /\ worst \in BOOLEAN
  OBVIOUS
<1>1. CASE risk > 14
  <2>1. CASE m = "opus"
    <3>1. d = Decision("none", "", "")
      BY <1>1, <2>1 DEF HandleFrustration, NoAction
    <3> HIDE DEF d, twice, worst
    <3>2. GoesRight(Decision("none", "", ""), m, FALSE, twice, worst)
      BY <1>0, <2>1, StepOther
    <3> QED
      BY <3>1, <3>2 DEF d, twice, worst
  <2>2. CASE m # "opus" /\ attempts < 2
    BY <1>0, <1>1, <2>2, StepUp DEF HandleFrustration
  <2>3. CASE m # "opus" /\ ~(attempts < 2)
    <3>1. d = Decision("escalate", "opus", "high") /\ twice
      BY <1>1, <2>3 DEF HandleFrustration
    <3> HIDE DEF d, twice, worst
    <3>2. GoesRight(d, m, FALSE, twice, worst)
      BY <1>0, <2>3, <3>1, StepToTop
    <3> QED
      BY <3>2 DEF d, twice, worst
  <2> QED
    BY <2>1, <2>2, <2>3
<1>2. CASE ~(risk > 14)
  <2>1. ~worst
    BY <1>2
  <2>2. \/ d = Decision("adjust_effort", "haiku", "low")
        \/ m = "haiku" /\ d = Decision("escalate", Up(m), EffortFor[Up(m)])
        \/ d = Decision("none", "", "")
    BY <1>2, TiersAre DEF HandleFrustration, NoAction, Up
  <2> HIDE DEF d, twice, worst
  <2>3. GoesRight(d, m, FALSE, twice, worst)
    BY <1>0, <2>1, <2>2, StepOther, StepUp
  <2> QED
    BY <2>3 DEF d, twice, worst
<1> QED
  BY <1>1, <1>2

LEMMA ReliefGoesRight ==
  ASSUME NEW mood, NEW m \in Models
  PROVE  GoesRight(ShouldDeEscalate(mood, TRUE, m), m, FALSE, FALSE, FALSE)
<1>1. \/ m # "haiku" /\ ShouldDeEscalate(mood, TRUE, m) = Decision("cascade", Down(m), EffortFor[Down(m)])
      \/ ShouldDeEscalate(mood, TRUE, m) = Decision("none", "", "")
  BY DEF ShouldDeEscalate, NoAction
<1> QED
  BY <1>1, StepDown, StepOther

\* The tables of the classifier, side by side.
LEMMA ClassesAre ==
  ASSUME NEW s
  PROVE  LET d == Classified(s) IN
         /\ d.intent = s /\ d.cacheSafe \in BOOLEAN
         /\ d.cacheSafe <=> s \in {"quick_answer", "routine"}
         /\ d.cacheSafe <=> d.model = "haiku"
         /\ d.cacheSafe <=> d.mode = "aggressive"
         /\ d.cacheSafe <=> d.tokens = 256
<1> DEFINE cheap == s \in {"quick_answer", "routine"}
<1>1. Classified(s).intent = s /\ Classified(s).cacheSafe = cheap
  BY DEF Classified, CacheSafe
<1>2. cheap <=> Classified(s).model = "haiku"
  BY DEF Classified, EffortModel, IntentEffort
<1>3. cheap <=> Classified(s).mode = "aggressive"
  BY DEF Classified, OptimizeMode
<1>4. cheap <=> Classified(s).tokens = 256
  <2>1. Classified(s).tokens = MaxTokens(s)
    BY DEF Classified
  <2>2. CASE cheap
    BY <2>1, <2>2 DEF MaxTokens
  <2>3. CASE ~cheap
    <3>1. MaxTokens(s) \in {512, 1024, 2000}
      BY <2>3 DEF MaxTokens
    <3> QED
      BY <2>1, <2>3, <3>1
  <2> QED
    BY <2>2, <2>3
<1> DEFINE d == Classified(s)
<1>5. cheap \in BOOLEAN
  OBVIOUS
<1> HIDE DEF cheap, d
<1>6. d.intent = s /\ d.cacheSafe \in BOOLEAN /\ (d.cacheSafe <=> cheap)
  BY <1>1, <1>5 DEF d
<1>7. (d.cacheSafe <=> d.model = "haiku") /\ (d.cacheSafe <=> d.mode = "aggressive") /\ (d.cacheSafe <=> d.tokens = 256)
  BY <1>2, <1>3, <1>4, <1>6 DEF d
<1> QED
  BY <1>6, <1>7 DEF d, cheap

LEMMA ClassifiesRight ==
  ASSUME NEW q \in Queries
  PROVE  LET d == Classify(q) IN
         /\ d.cacheSafe <=> d.model = "haiku"
         /\ d.cacheSafe <=> d.mode = "aggressive"
         /\ d.cacheSafe <=> d.tokens = 256
         /\ d.cacheSafe => ~q.explicit /\ ~(feedback.freshness /\ q.summary = "lower")
         /\ q.pasted /\ ~q.explicit /\ q.contextual < 2 => d.intent # "cache_bypass"
<1> DEFINE d == Classify(q)
           s == IF ShouldBypass(DetectBypass(q)) THEN "cache_bypass" ELSE Modulated(BaseIntent(q), q)
<1>0. q.explicit \in BOOLEAN /\ q.pasted \in BOOLEAN /\ q.contextual \in 0..4 /\ q.ml \in {"", "routine", "learning"}
  BY DEF Queries
<1>1. d = Classified(s)
  BY DEF Classify
<1>2. q.explicit => s = "cache_bypass"
  BY DEF DetectBypass, ShouldBypass
<1>3. feedback.freshness /\ q.summary = "lower" => s \in {"cache_bypass", "detailed_analysis"}
  BY DEF Modulated
<1>4. q.pasted /\ ~q.explicit /\ q.contextual < 2 => s # "cache_bypass"
  <2>1. BaseIntent(q) # "cache_bypass"
    BY <1>0 DEF BaseIntent
  <2>2. Modulated(BaseIntent(q), q) # "cache_bypass"
    BY <2>1 DEF Modulated
  <2>3. ASSUME q.pasted, ~q.explicit, q.contextual < 2 PROVE ~ShouldBypass(DetectBypass(q))
    <3> DEFINE n == q.contextual
    <3>0. n \in 0..4 /\ n < 2
      BY <1>0, <2>3
    <3> HIDE DEF n
    <3>1. ~(n >= 2)
      BY <3>0
    <3>2. DetectBypass(q) = [sure |-> 10, layer |-> "paste"]
      BY <2>3, <3>1, Zenon DEF DetectBypass, n
    <3> QED
      BY <3>2 DEF ShouldBypass
  <2> QED
    BY <2>2, <2>3
<1> HIDE DEF d, s
<1>5. /\ d.intent = s
      /\ d.cacheSafe <=> s \in {"quick_answer", "routine"}
      /\ d.cacheSafe <=> d.model = "haiku"
      /\ d.cacheSafe <=> d.mode = "aggressive"
      /\ d.cacheSafe <=> d.tokens = 256
  BY <1>1, ClassesAre
<1>6. d.cacheSafe => ~q.explicit /\ ~(feedback.freshness /\ q.summary = "lower")
  BY <1>2, <1>3, <1>5
<1> QED
  BY <1>4, <1>5, <1>6 DEF d

LEMMA RoutesFollow ==
  ASSUME Decide
  PROVE  DecisionsRight'
<1>1. CASE DecideByEngine
  <2>1. PICK v \in Validation, prompt \in SUBSET Groups, response \in SUBSET Groups, sure \in BOOLEAN :
          LET signal == AnalyzePromptAndResponse(prompt, response) IN
          verdict' = [rule |-> "engine", model |-> v.model, asked |-> signal = "escalation",
                      said |-> [prompt |-> prompt, response |-> response, sure |-> sure],
                      close |-> v.validated /\ v.error \in -15..15, out |-> MakeDecision(v, signal, sure)]
    BY <1>1, Zenon DEF DecideByEngine
  <2> DEFINE s == AnalyzePromptAndResponse(prompt, response)
             d == MakeDecision(v, s, sure)
             close == v.validated /\ v.error \in -15..15
             said == IF response # {} THEN response ELSE prompt
  <2>2. /\ verdict'.rule = "engine" /\ verdict'.model = v.model /\ verdict'.asked = (s = "escalation")
        /\ verdict'.said = [prompt |-> prompt, response |-> response, sure |-> sure]
        /\ verdict'.close = close /\ verdict'.out = d
    BY <2>1
  <2>3. GoesRight(d, v.model, s = "escalation", FALSE, FALSE)
    <3> HIDE DEF s
    <3> QED
      BY EngineGoesRight
  <2>4. s = DetectSignal(said) /\ said \in SUBSET Groups
    <3>1. DetectSignal(response) = "none" <=> response = {}
      BY HeardFirst
    <3> QED
      BY <3>1 DEF AnalyzePromptAndResponse
  <2>5. InOrder(d, said, sure, close)
    <3> HIDE DEF s, said
    <3>1. InOrder(MakeDecision(v, DetectSignal(said), sure), said, sure, close)
      BY <2>4, EngineInOrder
    <3> QED
      BY <2>4, <3>1, Zenon
  <2>6. (IF verdict'.said.response # {} THEN verdict'.said.response ELSE verdict'.said.prompt) = said
        /\ verdict'.said.sure = sure
    BY <2>2
  <2> HIDE DEF s, d, close, said
  <2>7. RoutesRight'
    BY <2>2, <2>3 DEF RoutesRight, GoesRight
  <2>8. RulesInOrder'
    BY <2>2, <2>5, <2>6 DEF RulesInOrder, InOrder
  <2> QED
    BY <2>2, <2>7, <2>8 DEF DecisionsRight, CachedIsCheap
<1>2. CASE DecideByMood
  <2>0. PICK hits \in [Moods -> 0..2], rapid \in BOOLEAN, escalate \in BOOLEAN, m \in Models, attempts \in 0..2 :
          \E primary \in Primaries(hits, rapid, escalate) :
            LET risk == Risk(hits, rapid, escalate) IN
            \/ verdict' = [rule |-> "mood", model |-> m, risk |-> risk, attempts |-> attempts,
                           out |-> HandleFrustration(risk, primary, m, attempts)]
            \/ verdict' = [rule |-> "relief", model |-> m, risk |-> risk, attempts |-> attempts,
                           out |-> ShouldDeEscalate(primary, TRUE, m)]
    BY <1>2, Zenon DEF DecideByMood
  <2> DEFINE risk == Risk(hits, rapid, escalate)
  <2>1. PICK primary \in Primaries(hits, rapid, escalate) :
          \/ verdict' = [rule |-> "mood", model |-> m, risk |-> risk, attempts |-> attempts,
                         out |-> HandleFrustration(risk, primary, m, attempts)]
          \/ verdict' = [rule |-> "relief", model |-> m, risk |-> risk, attempts |-> attempts,
                         out |-> ShouldDeEscalate(primary, TRUE, m)]
    BY <2>0, Zenon
  <2> HIDE DEF risk
  <2>2. CASE verdict' = [rule |-> "mood", model |-> m, risk |-> risk, attempts |-> attempts,
                         out |-> HandleFrustration(risk, primary, m, attempts)]
    <3> DEFINE d == HandleFrustration(risk, primary, m, attempts)
    <3>1. /\ verdict'.rule = "mood" /\ verdict'.model = m /\ verdict'.risk = risk
          /\ verdict'.attempts = attempts /\ verdict'.out = d
      BY <2>2
    <3>2. GoesRight(d, m, FALSE, attempts >= 2, risk = 20)
      BY MoodGoesRight
    <3> HIDE DEF d
    <3>3. RoutesRight'
      BY <3>1, <3>2 DEF RoutesRight, GoesRight
    <3> QED
      BY <3>1, <3>3 DEF DecisionsRight, RulesInOrder, CachedIsCheap
  <2>3. CASE verdict' = [rule |-> "relief", model |-> m, risk |-> risk, attempts |-> attempts,
                         out |-> ShouldDeEscalate(primary, TRUE, m)]
    <3> DEFINE d == ShouldDeEscalate(primary, TRUE, m)
    <3>1. /\ verdict'.rule = "relief" /\ verdict'.model = m /\ verdict'.out = d
      BY <2>3
    <3>2. GoesRight(d, m, FALSE, FALSE, FALSE)
      BY ReliefGoesRight
    <3> HIDE DEF d
    <3>3. RoutesRight'
      BY <3>1, <3>2 DEF RoutesRight, GoesRight
    <3> QED
      BY <3>1, <3>3 DEF DecisionsRight, RulesInOrder, CachedIsCheap
  <2> QED
    BY <2>1, <2>2, <2>3
<1>3. CASE DecideByIntent
  <2>1. PICK q \in Queries : verdict' = [rule |-> "intent", given |-> q, fresh |-> feedback.freshness,
                                         out |-> Classify(q)]
    BY <1>3 DEF DecideByIntent
  <2> DEFINE d == Classify(q)
  <2>2. verdict'.rule = "intent" /\ verdict'.given = q /\ verdict'.fresh = feedback.freshness /\ verdict'.out = d
    BY <2>1
  <2>3. /\ d.cacheSafe <=> d.model = "haiku"
        /\ d.cacheSafe <=> d.mode = "aggressive"
        /\ d.cacheSafe <=> d.tokens = 256
        /\ d.cacheSafe => ~q.explicit /\ ~(feedback.freshness /\ q.summary = "lower")
        /\ q.pasted /\ ~q.explicit /\ q.contextual < 2 => d.intent # "cache_bypass"
    BY ClassifiesRight
  <2> HIDE DEF d
  <2>4. CachedIsCheap'
    BY <2>2, <2>3 DEF CachedIsCheap
  <2> QED
    BY <2>2, <2>4 DEF DecisionsRight, RulesInOrder, RoutesRight
<1> QED
  BY <1>1, <1>2, <1>3 DEF Decide

\* For every signal, mood and query, and whatever feedback came before: an escalation
\* goes up, a cascade down one tier, the engine's rules are asked in their order, and
\* the cache answers only what is cheap and was not marked.
THEOREM DecisionsStayRight == RulesSpec => []DecisionsRight
<1>1. RulesInit => DecisionsRight
  BY DEF RulesInit, Undecided, DecisionsRight, RoutesRight, RulesInOrder, CachedIsCheap
<1>2. DecisionsRight /\ [RulesNext]_rulesVars => DecisionsRight'
  <2> SUFFICES ASSUME DecisionsRight, [RulesNext]_rulesVars PROVE DecisionsRight'
    OBVIOUS
  <2>1. CASE UNCHANGED rulesVars
    <3>1. verdict' = verdict
      BY <2>1 DEF rulesVars
    <3>2. RoutesRight'
      BY <3>1 DEF DecisionsRight, RoutesRight
    <3>3. CachedIsCheap'
      BY <3>1 DEF DecisionsRight, CachedIsCheap
    <3>4. RulesInOrder'
      BY <3>1 DEF DecisionsRight, RulesInOrder
    <3> QED
      BY <3>2, <3>3, <3>4 DEF DecisionsRight
  <2>2. CASE \E r \in {"excellent", "good", "okay", "poor"} : RecordFeedback(r)
    BY <2>2 DEF RecordFeedback, Undecided, DecisionsRight, RoutesRight, RulesInOrder, CachedIsCheap
  <2> QED
    BY <2>1, <2>2, RoutesFollow DEF RulesNext
<1> QED
  BY <1>1, <1>2, PTL DEF RulesSpec
-----------------------------------------------------------------------------
(* The rate limiter                                                        *)

LimiterTypeOK ==
  /\ named \in Buckets \cup {NoBucket}
  /\ bucket \in [Buckets -> [units : 0..Full, age : 0..(IdleLimit + 1)]]
  /\ handle \in [Client -> Buckets \cup {NoBucket}]
  /\ credit \in Int /\ stray \in BOOLEAN

\* Two tokens for each caller make twice the slack.
Slack == TokenCost * Cardinality(Client)
\* The clients that hold a bucket no longer in the map, and what they may still take.
Strays == {c \in Client : handle[c] # NoBucket /\ handle[c] # named}
Owed(S) == TokenCost * Cardinality(S)

LEMMA LimiterConstants ==
  /\ Full \in Nat \ {0} /\ TokenCost \in Nat \ {0} /\ Capacity \in Nat \ {0} /\ IdleLimit \in Nat
  /\ Slack \in Nat /\ IdleLimit >= Full + Slack /\ Full = Capacity * TokenCost
  /\ IsFiniteSet(Client) /\ Cardinality(Client) \in Nat /\ NoBucket \notin Buckets
<1>1. Capacity \in Nat \ {0} /\ TokenCost \in Nat \ {0} /\ IdleLimit \in Nat \ {0}
  BY LimiterAssumption
<1>2. Capacity * TokenCost \in Nat \ {0}
  BY <1>1
<1>3. IsFiniteSet(Client) /\ Cardinality(Client) \in Nat
  BY LimiterAssumption, FS_CardinalityType
<1>4. Slack \in Nat
  BY <1>1, <1>3 DEF Slack
<1>5. IdleLimit >= Full + Slack
  BY LimiterAssumption DEF Full, Slack
<1> QED
  BY <1>1, <1>2, <1>3, <1>4, <1>5 DEF Full, Buckets, NoBucket

\* What a set of clients may take: one token each.
LEMMA OwedIs ==
  ASSUME NEW S \in SUBSET Client
  PROVE  /\ Owed(S) \in Nat /\ Owed(S) <= Slack
         /\ \A c \in S : Owed(S \ {c}) = Owed(S) - TokenCost
<1>1. IsFiniteSet(S) /\ Cardinality(S) \in Nat /\ Cardinality(S) <= Cardinality(Client)
  BY LimiterConstants, FS_Subset, FS_CardinalityType
<1>2. \A n, x, y \in Nat : x <= y => n * x \in Nat /\ n * x <= n * y
  OBVIOUS
<1>3. TokenCost \in Nat /\ Cardinality(Client) \in Nat
  BY LimiterConstants
<1>4. Owed(S) \in Nat /\ Owed(S) <= Slack
  BY <1>1, <1>2, <1>3 DEF Owed, Slack
<1>5. ASSUME NEW c \in S PROVE Owed(S \ {c}) = Owed(S) - TokenCost
  <2>1. Cardinality(S \ {c}) = Cardinality(S) - 1
    BY <1>1, FS_RemoveElement
  <2>2. \A n, x \in Nat : n * (x - 1) = n * x - n
    OBVIOUS
  <2> QED
    BY <1>1, <1>3, <2>1, <2>2 DEF Owed
<1> QED
  BY <1>4, <1>5

\* There is always a bucket that nobody holds: a new one can be made.
LEMMA FreshBucketExists ==
  ASSUME LimiterTypeOK
  PROVE  LET held == {handle[d] : d \in Client} IN
           Min(Buckets \ held) \in Buckets \ held
<1> DEFINE held == {handle[d] : d \in Client}
<1>1. IsFiniteSet(held) /\ Cardinality(held) <= Cardinality(Client)
  <2>1. handle \in Surjection(Client, held)
    BY DEF LimiterTypeOK, Surjection
  <2> QED
    BY <2>1, LimiterConstants, FS_Surjection
<1>2. IsFiniteSet(Buckets) /\ Cardinality(Buckets) = Cardinality(Client) + 1
  BY LimiterConstants, FS_Interval DEF Buckets
<1>3. ~(Buckets \subseteq held)
  BY <1>1, <1>2, FS_Subset, FS_CardinalityType, LimiterConstants
<1>4. Buckets \ held \in SUBSET Nat /\ Buckets \ held # {}
  BY <1>3 DEF Buckets
<1> QED
  BY <1>4, MinOfNumbers

\* The refill stops at a full bucket.
LEMMA RefilledValue ==
  ASSUME LimiterTypeOK, NEW b \in Buckets
  PROVE  /\ Refilled(b) \in 0..Full
         /\ Refilled(b) = IF bucket[b].units + bucket[b].age <= Full
                          THEN bucket[b].units + bucket[b].age ELSE Full
         /\ bucket[b].units <= Refilled(b)
<1>1. bucket[b].units \in 0..Full /\ bucket[b].age \in 0..(IdleLimit + 1)
  BY DEF LimiterTypeOK
<1>2. Full \in Nat /\ bucket[b].units + bucket[b].age \in Nat
  BY <1>1, LimiterConstants
<1>3. Refilled(b) = IF bucket[b].units + bucket[b].age <= Full
                    THEN bucket[b].units + bucket[b].age ELSE Full
  BY <1>2, MinOfTwo DEF Refilled
<1> QED
  BY <1>1, <1>2, <1>3

\* How long the bucket in the map has been full, as far as that lowers the excess.
FullFor == IF named = NoBucket THEN 0 ELSE bucket[named].units + bucket[named].age - Full

\* The ideal bucket is behind by what strays have taken and may take: never by more
\* than twice the slack, and by the slack alone when the bucket in the map has been
\* full for that long, as it has when the cleanup removes it.
Within(level, ideal, owed, time) ==
  /\ ideal <= level /\ level - ideal + owed <= 2 * Slack
  /\ level - ideal + owed <= Slack \/ level - ideal + owed + time <= 2 * Slack
ExcessIsOwed == Within(InStock, credit, Owed(Strays), FullFor)
CreditIsIdeal == ~stray => credit = InStock
LimiterInv == LimiterTypeOK /\ ExcessIsOwed /\ CreditIsIdeal

LevelFacts ==
  /\ InStock \in 0..Full /\ FullFor \in Int
  /\ named = NoBucket => InStock = Full /\ FullFor = 0
  /\ named # NoBucket =>
       /\ named \in Buckets /\ FullFor = bucket[named].units + bucket[named].age - Full
       /\ InStock = IF FullFor <= 0 THEN FullFor + Full ELSE Full
  /\ Strays \in SUBSET Client

LEMMA LevelIs == LimiterTypeOK => LevelFacts
<1> SUFFICES ASSUME LimiterTypeOK PROVE LevelFacts
  OBVIOUS
<1>1. CASE named = NoBucket
  BY <1>1, LimiterConstants DEF InStock, FullFor, Strays, LimiterTypeOK, LevelFacts
<1>2. CASE named # NoBucket
  <2>1. named \in Buckets
    BY <1>2 DEF LimiterTypeOK
  <2>2. bucket[named].units \in 0..Full /\ bucket[named].age \in 0..(IdleLimit + 1)
    BY <2>1 DEF LimiterTypeOK
  <2>3. InStock = Refilled(named) /\ FullFor = bucket[named].units + bucket[named].age - Full
    BY <1>2 DEF InStock, FullFor
  <2>4. InStock \in 0..Full /\ InStock = IF bucket[named].units + bucket[named].age <= Full
                   THEN bucket[named].units + bucket[named].age ELSE Full
    BY <2>1, <2>3, RefilledValue
  <2>5. Strays \in SUBSET Client
    BY DEF Strays
  <2> QED
    BY <1>2, <2>1, <2>2, <2>3, <2>4, <2>5, LimiterConstants DEF LevelFacts
<1> QED
  BY <1>1, <1>2

LEMMA LevelWillBe == LimiterTypeOK' => LevelFacts'
  BY LevelIs, PTL

LEMMA LimiterInitInv == LimiterInit => LimiterInv
<1> SUFFICES ASSUME LimiterInit PROVE LimiterInv
  OBVIOUS
<1>1. LimiterTypeOK
  <2>1. Fresh \in [units : 0..Full, age : 0..(IdleLimit + 1)]
    BY LimiterConstants DEF Fresh
  <2>2. credit \in Int
    BY LimiterConstants DEF LimiterInit
  <2>3. stray \in BOOLEAN
    BY Zenon DEF LimiterInit
  <2> QED
    BY <2>1, <2>2, <2>3 DEF LimiterInit, LimiterTypeOK
<1>2. Strays = {} /\ credit = Full /\ named = NoBucket
  BY DEF LimiterInit, Strays
<1>3. Owed(Strays) \in Nat /\ Owed(Strays) <= Slack
  BY <1>1, LevelIs, LevelWillBe, OwedIs DEF LevelFacts
<1> QED
  BY <1>1, <1>2, <1>3, LevelIs, LevelWillBe, LimiterConstants DEF LimiterInv, ExcessIsOwed, Within, CreditIsIdeal, LevelFacts

LEMMA LookUpStep ==
  ASSUME LimiterInv, NEW c \in Client, LookUp(c)
  PROVE  LimiterInv'
<1>0. LimiterTypeOK /\ ExcessIsOwed /\ CreditIsIdeal
  BY DEF LimiterInv
<1>1. CASE named # NoBucket
  <2>1. /\ handle' = [handle EXCEPT ![c] = named] /\ handle[c] = NoBucket
        /\ UNCHANGED <<named, bucket, credit, stray>>
    BY <1>1 DEF LookUp
  <2>2. LimiterTypeOK'
    BY <1>0, <1>1, <2>1 DEF LimiterTypeOK
  <2>3. Strays' = Strays
    BY <1>0, <2>1 DEF LimiterTypeOK, Strays
  <2>4. InStock' = InStock /\ FullFor' = FullFor
    BY <2>1 DEF InStock, FullFor, Refilled
  <2> QED
    BY <1>0, <2>1, <2>2, <2>3, <2>4 DEF LimiterInv, ExcessIsOwed, CreditIsIdeal
<1>2. CASE named = NoBucket
  <2> DEFINE b == Min(Buckets \ {handle[d] : d \in Client})
  <2>1. b \in Buckets /\ \A d \in Client : handle[d] # b
    BY <1>0, FreshBucketExists
  <2>2. /\ named' = b /\ bucket' = [bucket EXCEPT ![b] = Fresh] /\ handle[c] = NoBucket
        /\ handle' = [handle EXCEPT ![c] = b] /\ credit' = credit /\ stray' = stray
    BY <1>2 DEF LookUp
  <2> HIDE DEF b
  <2>3. Fresh \in [units : 0..Full, age : 0..(IdleLimit + 1)]
    BY LimiterConstants DEF Fresh
  <2>4. LimiterTypeOK'
    BY <1>0, <2>1, <2>2, <2>3 DEF LimiterTypeOK
  <2>5. bucket'[b].units = Full /\ bucket'[b].age = 0 /\ b # NoBucket
    BY <1>0, <2>1, <2>2, LimiterConstants DEF LimiterTypeOK, Fresh
  <2>6. FullFor' = 0
    BY <2>2, <2>5, LimiterConstants DEF FullFor
  <2>7. InStock' = Full /\ InStock = Full /\ FullFor = 0
    BY <1>0, <1>2, <2>2, <2>4, <2>5, <2>6, LevelIs, LevelWillBe, LimiterConstants DEF LevelFacts
  <2>8. Strays' = Strays
    BY <1>0, <1>2, <2>1, <2>2 DEF LimiterTypeOK, Strays
  <2> QED
    BY <1>0, <2>2, <2>4, <2>6, <2>7, <2>8 DEF LimiterInv, ExcessIsOwed, CreditIsIdeal
<1> QED
  BY <1>1, <1>2

LEMMA TakeStep ==
  ASSUME LimiterInv, NEW c \in Client, Take(c)
  PROVE  LimiterInv'
<1>0. LimiterTypeOK /\ ExcessIsOwed /\ CreditIsIdeal
  BY DEF LimiterInv
<1> DEFINE b == handle[c]
           u == Refilled(b)
           granted == u >= TokenCost
           w == IF granted THEN u - TokenCost ELSE u
<1>1. b \in Buckets /\ b # NoBucket
  BY <1>0 DEF LimiterTypeOK, Take, TakeFrom
<1>2. u \in 0..Full
  BY <1>0, <1>1, RefilledValue
<1>3. /\ bucket' = [bucket EXCEPT ![b] = [units |-> w, age |-> 0]]
      /\ credit' = IF granted THEN credit - TokenCost ELSE credit
      /\ handle' = [handle EXCEPT ![c] = NoBucket]
      /\ stray' = (stray \/ (granted /\ b # named))
      /\ named' = named
  BY DEF Take, TakeFrom
<1>4. b = named => InStock = u
  BY <1>1 DEF InStock
<1>5. w \in 0..Full
  BY <1>2, LimiterConstants
<1>6. granted \in BOOLEAN /\ handle[c] = b
  OBVIOUS
<1> HIDE DEF b, u, w
<1>7. LimiterTypeOK'
  <2>1. [units |-> w, age |-> 0] \in [units : 0..Full, age : 0..(IdleLimit + 1)]
    BY <1>5, LimiterConstants
  <2>2. credit' \in Int /\ stray' \in BOOLEAN
    BY <1>0, <1>3, LimiterConstants DEF LimiterTypeOK
  <2> QED
    BY <1>0, <1>1, <1>3, <2>1, <2>2 DEF LimiterTypeOK
<1>8. Owed(Strays) \in Nat /\ Owed(Strays) <= Slack
  BY <1>0, LevelIs, LevelWillBe, OwedIs DEF LevelFacts
<1>9. CASE b = named
  <2>1. bucket'[named'].units = w /\ bucket'[named'].age = 0
    BY <1>0, <1>1, <1>3, <1>9 DEF LimiterTypeOK
  <2>2. FullFor' = w - Full /\ named' # NoBucket
    BY <1>1, <1>3, <1>5, <1>9, <2>1, LimiterConstants DEF FullFor
  <2>3. InStock' = w
    BY <1>5, <1>7, <2>2, LevelIs, LevelWillBe, LimiterConstants DEF LevelFacts
  <2>4. Strays' = Strays
    BY <1>0, <1>1, <1>3, <1>6, <1>9 DEF LimiterTypeOK, Strays
  <2>5. InStock - credit = InStock' - credit' /\ credit \in Int /\ InStock \in Int /\ credit' \in Int /\ InStock' \in Int
    BY <1>0, <1>2, <1>3, <1>4, <1>5, <1>9, <2>3, LimiterConstants DEF LimiterTypeOK, w
  <2>6. FullFor' \in Int /\ FullFor' <= 0
    BY <1>5, <2>2, LimiterConstants
  <2>7. InStock - credit + Owed(Strays) <= 2 * Slack /\ credit <= InStock
    BY <1>0 DEF ExcessIsOwed, Within
  <2>8. ExcessIsOwed'
    <3> DEFINE x == InStock  y == credit  z == Owed(Strays)
               x1 == InStock'  y1 == credit'  tt == FullFor'
    <3>1. Owed(Strays)' = z
      BY <2>4 DEF Owed
    <3>2. x \in Int /\ y \in Int /\ x1 \in Int /\ y1 \in Int /\ z \in Nat /\ tt \in Int /\ Slack \in Nat
      BY <1>8, <2>5, <2>6, LimiterConstants
    <3>3. x - y = x1 - y1 /\ tt <= 0 /\ x - y + z <= 2 * Slack /\ y <= x
      BY <2>5, <2>6, <2>7
    <3> HIDE DEF x, y, z, x1, y1, tt
    <3>4. Within(x1, y1, z, tt)
      BY <3>2, <3>3 DEF Within
    <3> QED
      BY <3>1, <3>4 DEF ExcessIsOwed, Within, Slack, x1, y1, tt
  <2>9. CreditIsIdeal'
    <3>1. ~stray' => ~stray
      BY <1>3, Zenon
    <3> DEFINE x == InStock  x1 == InStock'  y1 == credit'
    <3>2. credit = x => y1 = x1
      <4>1. x - credit = x1 - y1 /\ x \in Int /\ credit \in Int /\ x1 \in Int /\ y1 \in Int
        BY <2>5
      <4> HIDE DEF x, x1, y1
      <4> QED
        BY <4>1
    <3> QED
      BY <1>0, <3>1, <3>2, Zenon DEF CreditIsIdeal
  <2> QED
    BY <1>7, <2>8, <2>9 DEF LimiterInv
<1>10. CASE b # named
  <2>1. named # NoBucket => named \in Buckets /\ bucket'[named] = bucket[named]
    BY <1>0, <1>1, <1>3, <1>10 DEF LimiterTypeOK
  <2>2. InStock' = InStock /\ FullFor' = FullFor
    <3>1. CASE named = NoBucket
      BY <1>3, <3>1 DEF InStock, FullFor
    <3>2. CASE named # NoBucket
      <4>1. named' = named /\ bucket'[named'] = bucket[named]
        BY <1>3, <2>1, <3>2
      <4> QED
        BY <3>2, <4>1 DEF InStock, FullFor, Refilled
    <3> QED
      BY <3>1, <3>2
  <2>3. Strays' = Strays \ {c} /\ c \in Strays
    BY <1>0, <1>1, <1>3, <1>6, <1>10 DEF LimiterTypeOK, Strays
  <2>4. Owed(Strays)' = Owed(Strays) - TokenCost
    <3>1. Owed(Strays \ {c}) = Owed(Strays) - TokenCost
      BY <1>0, <2>3, LevelIs, LevelWillBe, OwedIs DEF LevelFacts
    <3> QED
      BY <2>3, <3>1 DEF Owed
  <2> DEFINE x == InStock  y == credit  z == Owed(Strays)  t == FullFor
  <2>5. x \in Int /\ y \in Int /\ z \in Int /\ t \in Int /\ Slack \in Nat /\ TokenCost \in Nat
    BY <1>0, <1>8, LevelIs, LevelWillBe, LimiterConstants DEF LimiterTypeOK, LevelFacts
  <2>6. y <= x /\ x - y + z <= 2 * Slack /\ (x - y + z <= Slack \/ x - y + z + t <= 2 * Slack)
    BY <1>0 DEF ExcessIsOwed, Within
  <2>7. credit' = y \/ credit' = y - TokenCost
    BY <1>3
  <2>8. ExcessIsOwed'
    <3> HIDE DEF x, y, z, t
    <3>1. Within(x, credit', z - TokenCost, t)
      BY <2>5, <2>6, <2>7 DEF Within
    <3> QED
      BY <2>2, <2>4, <3>1 DEF ExcessIsOwed, x, z, t, Within, Slack
  <2>9. CreditIsIdeal'
    BY <1>0, <1>3, <1>10, <2>2 DEF CreditIsIdeal
  <2> QED
    BY <1>7, <2>8, <2>9 DEF LimiterInv
<1> QED
  BY <1>9, <1>10

LEMMA DropStep ==
  ASSUME LimiterInv, Reset \/ CleanUp
  PROVE  LimiterInv'
<1>0. LimiterTypeOK /\ ExcessIsOwed /\ CreditIsIdeal
  BY DEF LimiterInv
<1>1. LimiterTypeOK' /\ named' = NoBucket
  <2>1. named' = NoBucket /\ bucket' = bucket /\ handle' = handle
    BY DEF Reset, CleanUp
  <2>2. credit' \in {credit, Full} /\ stray' \in {stray, FALSE}
    BY Zenon DEF Reset, CleanUp
  <2>3. credit' \in Int
    BY <1>0, <2>2, LimiterConstants DEF LimiterTypeOK
  <2>4. stray' \in BOOLEAN
    <3>1. stray \in BOOLEAN /\ FALSE \in BOOLEAN
      BY <1>0, Zenon DEF LimiterTypeOK
    <3> QED
      BY <2>2, <3>1, Zenon
  <2> QED
    BY <1>0, <2>1, <2>3, <2>4 DEF LimiterTypeOK
<1>2. InStock' = Full /\ FullFor' = 0 /\ Strays' \in SUBSET Client
  BY <1>1, LevelIs, LevelWillBe DEF LevelFacts
<1> DEFINE z == Owed(Strays)'
<1>3. z \in Nat /\ z <= Slack
  <2>1. Owed(Strays') \in Nat /\ Owed(Strays') <= Slack
    BY <1>2, OwedIs
  <2> QED
    BY <2>1 DEF Owed
<1> HIDE DEF z
<1>4. CASE Reset
  <2>1. credit' = Full
    BY <1>4 DEF Reset
  <2>2. Within(Full, Full, z, 0)
    BY <1>3, LimiterConstants DEF Within
  <2> QED
    BY <1>1, <1>2, <2>1, <2>2 DEF LimiterInv, ExcessIsOwed, CreditIsIdeal, z, Within, Slack
<1>5. CASE CleanUp
  <2>1. named \in Buckets /\ bucket[named].age > IdleLimit /\ bucket[named].units \in Nat
        /\ bucket[named].age \in Nat /\ named # NoBucket
    BY <1>0, <1>5 DEF CleanUp, LimiterTypeOK
  <2>2. FullFor > Slack /\ InStock = Full
    BY <1>0, <2>1, LevelIs, LevelWillBe, LimiterConstants DEF LevelFacts
  <2>3. Owed(Strays) \in Nat
    BY <1>0, LevelIs, LevelWillBe, OwedIs DEF LevelFacts
  <2>4. InStock - credit + Owed(Strays) <= Slack /\ credit <= InStock
    BY <1>0, <2>2, <2>3, LevelIs, LevelWillBe, LimiterConstants DEF ExcessIsOwed, Within, LimiterTypeOK, LevelFacts
  <2>5. credit' = credit /\ stray' = stray /\ credit \in Int
    BY <1>0, <1>5 DEF CleanUp, LimiterTypeOK
  <2>6. Within(Full, credit, z, 0)
    BY <1>3, <2>2, <2>3, <2>4, <2>5, LimiterConstants DEF Within
  <2>7. ExcessIsOwed'
    BY <1>2, <2>5, <2>6 DEF ExcessIsOwed, z, Within, Slack
  <2>8. CreditIsIdeal'
    BY <1>0, <1>2, <2>2, <2>5 DEF CreditIsIdeal
  <2> QED
    BY <1>1, <2>7, <2>8 DEF LimiterInv
<1> QED
  BY <1>4, <1>5

LEMMA TickStep ==
  ASSUME LimiterInv, Tick
  PROVE  LimiterInv'
<1>0. LimiterTypeOK /\ ExcessIsOwed /\ CreditIsIdeal
  BY DEF LimiterInv
<1>1. credit \in Int /\ InStock \in 0..Full /\ Full \in Nat /\ FullFor \in Int
  BY <1>0, LevelIs, LevelWillBe, LimiterConstants DEF LimiterTypeOK, LevelFacts
<1>2. credit <= InStock
  BY <1>0 DEF ExcessIsOwed, Within
<1>3. credit' = IF credit + 1 <= Full THEN credit + 1 ELSE Full
  <2>1. credit' = Min({credit + 1, Full}) /\ credit + 1 \in Int /\ Full \in Int
    BY <1>1 DEF Tick
  <2> QED
    BY <2>1, MinOfInts
<1> DEFINE older(b) == [bucket[b] EXCEPT !.age = Min({@ + 1, IdleLimit + 1})]
<1>4. ASSUME NEW b \in Buckets
      PROVE  /\ older(b) \in [units : 0..Full, age : 0..(IdleLimit + 1)]
             /\ older(b).units = bucket[b].units
             /\ older(b).age = IF bucket[b].age + 1 <= IdleLimit + 1 THEN bucket[b].age + 1
                               ELSE IdleLimit + 1
  <2>1. bucket[b] \in [units : 0..Full, age : 0..(IdleLimit + 1)]
    BY <1>0 DEF LimiterTypeOK
  <2>2. bucket[b].age + 1 \in Nat /\ IdleLimit + 1 \in Nat
    BY <2>1, LimiterConstants
  <2>3. Min({bucket[b].age + 1, IdleLimit + 1})
          = IF bucket[b].age + 1 <= IdleLimit + 1 THEN bucket[b].age + 1 ELSE IdleLimit + 1
    BY <2>2, MinOfTwo
  <2> QED
    BY <2>1, <2>2, <2>3
<1>5. bucket' = [b \in Buckets |->
        IF b # named /\ \A c \in Client : handle[c] # b THEN Fresh ELSE older(b)]
  BY DEF Tick
<1>6. named' = named /\ handle' = handle /\ stray' = (stray /\ credit' < Full)
  BY DEF Tick
<1> HIDE DEF older
<1>7. Fresh \in [units : 0..Full, age : 0..(IdleLimit + 1)]
  BY LimiterConstants DEF Fresh
<1>8. LimiterTypeOK'
  <2>1. bucket' \in [Buckets -> [units : 0..Full, age : 0..(IdleLimit + 1)]]
    BY <1>4, <1>5, <1>7
  <2>2. credit' \in Int /\ stray' \in BOOLEAN
    BY <1>0, <1>1, <1>3, <1>6 DEF LimiterTypeOK
  <2> QED
    BY <1>0, <1>6, <2>1, <2>2 DEF LimiterTypeOK
<1>9. Strays' = Strays
  BY <1>6 DEF Strays
\* The level rises with the ideal until it is full; from then on the excess falls.
<1>10. \/ FullFor' = FullFor + 1
       \/ FullFor' = FullFor /\ FullFor > Slack
       \/ FullFor' = FullFor /\ named = NoBucket
  <2>1. CASE named = NoBucket
    BY <1>0, <1>6, <1>8, <2>1, LevelIs, LevelWillBe DEF LevelFacts
  <2>2. CASE named # NoBucket
    <3>1. named \in Buckets /\ named' = named /\ bucket'[named] = older(named)
      BY <1>0, <1>5, <1>6, <2>2 DEF LimiterTypeOK
    <3> DEFINE x == bucket[named].units
               y == bucket[named].age
               z == bucket'[named].age
    <3>2. x \in 0..Full /\ y \in 0..(IdleLimit + 1) /\ z \in 0..(IdleLimit + 1)
          /\ bucket'[named].units = x /\ z = IF y + 1 <= IdleLimit + 1 THEN y + 1 ELSE IdleLimit + 1
      BY <1>0, <1>4, <3>1 DEF LimiterTypeOK
    <3>3. FullFor = x + y - Full /\ FullFor' = x + z - Full
      BY <1>6, <2>2, <3>2 DEF FullFor
    <3> HIDE DEF x, y, z
    <3>4. z = y + 1 \/ (z = y /\ y = IdleLimit + 1)
      BY <3>2, LimiterConstants
    <3>5. CASE z = y + 1
      BY <1>1, <3>2, <3>3, <3>5
    <3>6. CASE z = y /\ y = IdleLimit + 1
      BY <1>1, <3>2, <3>3, <3>6, LimiterConstants
    <3> QED
      BY <3>4, <3>5, <3>6
  <2> QED
    BY <2>1, <2>2
<1>11. InStock' = IF InStock + 1 <= Full THEN InStock + 1 ELSE Full
  <2>1. CASE named = NoBucket
    BY <1>0, <1>1, <1>6, <1>8, <2>1, LevelIs, LevelWillBe DEF LevelFacts
  <2>2. CASE named # NoBucket
    <3>1. /\ InStock = IF FullFor <= 0 THEN FullFor + Full ELSE Full
          /\ InStock' = IF FullFor' <= 0 THEN FullFor' + Full ELSE Full
      BY <1>0, <1>6, <1>8, <2>2, LevelIs, LevelWillBe DEF LevelFacts
    <3>2. FullFor' = FullFor + 1 \/ (FullFor' = FullFor /\ FullFor > 0)
      BY <1>1, <1>10, <2>2, LimiterConstants
    <3> QED
      BY <1>1, <3>1, <3>2
  <2> QED
    BY <2>1, <2>2
<1> DEFINE v == InStock  y == credit  z == Owed(Strays)  t == FullFor
           v1 == InStock'  y1 == credit'  t1 == FullFor'
<1>12. z \in Nat /\ z <= Slack /\ Slack \in Nat /\ v1 \in Int /\ y1 \in Int /\ t1 \in Int
  BY <1>0, <1>8, LevelIs, LevelWillBe, OwedIs, LimiterConstants DEF LimiterTypeOK, LevelFacts
<1>13. v - y + z <= 2 * Slack /\ (v - y + z <= Slack \/ v - y + z + t <= 2 * Slack)
  BY <1>0 DEF ExcessIsOwed, Within
<1>14. v1 - y1 <= v - y /\ y1 <= v1
  BY <1>1, <1>2, <1>3, <1>11
<1>15. v = Full => v1 - y1 <= v - y - 1 \/ v1 - y1 = 0
  BY <1>1, <1>2, <1>3, <1>11
<1>16. v < Full => t < 0
  BY <1>0, <1>1, LevelIs, LevelWillBe DEF LevelFacts
<1>17. t1 = t + 1 \/ (t1 = t /\ t > Slack) \/ (t1 = t /\ t = 0)
  BY <1>0, <1>10, LevelIs, LevelWillBe DEF LevelFacts
<1>18. ExcessIsOwed'
  <2>1. Owed(Strays)' = z
    BY <1>9 DEF Owed
  <2> HIDE DEF v, y, z, t, v1, y1, t1
  <2>2. v \in Int /\ y \in Int /\ t \in Int /\ v <= Full
    BY <1>1 DEF v, y, t
  <2>3. y1 <= v1 /\ v1 - y1 + z <= 2 * Slack
    BY <1>12, <1>13, <1>14, <2>2
  <2>4. v1 - y1 + z <= Slack \/ v1 - y1 + z + t1 <= 2 * Slack
    <3>1. CASE v - y + z <= Slack
      BY <1>12, <1>14, <2>2, <3>1
    <3>2. CASE v < Full
      <4>1. t1 <= 0
        BY <1>12, <1>16, <1>17, <2>2, <3>2
      <4> QED
        BY <1>12, <2>3, <4>1
    <3>3. CASE v = Full /\ v - y + z + t <= 2 * Slack
      <4>1. CASE v1 - y1 = 0
        BY <1>12, <4>1
      <4>2. CASE v1 - y1 <= v - y - 1
        <5>1. t1 <= t + 1
          BY <1>12, <1>17, <2>2
        <5> QED
          BY <1>12, <2>2, <3>3, <4>2, <5>1
      <4> QED
        BY <1>15, <3>3, <4>1, <4>2
    <3>4. v < Full \/ v = Full
      BY <1>1, <2>2
    <3> QED
      BY <1>13, <3>1, <3>2, <3>3, <3>4
  <2>5. Within(v1, y1, z, t1)
    BY <2>3, <2>4 DEF Within
  <2> QED
    BY <2>1, <2>5 DEF ExcessIsOwed, v1, y1, t1, Within, Slack
<1>19. CreditIsIdeal'
  <2>1. CASE ~stray
    <3>1. credit = InStock
      BY <1>0, <2>1 DEF CreditIsIdeal
    <3> QED
      BY <1>3, <1>11, <3>1 DEF CreditIsIdeal
  <2>2. CASE ~(credit' < Full)
    <3>1. credit' = Full /\ InStock' \in Int /\ InStock' <= Full
      BY <1>1, <1>3, <1>8, <2>2, LevelIs, LevelWillBe DEF LevelFacts
    <3>2. InStock' = Full
      BY <1>1, <1>14, <3>1
    <3> QED
      BY <3>1, <3>2 DEF CreditIsIdeal
  <2> QED
    BY <1>6, <2>1, <2>2 DEF CreditIsIdeal
<1> QED
  BY <1>8, <1>18, <1>19 DEF LimiterInv

LEMMA LimiterNextInv == LimiterInv /\ [LimiterNext]_limiterVars => LimiterInv'
<1> SUFFICES ASSUME LimiterInv, [LimiterNext]_limiterVars PROVE LimiterInv'
  OBVIOUS
<1>1. CASE UNCHANGED limiterVars
  <2>1. UNCHANGED <<named, bucket, handle, credit, stray>>
    BY <1>1 DEF limiterVars
  <2>2. LimiterTypeOK' /\ Strays' = Strays /\ InStock' = InStock /\ FullFor' = FullFor
    BY <2>1 DEF LimiterInv, LimiterTypeOK, Strays, InStock, FullFor, Refilled
  <2> QED
    BY <2>1, <2>2 DEF LimiterInv, ExcessIsOwed, CreditIsIdeal
<1> QED
  BY <1>1, LookUpStep, TakeStep, DropStep, TickStep DEF LimiterNext

\* However lookups, takes, resets and cleanups of the limiter interleave, for any number
\* of callers: nobody is refused what an ideal bucket would give, nobody is given more
\* unless it uses a bucket no longer in the map, and then the code is never ahead of the
\* ideal by more than two tokens for each caller.
THEOREM LimiterAdmitsAsIdeal == LimiterSpec => []AdmitsAsIdeal
<1>1. LimiterInv => AdmitsAsIdeal
  <2> SUFFICES ASSUME LimiterInv PROVE AdmitsAsIdeal
    OBVIOUS
  <2>0. LimiterTypeOK /\ ExcessIsOwed /\ CreditIsIdeal
    BY DEF LimiterInv
  <2>1. Owed(Strays) \in Nat /\ InStock \in Int /\ credit \in Int
    BY <2>0, LevelIs, LevelWillBe, OwedIs DEF LimiterTypeOK, LevelFacts
  <2>2. credit <= InStock /\ InStock <= credit + 2 * Slack
    BY <2>0, <2>1, LimiterConstants DEF ExcessIsOwed, Within
  <2>3. Remaining * TokenCost <= InStock
    <3>1. CASE named = NoBucket
      BY <3>1, <2>0, LevelIs, LevelWillBe, LimiterConstants DEF Remaining, LevelFacts
    <3>2. CASE named # NoBucket
      <4>1. named \in Buckets /\ InStock = Refilled(named)
        BY <2>0, <3>2, LevelIs, LevelWillBe DEF InStock, LevelFacts
      <4>2. bucket[named].units \in Nat /\ bucket[named].units <= InStock
        BY <2>0, <4>1, RefilledValue DEF LimiterTypeOK
      <4>3. \A x \in Nat, y \in Nat \ {0} : (x \div y) * y <= x
        OBVIOUS
      <4>4. (bucket[named].units \div TokenCost) * TokenCost <= bucket[named].units
        BY <4>2, <4>3, LimiterConstants
      <4>5. (bucket[named].units \div TokenCost) * TokenCost \in Int
        BY <4>2, LimiterConstants
      <4>6. Remaining = bucket[named].units \div TokenCost
        BY <3>2 DEF Remaining
      <4> DEFINE p == (bucket[named].units \div TokenCost) * TokenCost
      <4>7. p <= InStock
        <5> HIDE DEF p
        <5> QED
          BY <2>1, <4>2, <4>4, <4>5 DEF p
      <4> QED
        BY <4>6, <4>7
    <3> QED
      BY <3>1, <3>2
  <2> QED
    BY <2>0, <2>2, <2>3 DEF AdmitsAsIdeal, CreditIsIdeal, Slack
<1> QED
  BY <1>1, LimiterInitInv, LimiterNextInv, PTL DEF LimiterSpec
-----------------------------------------------------------------------------
(* The store of models                                                     *)

StoreTypeOK ==
  /\ made \in 0..Inodes /\ cached \in 0..made /\ tmp \in 0..made
  /\ content \in [1..Inodes -> SUBSET Whole]
  /\ loader \in [Loader -> [at : {"idle", "request", "copy", "rename", "publish", "infer"},
                            file : 0..made, pos : Nat]]
  /\ \A k \in Loader : loader[k].file # NoFile <=> loader[k].at \in {"copy", "rename"}
  /\ \A k \in Loader : At(k, "copy") => loader[k].pos <= Chunks
  /\ loaded \in BOOLEAN /\ inferred \in BOOLEAN /\ unloading \in BOOLEAN /\ straggler \in BOOLEAN

\* A file is whole, or the loader that has truncated it last has written all it
\* has passed and is still at it.
Covered(f) ==
  content[f] = Whole \/ \E k \in Copying(f) : 1..loader[k].pos \subseteq content[f]

\* Whoever opens a file second, or renames it for another, leaves it shared.
SharingIsKnown ==
  /\ \A k, m \in Loader :
       k # m /\ loader[k].file = loader[m].file /\ loader[k].file # NoFile => loader[k].file \in shared
  /\ cached # NoFile /\ Copying(cached) # {} => cached \in shared

\* The temporary name may stand for the rest of a download that died, until the
\* next loader truncates it.
FilesAreCovered ==
  /\ tmp # NoFile => tmp # cached
  /\ tmp # NoFile /\ tmp \notin broken => Covered(tmp) \/ \A k \in Loader : loader[k].file = NoFile
  /\ cached # NoFile /\ cached \notin broken => Covered(cached)

FilesInv == StoreTypeOK /\ SharingIsKnown /\ FilesAreCovered
StoreInv == FilesInv /\ ResultsFollowModel

LEMMA StoreConstants ==
  /\ Chunks \in Nat \ {0} /\ Inodes \in Nat \ {0}
  /\ Whole = 1..Chunks /\ NoFile = 0 /\ Attempts = 3
BY StoreAssumption DEF Whole, NoFile, Attempts

LEMMA IdleLoader ==
  ASSUME made \in Nat
  PROVE  /\ Idle \in [at : {"idle", "request", "copy", "rename", "publish", "infer"}, file : 0..made, pos : Nat]
         /\ Idle.file = NoFile /\ Idle.at = "idle"
  BY StoreConstants DEF Idle

LEMMA StoreInitInv == StoreInit => StoreInv
<1> SUFFICES ASSUME StoreInit PROVE StoreInv
  OBVIOUS
<1>1. StoreTypeOK
  <2>1. made = 0 /\ cached = 0 /\ tmp = 0 /\ made \in Nat
    BY StoreConstants DEF StoreInit
  <2>2. loader \in [Loader -> [at : {"idle", "request", "copy", "rename", "publish", "infer"},
                               file : 0..made, pos : Nat]]
    BY <2>1, IdleLoader DEF StoreInit
  <2>3. \A k \in Loader : loader[k].file = NoFile /\ loader[k].at = "idle"
    BY <2>1, IdleLoader DEF StoreInit
  <2>4. content \in [1..Inodes -> SUBSET Whole]
    BY DEF StoreInit
  <2>5. made \in 0..Inodes /\ cached \in 0..made /\ tmp \in 0..made
    BY <2>1, StoreConstants
  <2>6. loaded \in BOOLEAN /\ inferred \in BOOLEAN /\ unloading \in BOOLEAN /\ straggler \in BOOLEAN
    BY DEF StoreInit
  <2>7. \A k \in Loader : At(k, "copy") => loader[k].pos <= Chunks
    BY <2>3 DEF At
  <2> QED
    BY <2>2, <2>3, <2>4, <2>5, <2>6, <2>7 DEF StoreTypeOK
<1>2. SharingIsKnown /\ FilesAreCovered /\ ResultsFollowModel
  BY IdleLoader DEF StoreInit, SharingIsKnown, FilesAreCovered, ResultsFollowModel
<1> QED
  BY <1>1, <1>2 DEF StoreInv, FilesInv

\* A step that moves one loader, without a file before or after, and nothing else
\* of the files.
LEMMA MoveStep ==
  ASSUME FilesInv, NEW l \in Loader, loader[l].file = NoFile,
         NEW s \in [at : {"idle", "request", "publish", "infer"}, file : {NoFile}, pos : Nat],
         Goes(l, s), UNCHANGED fileVars,
         loaded' \in BOOLEAN, inferred' \in BOOLEAN, unloading' \in BOOLEAN, straggler' \in BOOLEAN
  PROVE  FilesInv'
<1>1. StoreTypeOK'
  BY StoreConstants DEF FilesInv, StoreTypeOK, Goes, fileVars, At
<1>2. \A f : Copying(f)' = Copying(f)
  BY DEF FilesInv, StoreTypeOK, Goes, fileVars, At, Copying
<1>3. SharingIsKnown'
  BY <1>2, StoreConstants DEF FilesInv, StoreTypeOK, SharingIsKnown, Goes, fileVars
<1>4. \A f : Covered(f) => Covered(f)'
  BY <1>2 DEF FilesInv, StoreTypeOK, Covered, Goes, fileVars, Copying, At
<1>5. FilesAreCovered'
  BY <1>4 DEF FilesInv, StoreTypeOK, FilesAreCovered, Goes, fileVars
<1> QED
  BY <1>1, <1>3, <1>5 DEF FilesInv

LEMMA CreateStep ==
  ASSUME FilesInv, NEW l \in Loader, Create(l)
  PROVE  FilesInv'
<1>1. /\ tmp' \in 1..Inodes /\ made' \in made..Inodes /\ tmp' <= made'
      /\ tmp' # cached
      /\ tmp = NoFile => \A k \in Loader : loader[k].file # tmp'
  BY StoreConstants DEF Create, FilesInv, StoreTypeOK, FilesAreCovered
<1>2. /\ content' = [content EXCEPT ![tmp'] = {}]
      /\ loader' = [loader EXCEPT ![l] = [at |-> "copy", file |-> tmp', pos |-> 0]]
      /\ shared' = IF \E k \in Loader : loader[k].file = tmp' THEN shared \cup {tmp'} ELSE shared \ {tmp'}
      /\ cached' = cached /\ broken' = broken
      /\ UNCHANGED <<loaded, inferred, unloading, straggler>>
  BY DEF Create, Goes, modelVars
<1>3. loader[l].file = NoFile /\ ~At(l, "copy")
  BY DEF Create, At, FilesInv, StoreTypeOK
<1>4. StoreTypeOK'
  <2>1. loader' \in [Loader -> [at : {"idle", "request", "copy", "rename", "publish", "infer"},
                                file : 0..made', pos : Nat]]
    BY <1>1, <1>2, StoreConstants DEF FilesInv, StoreTypeOK
  <2>2. content' \in [1..Inodes -> SUBSET Whole]
    BY <1>1, <1>2 DEF FilesInv, StoreTypeOK
  <2>3. \A k \in Loader : loader'[k].file # NoFile <=> loader'[k].at \in {"copy", "rename"}
    BY <1>1, <1>2, StoreConstants DEF FilesInv, StoreTypeOK
  <2>4. \A k \in Loader : loader'[k].at = "copy" => loader'[k].pos <= Chunks
    BY <1>2, StoreConstants DEF FilesInv, StoreTypeOK, At
  <2>5. made' \in 0..Inodes /\ cached' \in 0..made' /\ tmp' \in 0..made'
    BY <1>1, <1>2, StoreConstants DEF FilesInv, StoreTypeOK
  <2> QED
    BY <1>2, <2>1, <2>2, <2>3, <2>4, <2>5 DEF FilesInv, StoreTypeOK, At
<1>5. SharingIsKnown'
  <2>1. ASSUME NEW k \in Loader, NEW m \in Loader, k # m,
               loader'[k].file = loader'[m].file, loader'[k].file # NoFile
        PROVE  loader'[k].file \in shared'
    <3>1. CASE k # l /\ m # l
      BY <1>2, <2>1, <3>1 DEF FilesInv, StoreTypeOK, SharingIsKnown
    <3>2. CASE k = l \/ m = l
      BY <1>2, <2>1, <3>2 DEF FilesInv, StoreTypeOK
    <3> QED
      BY <3>1, <3>2
  <2>2. cached # NoFile => Copying(cached)' = Copying(cached)
    BY <1>1, <1>2, <1>3 DEF FilesInv, StoreTypeOK, Copying, At
  <2> QED
    BY <1>1, <1>2, <2>1, <2>2 DEF FilesInv, SharingIsKnown
<1>6. FilesAreCovered'
  <2>1. l \in Copying(tmp)' /\ 1..loader'[l].pos \subseteq content'[tmp']
    BY <1>2 DEF FilesInv, StoreTypeOK, Copying, At
  <2>2. Covered(tmp)'
    BY <2>1 DEF Covered
  <2>3. ASSUME cached # NoFile, Covered(cached) PROVE Covered(cached)'
    <3>1. content'[cached] = content[cached]
      BY <1>1, <1>2, <2>3, StoreConstants DEF FilesInv, StoreTypeOK
    <3>2. ASSUME NEW k \in Copying(cached) PROVE k \in Copying(cached)' /\ loader'[k] = loader[k]
      BY <1>2, <1>3, <3>2 DEF FilesInv, StoreTypeOK, Copying, At
    <3> QED
      BY <1>2, <2>3, <3>1, <3>2 DEF Covered
  <2> QED
    BY <1>1, <1>2, <2>2, <2>3 DEF FilesInv, FilesAreCovered
<1> QED
  BY <1>4, <1>5, <1>6 DEF FilesInv

LEMMA CopyStep ==
  ASSUME FilesInv, NEW l \in Loader, Copy(l)
  PROVE  FilesInv'
<1> DEFINE f == loader[l].file
           p == loader[l].pos
<1>1. /\ f \in 1..made /\ f \in 1..Inodes /\ p \in 0..Chunks /\ At(l, "copy")
      /\ UNCHANGED <<cached, tmp, made, shared, broken>>
      /\ UNCHANGED <<loaded, inferred, unloading, straggler>>
  BY StoreConstants DEF Copy, FilesInv, StoreTypeOK, modelVars, At
<1>2. CASE p < Chunks
  <2>1. /\ content' = [content EXCEPT ![f] = @ \cup {p + 1}]
        /\ loader' = [loader EXCEPT ![l] = [loader[l] EXCEPT !.pos = @ + 1]]
    BY <1>2 DEF Copy, Goes
  <2>2. StoreTypeOK'
    BY <1>1, <1>2, <2>1, StoreConstants DEF FilesInv, StoreTypeOK, At
  <2>3. \A x : Copying(x)' = Copying(x)
    BY <1>1, <2>1 DEF FilesInv, StoreTypeOK, Copying, At
  <2>4. SharingIsKnown'
    BY <1>1, <2>1, <2>3 DEF FilesInv, StoreTypeOK, SharingIsKnown
  <2>5. ASSUME NEW x \in 1..Inodes, Covered(x) PROVE Covered(x)'
    <3>1. content[x] \subseteq content'[x] /\ content'[x] \subseteq Whole
      BY <2>1, <2>2 DEF FilesInv, StoreTypeOK
    <3>2. CASE content[x] = Whole
      BY <3>1, <3>2 DEF Covered
    <3>3. ASSUME NEW k \in Copying(x), 1..loader[k].pos \subseteq content[x]
          PROVE  1..loader'[k].pos \subseteq content'[x]
      <4>1. CASE k = l
        <5>1. loader'[k].pos = p + 1 /\ f = x /\ content'[x] = content[x] \cup {p + 1}
          BY <1>1, <2>1, <4>1, <3>3 DEF FilesInv, StoreTypeOK, Copying
        <5> QED
          BY <1>1, <3>3, <4>1, <5>1
      <4>2. CASE k # l
        BY <2>1, <3>1, <3>3, <4>2 DEF FilesInv, StoreTypeOK, Copying
      <4> QED
        BY <4>1, <4>2
    <3> QED
      BY <2>3, <2>5, <3>2, <3>3 DEF Covered
  <2>6. FilesAreCovered'
    <3>1. \A x \in 1..Inodes : Covered(x) => Covered(x)'
      BY <2>5
    <3>2. (tmp # NoFile => tmp \in 1..Inodes) /\ (cached # NoFile => cached \in 1..Inodes)
      BY StoreConstants DEF FilesInv, StoreTypeOK
    <3>3. /\ tmp # NoFile /\ Covered(tmp) => Covered(tmp)'
          /\ cached # NoFile /\ Covered(cached) => Covered(cached)'
      BY <1>1, <3>1, <3>2 DEF Covered, Copying, At
    <3>4. (\A k \in Loader : loader[k].file = NoFile) => (\A k \in Loader : loader'[k].file = NoFile)
      BY <1>1, <2>1, StoreConstants DEF FilesInv, StoreTypeOK
    <3> QED
      BY <1>1, <3>3, <3>4 DEF FilesInv, FilesAreCovered
  <2> QED
    BY <2>2, <2>4, <2>6 DEF FilesInv
<1>3. CASE p = Chunks
  <2>1. content' = content /\ loader' = [loader EXCEPT ![l] = [loader[l] EXCEPT !.at = "rename"]]
    BY <1>3, StoreConstants DEF Copy, Goes
  <2>2. StoreTypeOK'
    BY <1>1, <2>1, StoreConstants DEF FilesInv, StoreTypeOK, At
  <2>3. \A x : Copying(x)' = Copying(x) \ {l}
    BY <1>1, <2>1 DEF FilesInv, StoreTypeOK, Copying, At
  <2>4. SharingIsKnown'
    BY <1>1, <2>1, <2>3 DEF FilesInv, StoreTypeOK, SharingIsKnown
  <2>5. ASSUME NEW x \in 1..Inodes, Covered(x) PROVE Covered(x)'
    <3>1. ASSUME NEW k \in Copying(x), 1..loader[k].pos \subseteq content[x], k # l
          PROVE  Covered(x)'
      <4>1. k \in Copying(x)' /\ loader'[k] = loader[k] /\ content' = content
        BY <2>1, <2>3, <3>1 DEF FilesInv, StoreTypeOK, Copying
      <4> QED
        BY <3>1, <4>1 DEF Covered
    <3>2. ASSUME 1..p \subseteq content[x] PROVE Covered(x)'
      BY <1>3, <2>1, <2>2, <3>2, StoreConstants DEF StoreTypeOK, Covered
    <3> QED
      BY <2>1, <2>5, <3>1, <3>2 DEF Covered
  <2>6. FilesAreCovered'
    <3>1. \A x \in 1..Inodes : Covered(x) => Covered(x)'
      BY <2>5
    <3>2. (tmp # NoFile => tmp \in 1..Inodes) /\ (cached # NoFile => cached \in 1..Inodes)
      BY StoreConstants DEF FilesInv, StoreTypeOK
    <3>3. /\ tmp # NoFile /\ Covered(tmp) => Covered(tmp)'
          /\ cached # NoFile /\ Covered(cached) => Covered(cached)'
      BY <1>1, <3>1, <3>2 DEF Covered, Copying, At
    <3>4. (\A k \in Loader : loader[k].file = NoFile) => (\A k \in Loader : loader'[k].file = NoFile)
      BY <1>1, <2>1, StoreConstants DEF FilesInv, StoreTypeOK
    <3> QED
      BY <1>1, <3>3, <3>4 DEF FilesInv, FilesAreCovered
  <2> QED
    BY <2>2, <2>4, <2>6 DEF FilesInv
<1> QED
  BY <1>1, <1>2, <1>3, StoreConstants

\* A copy that breaks off leaves a hole only in a file known to be shared.
LEMMA CopyFailsStep ==
  ASSUME FilesInv, NEW l \in Loader, CopyFails(l)
  PROVE  FilesInv'
<1>1. /\ At(l, "copy") /\ tmp' = NoFile /\ loader' = [loader EXCEPT ![l] = Idle]
      /\ broken' = broken \cup ({loader[l].file} \cap shared)
      /\ UNCHANGED <<cached, content, made, shared>>
      /\ UNCHANGED <<loaded, inferred, unloading, straggler>>
  BY DEF CopyFails, Goes, modelVars
<1>2. StoreTypeOK'
  BY <1>1, StoreConstants DEF FilesInv, StoreTypeOK, Idle, At
<1>3. \A x \in 1..Inodes : Copying(x)' = Copying(x) \ {l}
  BY <1>1, StoreConstants DEF FilesInv, StoreTypeOK, Copying, Idle, At
<1>4. SharingIsKnown'
  BY <1>1, <1>3, StoreConstants DEF FilesInv, StoreTypeOK, SharingIsKnown, Idle
<1>5. ASSUME cached # NoFile, cached \notin broken' PROVE Covered(cached)'
  <2>1. Covered(cached) /\ cached \in 1..Inodes
    BY <1>1, <1>5, StoreConstants DEF FilesInv, StoreTypeOK, FilesAreCovered
  <2>2. l \notin Copying(cached)
    BY <1>1, <1>5 DEF FilesInv, SharingIsKnown, Copying
  <2> QED
    BY <1>1, <1>3, <2>1, <2>2 DEF FilesInv, StoreTypeOK, Covered, Copying
<1> QED
  BY <1>1, <1>2, <1>4, <1>5 DEF FilesInv, FilesAreCovered

LEMMA RenameStep ==
  ASSUME FilesInv, NEW l \in Loader, Rename(l)
  PROVE  FilesInv'
<1>1. /\ At(l, "rename") /\ loader[l].file # NoFile
      /\ UNCHANGED <<content, made, broken>> /\ UNCHANGED <<loaded, inferred, unloading, straggler>>
  BY DEF Rename, modelVars, FilesInv, StoreTypeOK, At
<1> DEFINE s == IF tmp = NoFile THEN Idle ELSE Stage("publish")
<1>2. /\ loader' = [loader EXCEPT ![l] = s] /\ tmp' = NoFile
      /\ s.file = NoFile /\ s.at \in {"idle", "publish"}
      /\ s \in [at : {"idle", "publish"}, file : {NoFile}, pos : Nat]
  BY StoreConstants DEF Rename, Goes, Idle, Stage
<1> HIDE DEF s
<1>3. cached' \in {cached, tmp} /\ (cached' # cached => shared' = shared \cup ({tmp} \ {loader[l].file}))
      /\ shared \subseteq shared' /\ (tmp = NoFile => cached' = cached) /\ (tmp # NoFile => cached' = tmp)
      /\ (tmp # NoFile => shared' = shared \cup ({tmp} \ {loader[l].file}))
  BY DEF Rename
<1>4. StoreTypeOK'
  BY <1>1, <1>2, <1>3, StoreConstants DEF FilesInv, StoreTypeOK, At
<1>5. \A x : Copying(x)' = Copying(x)
  BY <1>1, <1>2 DEF FilesInv, StoreTypeOK, Copying, At
<1>6. SharingIsKnown'
  <2>1. \A k, m \in Loader :
          k # m /\ loader'[k].file = loader'[m].file /\ loader'[k].file # NoFile => loader'[k].file \in shared'
    BY <1>2, <1>3 DEF FilesInv, StoreTypeOK, SharingIsKnown
  <2>2. ASSUME cached' # NoFile, NEW k \in Copying(cached') PROVE cached' \in shared'
    <3>1. CASE tmp = NoFile
      BY <1>3, <2>2, <3>1 DEF FilesInv, SharingIsKnown
    <3>2. CASE tmp # NoFile
      <4>1. k \in Loader /\ k # l /\ loader[k].file = tmp
        BY <1>1, <1>3, <2>2, <3>2 DEF Copying, At
      <4> QED
        BY <1>3, <3>2, <4>1 DEF FilesInv, SharingIsKnown
    <3> QED
      BY <3>1, <3>2
  <2> QED
    BY <1>5, <2>1, <2>2 DEF SharingIsKnown
<1>7. ASSUME NEW x, Covered(x) PROVE Covered(x)'
  BY <1>1, <1>2, <1>5, <1>7 DEF FilesInv, StoreTypeOK, Covered, Copying, At
<1>8. tmp # NoFile /\ tmp \notin broken => Covered(tmp)
  BY <1>1 DEF FilesInv, FilesAreCovered
<1>9. cached' # NoFile /\ cached' \notin broken => Covered(cached')
  BY <1>3, <1>8 DEF FilesInv, FilesAreCovered
<1>10. cached' # NoFile /\ cached' \notin broken => Covered(cached)'
  BY <1>1, <1>2, <1>5, <1>9 DEF FilesInv, StoreTypeOK, Covered, Copying, At
<1>11. FilesAreCovered'
  BY <1>1, <1>2, <1>10 DEF FilesAreCovered
<1> QED
  BY <1>4, <1>6, <1>11 DEF FilesInv

\* What is dead holds no file; what it broke off is known.
LEMMA DieStep ==
  ASSUME FilesInv, Die
  PROVE  FilesInv'
<1>1. StoreTypeOK'
  <2>1. made \in Nat /\ made' = made
    BY StoreConstants DEF FilesInv, StoreTypeOK, Die
  <2>2. loader' \in [Loader -> [at : {"idle", "request", "copy", "rename", "publish", "infer"},
                                file : 0..made', pos : Nat]]
    BY <2>1, IdleLoader DEF Die
  <2>3. \A k \in Loader : loader'[k].file = NoFile /\ loader'[k].at = "idle"
    BY <2>1, IdleLoader DEF Die
  <2> QED
    BY <2>1, <2>2, <2>3 DEF FilesInv, StoreTypeOK, Die, At
<1>2. SharingIsKnown'
  BY DEF FilesInv, StoreTypeOK, SharingIsKnown, Die, Idle, Copying, At
<1>3. ASSUME cached # NoFile, cached \notin broken' PROVE content[cached] = Whole
  <2>1. cached \notin broken /\ ~(cached \in shared /\ Copying(cached) # {})
    BY <1>3 DEF Die
  <2>2. Copying(cached) = {}
    BY <1>3, <2>1 DEF FilesInv, SharingIsKnown
  <2> QED
    BY <1>3, <2>1, <2>2 DEF FilesInv, FilesAreCovered, Covered
<1>4. FilesAreCovered'
  <2>1. \A k \in Loader : loader'[k].file = NoFile
    BY DEF Die, Idle
  <2>2. UNCHANGED <<cached, tmp, content>>
    BY DEF Die
  <2> QED
    BY <1>3, <2>1, <2>2 DEF FilesInv, FilesAreCovered, Covered
<1> QED
  BY <1>1, <1>2, <1>4 DEF FilesInv

\* The steps that leave loaders and files alone, or drop both names.
LEMMA MemoryStep ==
  ASSUME FilesInv, UNCHANGED <<content, made, shared, broken, loader>>,
         (cached' = cached /\ tmp' = tmp) \/ (cached' = NoFile /\ tmp' = NoFile),
         loaded' \in BOOLEAN, inferred' \in BOOLEAN, unloading' \in BOOLEAN, straggler' \in BOOLEAN
  PROVE  FilesInv'
<1>1. StoreTypeOK'
  BY StoreConstants DEF FilesInv, StoreTypeOK, At
<1>2. SharingIsKnown' /\ FilesAreCovered'
  BY DEF FilesInv, SharingIsKnown, FilesAreCovered, Covered, Copying, At
<1> QED
  BY <1>1, <1>2 DEF FilesInv

LEMMA StoreNextInv == StoreInv /\ [StoreNext]_storeVars => StoreInv'
<1> SUFFICES ASSUME StoreInv, [StoreNext]_storeVars PROVE StoreInv'
  OBVIOUS
<1>0. FilesInv /\ ResultsFollowModel /\ loaded \in BOOLEAN /\ inferred \in BOOLEAN
      /\ unloading \in BOOLEAN /\ straggler \in BOOLEAN /\ StoreTypeOK
  BY DEF StoreInv, FilesInv, StoreTypeOK
<1>1. ASSUME NEW l \in Loader, Look(l) \/ RequestFails(l) \/ Publish(l) \/ Infer(l)
      PROVE  FilesInv'
  <2>1. loader[l].file = NoFile
    BY <1>0, <1>1 DEF Look, RequestFails, Publish, Infer, At, StoreTypeOK
  <2>2. \E s \in [at : {"idle", "request", "publish", "infer"}, file : {NoFile}, pos : Nat] : Goes(l, s)
    <3>1. CASE Look(l)
      <4> DEFINE s == IF loaded THEN Stage("infer") ELSE IF cached # NoFile THEN Stage("publish")
                      ELSE [Stage("request") EXCEPT !.pos = 1]
      <4>1. s \in [at : {"idle", "request", "publish", "infer"}, file : {NoFile}, pos : Nat] /\ Goes(l, s)
        BY <3>1, StoreConstants DEF Look, Stage, Idle
      <4> QED
        BY <4>1
    <3>2. CASE RequestFails(l)
      <4> DEFINE s == IF loader[l].pos < Attempts THEN [loader[l] EXCEPT !.pos = @ + 1] ELSE Idle
      <4>1. loader[l].at = "request" /\ Goes(l, s)
        BY <3>2 DEF RequestFails, At
      <4>2. s \in [at : {"idle", "request", "publish", "infer"}, file : {NoFile}, pos : Nat]
        BY <1>0, <2>1, <4>1, StoreConstants DEF StoreTypeOK, Idle
      <4> QED
        BY <4>1, <4>2
    <3>3. CASE Publish(l) \/ Infer(l)
      <4>1. Goes(l, Stage("infer")) \/ Goes(l, Idle)
        BY <3>3 DEF Publish, Infer
      <4>2. {Stage("infer"), Idle} \subseteq [at : {"idle", "request", "publish", "infer"}, file : {NoFile}, pos : Nat]
        BY DEF Stage, Idle
      <4> QED
        BY <4>1, <4>2
    <3> QED
      BY <1>1, <3>1, <3>2, <3>3
  <2>3. UNCHANGED fileVars /\ loaded' \in BOOLEAN /\ inferred' \in BOOLEAN /\ unloading' \in BOOLEAN
        /\ straggler' \in BOOLEAN
    BY <1>0, <1>1 DEF Look, RequestFails, Publish, Infer, modelVars, fileVars
  <2> QED
    BY <1>0, <2>1, <2>2, <2>3, MoveStep
<1>2. ASSUME UNCHANGED storeVars \/ Unload \/ DropResults \/ ClearInferenceCache \/ ClearCache
      PROVE  FilesInv'
  <2>1. /\ UNCHANGED <<content, made, shared, broken, loader>>
        /\ (cached' = cached /\ tmp' = tmp) \/ (cached' = NoFile /\ tmp' = NoFile)
        /\ loaded' \in BOOLEAN /\ inferred' \in BOOLEAN /\ unloading' \in BOOLEAN /\ straggler' \in BOOLEAN
    BY <1>0, <1>2 DEF storeVars, Unload, DropResults, ClearInferenceCache, ClearCache, fileVars, modelVars
  <2> QED
    BY <1>0, <2>1, MemoryStep
<1>3. FilesInv'
  BY <1>0, <1>1, <1>2, CreateStep, CopyStep, CopyFailsStep, RenameStep, DieStep DEF StoreNext
<1>4. ResultsFollowModel'
  BY <1>0 DEF ResultsFollowModel, StoreNext, storeVars, fileVars, modelVars, Look, RequestFails, Create, Copy,
     CopyFails, Rename, Publish, Infer, Unload, DropResults, ClearInferenceCache, ClearCache, Die
<1> QED
  BY <1>3, <1>4 DEF StoreInv

\* However downloads share a temporary name, break off and die, only a file that two
\* loaders had a hand in can be cached cut short; and results follow their model.
THEOREM StoreStaysSound == StoreSpec => []StoreIsSound
<1>1. StoreInv => StoreIsSound
  BY DEF StoreInv, FilesInv, FilesAreCovered, Covered, StoreIsSound, CachedIsWhole
<1> QED
  BY <1>1, StoreInitInv, StoreNextInv, PTL DEF StoreSpec

-----------------------------------------------------------------------------
(* Telemetry: what is published                                            *)

Received == ToSet(Target)
CounterValues == [Counters -> Nat]

ExportState == [at : {"idle", "read", "send"}, next : Nat \ {0}, export : CounterValues]

MeterTypeOK ==
  /\ live \in CounterValues
  /\ published \in [Received -> CounterValues]
  /\ publisher \in [Publisher -> ExportState]

\* The counters an export holds by now; the errors, which it never holds, count.
Got(me) == {"requests", "errors"} \cup {Exported[k] : k \in 1..(me.next - 1)}

\* What is on its way is between what the targets have and what there is.
Faithful(me) ==
  /\ me.export["errors"] = 0 /\ Covers(live, me.export)
  /\ me.at = "read" => \A t \in Received, c \in Counters : c \in Got(me) => me.export[c] >= published[t][c]
  /\ me.at = "send" => \A t \in Received : Covers(me.export, published[t])

MeterInv ==
  /\ MeterTypeOK
  /\ \A p, q \in Publisher : Works(p) /\ Works(q) => p = q
  /\ \A t \in Received : published[t]["errors"] = 0 /\ Covers(live, published[t])
  /\ \A p \in Publisher : Faithful(publisher[p])

LEMMA CountersAre ==
  /\ Counters = {"hits", "misses", "falsePositives", "input", "output", "saved", "injections", "rateLimits",
                 "validationFailures", "unauthorized", "requests", "errors"}
  /\ Len(Exported) = 10 /\ Exported \in Seq(Counters)
  /\ \A c \in Counters : c \in {"requests", "errors"} \/ \E k \in 1..10 : Exported[k] = c
  /\ \A k \in 1..10 : Exported[k] \in Counters \ {"requests", "errors"}
<1> DEFINE C == {"hits", "misses", "falsePositives", "input", "output", "saved", "injections", "rateLimits",
                 "validationFailures", "unauthorized", "requests", "errors"}
<1>1. DOMAIN Bumps = {"hit", "miss", "false_positive", "input", "output", "saved", "burned_cost", "injection",
                      "rate_limit", "validation_failure", "unauthorized", "success", "error", "latency",
                      "quality", "gateway_status", "unknown"}
  BY DEF Bumps
<1>2. \A c : c \in Counters <=> \E b \in DOMAIN Bumps : c \in Bumps[b]
  BY DEF Counters
<1>3. \A b \in DOMAIN Bumps : Bumps[b] \subseteq C
  BY <1>1 DEF Bumps
<1>4. \A c \in C : \E b \in DOMAIN Bumps : c \in Bumps[b]
  <2>1. /\ "hits" \in Bumps["hit"] /\ "misses" \in Bumps["miss"] /\ "falsePositives" \in Bumps["false_positive"]
        /\ "input" \in Bumps["input"] /\ "output" \in Bumps["output"] /\ "saved" \in Bumps["saved"]
        /\ "injections" \in Bumps["injection"] /\ "rateLimits" \in Bumps["rate_limit"]
        /\ "validationFailures" \in Bumps["validation_failure"] /\ "unauthorized" \in Bumps["unauthorized"]
        /\ "requests" \in Bumps["error"] /\ "errors" \in Bumps["error"]
    BY DEF Bumps
  <2> QED
    BY <1>1, <2>1
<1>5. Counters = C
  BY <1>2, <1>3, <1>4
<1>6. /\ Exported[1] = "hits" /\ Exported[2] = "misses" /\ Exported[3] = "falsePositives"
      /\ Exported[4] = "input" /\ Exported[5] = "output" /\ Exported[6] = "saved"
      /\ Exported[7] = "injections" /\ Exported[8] = "rateLimits" /\ Exported[9] = "validationFailures"
      /\ Exported[10] = "unauthorized" /\ Len(Exported) = 10
  BY DEF Exported
<1>7. 1..10 = {1, 2, 3, 4, 5, 6, 7, 8, 9, 10}
  OBVIOUS
<1>8. Exported \in Seq(Counters)
  BY <1>5 DEF Exported
<1>9. \A c \in Counters : c \in {"requests", "errors"} \/ \E k \in 1..10 : Exported[k] = c
  BY <1>5, <1>6, <1>7
<1>10. \A k \in 1..10 : Exported[k] \in Counters \ {"requests", "errors"}
  BY <1>5, <1>6, <1>7
<1> QED
  BY <1>5, <1>6, <1>8, <1>9, <1>10

LEMMA TargetsAre ==
  /\ Len(Target) \in Nat
  /\ \A k \in Nat \ {0} : k <= Len(Target) => Target[k] \in Received
BY TelemetryAssumption DEF Received, ToSet

\* The three ways an export in the making goes on.
LEMMA Moved ==
  ASSUME NEW me \in ExportState, NEW n \in Nat, NEW c0 \in Counters
  PROVE  /\ [me EXCEPT !.at = "send", !.next = 1] \in ExportState
         /\ [me EXCEPT !.at = "send", !.next = 1].at = "send"
         /\ [me EXCEPT !.at = "send", !.next = 1].export = me.export
         /\ [me EXCEPT !.next = @ + 1] \in ExportState
         /\ [me EXCEPT !.next = @ + 1].at = me.at
         /\ [me EXCEPT !.next = @ + 1].export = me.export
         /\ [me EXCEPT !.next = @ + 1, !.export = [@ EXCEPT ![c0] = n]] \in ExportState
         /\ [me EXCEPT !.next = @ + 1, !.export = [@ EXCEPT ![c0] = n]].at = me.at
         /\ [me EXCEPT !.next = @ + 1, !.export = [@ EXCEPT ![c0] = n]].next = me.next + 1
         /\ \A c \in Counters : [me EXCEPT !.next = @ + 1, !.export = [@ EXCEPT ![c0] = n]].export[c]
                                = IF c = c0 THEN n ELSE me.export[c]
<1>1. [me.export EXCEPT ![c0] = n] \in CounterValues
      /\ \A c \in Counters : [me.export EXCEPT ![c0] = n][c] = IF c = c0 THEN n ELSE me.export[c]
  BY DEF ExportState, CounterValues
<1> DEFINE x == [me.export EXCEPT ![c0] = n]
<1>2. [me EXCEPT !.next = @ + 1, !.export = [@ EXCEPT ![c0] = n]] = [me EXCEPT !.next = @ + 1, !.export = x]
  OBVIOUS
<1> HIDE DEF x
<1>3. /\ [me EXCEPT !.next = @ + 1] \in ExportState
      /\ [me EXCEPT !.next = @ + 1].at = me.at
      /\ [me EXCEPT !.next = @ + 1].next = me.next + 1
      /\ [me EXCEPT !.next = @ + 1].export = me.export
  BY DEF ExportState
<1>4. /\ [me EXCEPT !.next = @ + 1, !.export = x].at = me.at
      /\ [me EXCEPT !.next = @ + 1, !.export = x].next = me.next + 1
      /\ [me EXCEPT !.next = @ + 1, !.export = x].export = x
      /\ [me EXCEPT !.at = "send", !.next = 1].at = "send"
      /\ [me EXCEPT !.at = "send", !.next = 1].export = me.export
  BY DEF ExportState
<1>5. [me EXCEPT !.next = @ + 1, !.export = x] \in ExportState
  <2> DEFINE r == [me EXCEPT !.next = @ + 1]
  <2>1. [me EXCEPT !.next = @ + 1, !.export = x] = [r EXCEPT !.export = x]
    BY Zenon
  <2> HIDE DEF r
  <2>2. ASSUME r \in ExportState, x \in CounterValues PROVE [r EXCEPT !.export = x] \in ExportState
    BY <2>2 DEF ExportState
  <2> QED
    BY <1>1, <1>3, <2>1, <2>2 DEF r, x
<1>6. [me EXCEPT !.at = "send", !.next = 1] \in ExportState
  <2> DEFINE r == [me EXCEPT !.at = "send"]
  <2>1. [me EXCEPT !.at = "send", !.next = 1] = [r EXCEPT !.next = 1]
    BY Zenon
  <2>2. r \in ExportState
    BY DEF ExportState
  <2> HIDE DEF r
  <2>3. [r EXCEPT !.next = 1] \in ExportState
    BY <2>2 DEF ExportState
  <2> QED
    BY <2>1, <2>3
<1> QED
  BY <1>1, <1>2, <1>3, <1>4, <1>5, <1>6 DEF x

LEMMA MeterInitInv == TelemetryInit => MeterInv
<1> SUFFICES ASSUME TelemetryInit PROVE MeterInv
  OBVIOUS
<1>1. Zero \in CounterValues /\ \A c \in Counters : Zero[c] = 0
  BY DEF Zero, CounterValues
<1>2. /\ live = Zero /\ published = [t \in Received |-> Zero]
      /\ publisher = [p \in Publisher |-> AtRest]
  BY DEF TelemetryInit, Received
<1>3. AtRest = [at |-> "idle", next |-> 1, export |-> Zero] /\ "errors" \in Counters
  BY CountersAre DEF AtRest
<1>4. \A p \in Publisher : Faithful(publisher[p])
  BY <1>1, <1>2, <1>3 DEF Faithful, Covers, CounterValues
<1>5. AtRest \in ExportState
  BY <1>1, <1>3 DEF ExportState
<1>6. MeterTypeOK
  BY <1>1, <1>2, <1>5 DEF MeterTypeOK
<1>7. \A t \in Received : published[t]["errors"] = 0 /\ Covers(live, published[t])
  BY <1>1, <1>2, <1>3 DEF Covers, CounterValues
<1>8. \A p \in Publisher : ~Works(p)
  BY <1>2, <1>3 DEF Works
<1> QED
  BY <1>4, <1>6, <1>7, <1>8 DEF MeterInv

\* The counters only grow, so nothing that was covered is uncovered.
LEMMA RecordStep ==
  ASSUME MeterInv, NEW v \in Event, Record(v)
  PROVE  MeterInv' /\ Covers(live', live)
<1>1. live' = [c \in Counters |-> IF c \in Bumps[v] THEN live[c] + 1 ELSE live[c]]
  BY DEF Record
<1>2. live \in CounterValues /\ UNCHANGED <<publisher, published>>
  BY DEF MeterInv, MeterTypeOK, Record
<1>3. live' \in CounterValues /\ \A c \in Counters : live'[c] >= live[c]
  BY <1>1, <1>2 DEF CounterValues
<1>4. ASSUME NEW x \in CounterValues, Covers(live, x) PROVE Covers(live', x)
  BY <1>2, <1>3, <1>4 DEF Covers, CounterValues
<1>5. \A t \in Received : published[t] \in CounterValues
  BY DEF MeterInv, MeterTypeOK
<1>6. \A p \in Publisher : publisher[p].export \in CounterValues
  BY DEF MeterInv, MeterTypeOK, ExportState
<1>7. ASSUME NEW p \in Publisher PROVE Faithful(publisher[p])'
  <2>1. Faithful(publisher[p])
    BY DEF MeterInv
  <2>2. Covers(live', publisher[p].export)
    BY <1>4, <1>6, <2>1 DEF Faithful
  <2> QED
    BY <1>2, <2>1, <2>2 DEF Faithful, Covers, Got
<1>8. \A t \in Received : Covers(live', published[t])
  BY <1>4, <1>5 DEF MeterInv
<1>9. MeterTypeOK'
  BY <1>2, <1>3 DEF MeterInv, MeterTypeOK
<1>10. \A p, q \in Publisher : Works(p)' /\ Works(q)' => p = q
  BY <1>2 DEF MeterInv, Works
<1>11. \A t \in Received : published'[t]["errors"] = 0 /\ Covers(live, published[t])' 
  BY <1>2, <1>8 DEF MeterInv, Covers
<1> QED
  BY <1>3, <1>2, <1>7, <1>9, <1>10, <1>11 DEF MeterInv, Covers, CounterValues

\* An export in the making becomes another one: the rest is as it was.
LEMMA PublisherStep ==
  ASSUME MeterInv, NEW p \in Publisher, UNCHANGED <<live, published>>,
         NEW to, publisher' = [publisher EXCEPT ![p] = to],
         to \in ExportState,
         Faithful(to),
         to.at # "idle" => \A q \in Publisher : Works(q) => q = p
  PROVE  MeterInv'
<1>1. MeterTypeOK'
  BY DEF MeterInv, MeterTypeOK
<1>2. publisher'[p] = to /\ \A q \in Publisher : q # p => publisher'[q] = publisher[q]
  BY DEF MeterInv, MeterTypeOK
<1>3. \A q, r \in Publisher : Works(q)' /\ Works(r)' => q = r
  BY <1>2 DEF MeterInv, Works
<1>4. ASSUME NEW q \in Publisher PROVE Faithful(publisher[q])'
  <2>1. Faithful(publisher'[q])
    BY <1>2 DEF MeterInv
  <2> QED
    BY <2>1 DEF Faithful, Covers, Got
<1>5. \A t \in Received : (published[t]["errors"] = 0 /\ Covers(live, published[t]))'
  BY DEF MeterInv, Covers
<1> QED
  BY <1>1, <1>3, <1>4, <1>5 DEF MeterInv

LEMMA BeginStep ==
  ASSUME MeterInv, NEW p \in Publisher, Begin(p)
  PROVE  MeterInv'
<1> DEFINE to == [at |-> "read", next |-> 1, export |-> [c \in Counters |-> IF c = "requests" THEN live.requests ELSE 0]]
<1>1. "requests" \in Counters /\ "errors" \in Counters
  BY CountersAre
<1>2. Reading = to
  <2>1. [Zero EXCEPT !.requests = live.requests] = to.export
    BY <1>1 DEF Zero
  <2>2. Reading = [AtRest EXCEPT !.at = "read", !.export = to.export]
    BY <2>1, Zenon DEF Reading, AtRest
  <2>3. AtRest = [at |-> "idle", next |-> 1, export |-> Zero]
    BY DEF AtRest
  <2> DEFINE x == to.export
             r == [AtRest EXCEPT !.at = "read"]
  <2>4. r = [at |-> "read", next |-> 1, export |-> Zero]
    BY <2>3
  <2>5. [AtRest EXCEPT !.at = "read", !.export = x] = [r EXCEPT !.export = x]
    BY Zenon
  <2> HIDE DEF x, r
  <2>6. [r EXCEPT !.export = x] = [at |-> "read", next |-> 1, export |-> x]
    BY <2>4
  <2> QED
    BY <2>2, <2>5, <2>6 DEF x
<1>3. publisher' = [publisher EXCEPT ![p] = to] /\ UNCHANGED <<live, published>>
  BY <1>2 DEF Begin, Becomes
<1>4. live \in CounterValues /\ published \in [Received -> CounterValues]
  BY DEF MeterInv, MeterTypeOK
<1>5. to \in ExportState
  <2>1. to.export \in CounterValues
    BY <1>1, <1>4 DEF CounterValues
  <2> QED
    BY <2>1 DEF ExportState
<1>6. Faithful(to)
  <2>1. \A c \in Counters : to.export[c] = IF c = "requests" THEN live[c] ELSE 0
    OBVIOUS
  <2>2. to.export["errors"] = 0 /\ Covers(live, to.export)
    BY <1>1, <1>4, <2>1 DEF Covers, CounterValues
  <2>3. \A c : c \in Got(to) => c \in {"requests", "errors"}
    BY DEF Got
  <2>4. ASSUME NEW t \in Received PROVE to.export["requests"] >= published[t]["requests"] /\ to.export["errors"] >= published[t]["errors"]
    BY <1>1, <1>4, <2>1 DEF MeterInv, Covers, CounterValues
  <2> QED
    BY <2>2, <2>3, <2>4 DEF Faithful
<1> HIDE DEF to
<1>7. \A q \in Publisher : Works(q) => q = p
  BY DEF Begin
<1> QED
  BY <1>3, <1>5, <1>6, <1>7, PublisherStep

LEMMA ReadStep ==
  ASSUME MeterInv, NEW p \in Publisher, ReadNext(p)
  PROVE  MeterInv'
<1> DEFINE me == publisher[p]
           c0 == Exported[me.next]
           sent == [me EXCEPT !.at = "send", !.next = 1]
           more == [me EXCEPT !.next = @ + 1, !.export = [@ EXCEPT ![c0] = live[c0]]]
<1>1. /\ me.at = "read" /\ UNCHANGED <<live, published>>
      /\ me \in ExportState /\ me.next \in Nat \ {0} /\ me.export \in CounterValues
  BY DEF ReadNext, MeterInv, MeterTypeOK, ExportState
<1>2. publisher' = [publisher EXCEPT ![p] = IF me.next > Len(Exported) THEN sent ELSE more]
  BY DEF ReadNext, Becomes
<1>3. live \in CounterValues /\ published \in [Received -> CounterValues]
  BY DEF MeterInv, MeterTypeOK
<1>4. Faithful(me) /\ \A q \in Publisher : Works(q) => q = p
  BY <1>1 DEF MeterInv, Works
<1>5. CASE me.next > Len(Exported)
  <2>1. sent \in ExportState
        /\ sent.export = me.export /\ sent.at = "send"
    <3> HIDE DEF me
    <3> QED
      BY <1>1, Moved, CountersAre
  <2>2. Counters \subseteq Got(me)
    <3>1. 1..10 \subseteq 1..(me.next - 1)
      BY <1>1, <1>5, CountersAre DEF ExportState
    <3> HIDE DEF me
    <3> QED
      BY <3>1, CountersAre DEF Got
  <2>3. \A t \in Received : Covers(me.export, published[t])
    <3>1. \A t \in Received : published[t] \in CounterValues
      BY <1>3
    <3>2. \A t \in Received, c \in Counters : me.export[c] >= published[t][c]
      BY <1>1, <1>4, <2>2 DEF Faithful
    <3> HIDE DEF me
    <3> QED
      BY <1>1, <3>1, <3>2 DEF Covers, CounterValues
  <2>4. Faithful(sent)
    BY <1>4, <2>1, <2>3 DEF Faithful
  <2> HIDE DEF sent
  <2> QED
    BY <1>1, <1>2, <1>4, <1>5, <2>1, <2>4, PublisherStep
<1>6. CASE ~(me.next > Len(Exported))
  <2>1. me.next \in 1..10 /\ c0 \in Counters /\ c0 # "errors" /\ c0 # "requests"
    <3>1. me.next \in 1..10
      <4> HIDE DEF me
      <4> QED
        BY <1>1, <1>6, CountersAre
    <3> HIDE DEF me
    <3> QED
      BY <3>1, CountersAre
  <2>2. /\ more \in ExportState
        /\ more.at = "read" /\ more.next = me.next + 1
        /\ \A c \in Counters : more.export[c] = IF c = c0 THEN live[c] ELSE me.export[c]
    <3>1. live[c0] \in Nat
      BY <1>3, <2>1 DEF CounterValues
    <3> DEFINE n == live[c0]
    <3> HIDE DEF me, c0, n
    <3>2. [me EXCEPT !.next = @ + 1, !.export = [@ EXCEPT ![c0] = n]] = more
      BY DEF n
    <3>3. /\ more \in ExportState /\ more.at = me.at /\ more.next = me.next + 1
          /\ \A c \in Counters : more.export[c] = IF c = c0 THEN n ELSE me.export[c]
      <4> HIDE DEF more
      <4>1. me \in ExportState /\ n \in Nat /\ c0 \in Counters
        BY <1>1, <2>1, <3>1 DEF n
      <4> QED
        BY <3>2, <4>1, Moved, Zenon
    <3> HIDE DEF more
    <3> QED
      BY <1>1, <3>3 DEF n
  <2>4. \A c \in Counters : c \in Got(more) => c \in Got(me) \/ c = c0
    <3> HIDE DEF more
    <3>1. \A k \in 1..(more.next - 1) : k \in 1..(me.next - 1) \/ k = me.next
      BY <2>1, <2>2
    <3> QED
      BY <3>1 DEF Got
  <2> HIDE DEF more
  <2>5. more.export["errors"] = 0 /\ Covers(live, more.export)
    <3>1. "errors" \in Counters /\ DOMAIN more.export = Counters /\ DOMAIN me.export = Counters
      BY <1>1, <2>2, CountersAre DEF ExportState, CounterValues
    <3>2. me.export["errors"] = 0 /\ \A c \in Counters : live[c] >= me.export[c] /\ live[c] >= live[c]
      BY <1>3, <1>4, <3>1 DEF Faithful, Covers, CounterValues
    <3>3. \A c \in Counters : live[c] >= more.export[c]
      BY <2>2, <3>2
    <3>4. DOMAIN live = Counters
      BY <1>3 DEF CounterValues
    <3> HIDE DEF me, c0, more
    <3> QED
      BY <2>1, <2>2, <3>1, <3>2, <3>3, <3>4 DEF Covers
  <2>6. ASSUME NEW t \in Received, NEW c \in Counters, c \in Got(more)
        PROVE  more.export[c] >= published[t][c]
    <3>1. live[c] >= published[t][c]
      BY <1>3 DEF MeterInv, Covers, CounterValues
    <3>2. c # c0 => me.export[c] >= published[t][c]
      BY <1>1, <1>4, <2>4, <2>6 DEF Faithful
    <3> QED
      BY <2>2, <3>1, <3>2
  <2>7. Faithful(more)
    BY <2>2, <2>5, <2>6 DEF Faithful
  <2> QED
    BY <1>1, <1>2, <1>4, <1>6, <2>2, <2>7, PublisherStep
<1> QED
  BY <1>5, <1>6

LEMMA SendStep ==
  ASSUME MeterInv, NEW p \in Publisher, Send(p)
  PROVE  MeterInv' /\ \A t \in Received : Covers(published'[t], published[t])
<1> DEFINE me == publisher[p]
           t0 == Target[me.next]
           next == [me EXCEPT !.next = @ + 1]
<1>1. /\ me.at = "send" /\ UNCHANGED live
      /\ me \in ExportState /\ me.next \in Nat \ {0} /\ me.export \in CounterValues
  BY DEF Send, MeterInv, MeterTypeOK, ExportState
<1>2. live \in CounterValues /\ published \in [Received -> CounterValues]
  BY DEF MeterInv, MeterTypeOK
<1>3. Faithful(me) /\ \A q \in Publisher : Works(q) => q = p
  BY <1>1 DEF MeterInv, Works
<1>4. /\ next \in ExportState
      /\ next.at = "send" /\ next.export = me.export
  <2> DEFINE r == [me EXCEPT !.next = @ + 1]
  <2> HIDE DEF me
  <2>1. r \in ExportState /\ r.at = me.at /\ r.export = me.export
    BY <1>1 DEF ExportState
  <2> QED
    BY <1>1, <2>1
<1>5. Faithful(AtRest) /\ AtRest \in ExportState
      /\ AtRest.at = "idle"
  <2>1. Zero \in CounterValues /\ (\A c \in Counters : Zero[c] = 0) /\ "errors" \in Counters
    BY CountersAre DEF Zero, CounterValues
  <2>2. AtRest = [at |-> "idle", next |-> 1, export |-> Zero]
    BY DEF AtRest
  <2>3. Covers(live, Zero)
    BY <1>2, <2>1 DEF Covers, CounterValues
  <2>4. Faithful(AtRest)
    BY <2>1, <2>2, <2>3 DEF Faithful
  <2>5. AtRest \in ExportState
    BY <2>1, <2>2 DEF ExportState
  <2> QED
    BY <2>2, <2>4, <2>5
<1>6. Faithful(next)
  BY <1>1, <1>3, <1>4 DEF Faithful
<1>7. \A t \in Received : Covers(published[t], published[t])
  BY <1>2 DEF Covers, CounterValues
<1>8. CASE UNCHANGED published
  <2>1. publisher' = [publisher EXCEPT ![p] = AtRest] \/ publisher' = [publisher EXCEPT ![p] = next]
    BY <1>8 DEF Send, Becomes
  <2> HIDE DEF me, next
  <2>2. MeterInv'
    BY <1>1, <1>3, <1>4, <1>5, <1>6, <1>8, <2>1, PublisherStep
  <2> QED
    BY <1>7, <1>8, <2>2
<1>9. CASE me.next <= Len(Target) /\ published' = [published EXCEPT ![t0] = me.export]
           /\ publisher' = [publisher EXCEPT ![p] = next]
  <2>1. t0 \in Received
    BY <1>1, <1>9, TargetsAre
  <2> HIDE DEF t0
  <2>2. \A t \in Received : published'[t] = IF t = t0 THEN me.export ELSE published[t]
    BY <1>2, <1>9
  <2>3. me.export["errors"] = 0 /\ Covers(live, me.export) /\ \A t \in Received : Covers(me.export, published[t])
    BY <1>1, <1>3 DEF Faithful
  <2>4. Covers(me.export, me.export)
    BY <1>1 DEF Covers, CounterValues
  <2>5. MeterTypeOK'
    BY <1>1, <1>2, <1>4, <1>9, <2>1 DEF MeterInv, MeterTypeOK
  <2>6. publisher'[p] = next /\ \A q \in Publisher : q # p => publisher'[q] = publisher[q]
    BY <1>9 DEF MeterInv, MeterTypeOK
  <2> HIDE DEF next
  <2>7. \A q, r \in Publisher : Works(q)' /\ Works(r)' => q = r
    BY <1>3, <2>6 DEF Works
  <2>8. ASSUME NEW q \in Publisher PROVE Faithful(publisher[q])'
    <3>1. CASE q = p
      <4>1. Covers(live', next.export) /\ next.export["errors"] = 0
        BY <1>1, <1>4, <2>3
      <4>2. \A t \in Received : Covers(next.export, published'[t])
        BY <1>4, <2>2, <2>3, <2>4
      <4> QED
        BY <1>4, <2>6, <3>1, <4>1, <4>2 DEF Faithful, Covers
    <3>2. CASE q # p
      <4>1. publisher'[q] = publisher[q] /\ publisher[q].at \notin {"read", "send"} /\ Faithful(publisher[q])
        BY <1>3, <2>6, <3>2 DEF Works, MeterInv
      <4> HIDE DEF me
      <4> QED
        BY <1>1, <4>1 DEF Faithful, Covers
    <3> QED
      BY <3>1, <3>2
  <2>9. \A t \in Received : published'[t]["errors"] = 0 /\ Covers(live, published'[t])
    BY <2>2, <2>3 DEF MeterInv
  <2>10. MeterInv'
    BY <1>1, <2>5, <2>7, <2>8, <2>9 DEF MeterInv, Covers
  <2>11. \A t \in Received : Covers(published'[t], published[t])
    BY <1>7, <2>2, <2>3
  <2> QED
    BY <2>10, <2>11
<1> QED
  <2>1. \/ UNCHANGED published
        \/ /\ ~(me.next > Len(Target)) /\ published' = [published EXCEPT ![t0] = me.export]
           /\ publisher' = [publisher EXCEPT ![p] = next]
    BY DEF Send, Becomes
  <2>2. me.next > Len(Target) \/ me.next <= Len(Target)
    BY <1>1, TargetsAre
  <2> HIDE DEF me, next, t0
  <2> QED
    BY <1>8, <1>9, <2>1, <2>2

LEMMA MeterStep ==
  ASSUME MeterInv, [TelemetryNext]_telemetryVars
  PROVE  /\ MeterInv'
         /\ \A t \in Received : Covers(published'[t], published[t])
<1>0. \A t \in Received : Covers(published[t], published[t])
  BY DEF MeterInv, MeterTypeOK, Covers, CounterValues
<1>1. CASE UNCHANGED <<live, publisher, published>>
  BY <1>0, <1>1 DEF MeterInv, MeterTypeOK, Works, Faithful, Covers, Got
<1>2. CASE \E v \in Event : Record(v)
  BY <1>0, <1>2, RecordStep DEF Record
<1>3. CASE \E p \in Publisher : Begin(p)
  BY <1>0, <1>3, BeginStep DEF Begin
<1>4. CASE \E p \in Publisher : ReadNext(p)
  BY <1>0, <1>4, ReadStep DEF ReadNext
<1>5. CASE \E p \in Publisher : Send(p)
  BY <1>5, SendStep
<1>6. CASE StartLoop \/ StopLoop \/ LoopEnds \/ UNCHANGED telemetryVars \/ UNCHANGED meterVars
  <2>1. UNCHANGED <<live, publisher, published>>
    BY <1>6 DEF StartLoop, StopLoop, LoopEnds, telemetryVars, meterVars
  <2> QED
    BY <1>1, <2>1
<1> QED
  BY <1>2, <1>3, <1>4, <1>5, <1>6 DEF TelemetryNext, Meter

\* Whatever is counted while an export is read: no target receives a counter lower
\* than it has seen, nor one the collector has not reached.
THEOREM PublishedCountersGrow == TelemetrySpec => PublishedGrows
<1>1. TelemetryInit => MeterInv
  BY MeterInitInv
<1>2. MeterInv /\ [TelemetryNext]_telemetryVars => MeterInv'
  BY MeterStep
<1>3. MeterInv /\ MeterInv' /\ [TelemetryNext]_telemetryVars =>
        [\A t \in ToSet(Target) : Covers(published'[t], published[t]) /\ Covers(live', published'[t])]_telemetryVars
  BY MeterStep DEF MeterInv, Received, Covers
<1> QED
  BY <1>1, <1>2, <1>3, PTL DEF TelemetrySpec, PublishedGrows
-----------------------------------------------------------------------------
(* Telemetry: the books of a session                                       *)

Book == [burned : Nat, saved : Nat, requests : Nat, by : [Layer -> Nat]]
BooksTypeOK == books \in [today : Day, day : [Day -> Book], total : Book]

DayColumn(col) == [d \in Day |-> books.day[d][col]]
LayerColumn(l) == [d \in Day |-> books.day[d].by[l]]

\* What the days add up to, without what follows from it.
BooksInv ==
  /\ BooksTypeOK
  /\ books.total.burned = SumOver(DayColumn("burned"), Day)
  /\ books.total.saved = SumOver(DayColumn("saved"), Day)
  /\ \A l \in Layer : books.total.by[l] = SumOver(LayerColumn(l), Day)
  /\ SumOver(books.total.by, Layer) <= books.total.saved

\* One day's value grows by n, the others are what they were.
LEMMA DayGrows ==
  ASSUME NEW f \in [Day -> Nat], NEW h \in [Day -> Nat], NEW x \in Day, NEW n \in Nat,
         \A d \in Day : h[d] = IF d = x THEN f[d] + n ELSE f[d]
  PROVE  SumOver(h, Day) = SumOver(f, Day) + n
<1>1. h = [f EXCEPT ![x] = @ + n]
  OBVIOUS
<1>2. IsFiniteSet(Day) /\ f \in [Day -> Int] /\ n \in Int
  BY TelemetryAssumption
<1>3. SumOver([f EXCEPT ![x] = @ + n], Day) = SumOver(f, Day) + n
  BY <1>2, SumGrows, Zenon
<1> QED
  BY <1>1, <1>3

LEMMA BooksInitInv == TelemetryInit => BooksInv
<1> SUFFICES ASSUME TelemetryInit PROVE BooksInv
  OBVIOUS
<1>1. /\ NoDay \in Book /\ NoDay.burned = 0 /\ NoDay.saved = 0 /\ NoDay.by = [l \in Layer |-> 0]
  BY DEF NoDay, Book
<1>2. books.day = [d \in Day |-> NoDay] /\ books.total = NoDay /\ 1 \in Day
      /\ books = [today |-> 1, day |-> [d \in Day |-> NoDay], total |-> NoDay]
  BY TelemetryAssumption, FS_CardinalityType, FS_EmptySet DEF TelemetryInit
<1>3. BooksTypeOK
  BY <1>1, <1>2 DEF BooksTypeOK
<1>4. IsFiniteSet(Day) /\ IsFiniteSet(Layer)
  BY TelemetryAssumption
<1>5. SumOver(DayColumn("burned"), Day) = 0
  BY <1>1, <1>2, <1>4, SumOfZeros DEF DayColumn
<1>6. SumOver(DayColumn("saved"), Day) = 0
  BY <1>1, <1>2, <1>4, SumOfZeros DEF DayColumn
<1>7. \A l \in Layer : SumOver(LayerColumn(l), Day) = 0
  BY <1>1, <1>2, <1>4, SumOfZeros DEF LayerColumn
<1>8. SumOver(books.total.by, Layer) = 0
  BY <1>1, <1>2, <1>4, SumOfZeros
<1> QED
  BY <1>1, <1>2, <1>3, <1>5, <1>6, <1>7, <1>8 DEF BooksInv

LEMMA BookFields ==
  ASSUME BooksTypeOK
  PROVE  /\ books.today \in Day /\ books.total \in Book /\ books.day \in [Day -> Book]
         /\ books.total.burned \in Nat /\ books.total.saved \in Nat /\ books.total.by \in [Layer -> Nat]
         /\ DayColumn("burned") \in [Day -> Nat] /\ DayColumn("saved") \in [Day -> Nat]
         /\ \A l \in Layer : LayerColumn(l) \in [Day -> Nat]
<1>1. books.today \in Day /\ books.total \in Book /\ books.day \in [Day -> Book]
  BY DEF BooksTypeOK
<1>2. \A x \in Book : x.burned \in Nat /\ x.saved \in Nat /\ x["burned"] \in Nat /\ x["saved"] \in Nat /\ x.by \in [Layer -> Nat]
  BY DEF Book
<1> QED
  BY <1>1, <1>2 DEF DayColumn, LayerColumn

\* A book after a use of tokens, and after a saving.
LEMMA BurnBook ==
  ASSUME NEW b \in Book, NEW n \in Nat, NEW r, r = [b EXCEPT !.burned = @ + n, !.requests = @ + 1]
  PROVE  r \in Book /\ r.burned = b.burned + n /\ r.saved = b.saved /\ r.by = b.by
<1> DEFINE x == [b EXCEPT !.burned = @ + n]
<1>1. x \in Book /\ x.burned = b.burned + n /\ x.saved = b.saved /\ x.by = b.by /\ x.requests = b.requests
  BY DEF Book
<1>2. r = [x EXCEPT !.requests = @ + 1]
  <2>1. r = [x EXCEPT !.requests = b.requests + 1]
    BY Zenon
  <2> HIDE DEF x
  <2> QED
    BY <1>1, <2>1
<1> HIDE DEF x
<1> QED
  BY <1>1, <1>2 DEF Book

Saved(b, l, n) == [b EXCEPT !.saved = @ + n, !.by = [k \in Layer |-> IF k = l THEN @[k] + n ELSE @[k]]]

LEMMA SaveBook ==
  ASSUME NEW b \in Book, NEW n \in Nat, NEW l
  PROVE  /\ Saved(b, l, n) \in Book /\ Saved(b, l, n).burned = b.burned /\ Saved(b, l, n).saved = b.saved + n
         /\ \A k \in Layer : Saved(b, l, n).by[k] = IF k = l THEN b.by[k] + n ELSE b.by[k]
<1> DEFINE x == [b EXCEPT !.saved = @ + n]
           layers == [k \in Layer |-> IF k = l THEN b.by[k] + n ELSE b.by[k]]
<1>1. x \in Book /\ x.burned = b.burned /\ x.saved = b.saved + n
  BY DEF Book
<1>2. Saved(b, l, n) = [x EXCEPT !.by = layers]
  BY Zenon DEF Saved
<1>3. layers \in [Layer -> Nat]
  BY DEF Book
<1>4. \A k \in Layer : layers[k] = IF k = l THEN b.by[k] + n ELSE b.by[k]
  OBVIOUS
<1> HIDE DEF x, layers
<1> QED
  BY <1>1, <1>2, <1>3, <1>4 DEF Book

\* One more entry in the day's book and in that of the totals.
LEMMA BothBooks ==
  ASSUME BooksTypeOK, NEW D \in Book, NEW T \in Book,
         books' = [books EXCEPT !.day[books.today] = D, !.total = T]
  PROVE  /\ BooksTypeOK' /\ books'.total = T
         /\ \A d \in Day : books'.day[d] = IF d = books.today THEN D ELSE books.day[d]
<1> DEFINE byDay == [books.day EXCEPT ![books.today] = D]
           x == [books EXCEPT !.day = byDay]
<1>1. byDay \in [Day -> Book] /\ \A d \in Day : byDay[d] = IF d = books.today THEN D ELSE books.day[d]
  BY DEF BooksTypeOK
<1>2. books' = [x EXCEPT !.total = T]
  BY Zenon
<1> HIDE DEF byDay
<1>3. x \in [today : Day, day : [Day -> Book], total : Book] /\ x.day = byDay
  BY <1>1 DEF BooksTypeOK
<1> HIDE DEF x
<1>4. books' \in [today : Day, day : [Day -> Book], total : Book] /\ books'.day = byDay /\ books'.total = T
  BY <1>2, <1>3
<1> QED
  BY <1>1, <1>4 DEF BooksTypeOK

LEMMA BurnStep ==
  ASSUME BooksInv, NEW n \in Nat, Burn(n)
  PROVE  BooksInv'
<1> DEFINE today == books.day[books.today]
           D == [today EXCEPT !.burned = @ + n, !.requests = @ + 1]
           T == [books.total EXCEPT !.burned = @ + n, !.requests = @ + 1]
<1>0. BooksTypeOK
  BY DEF BooksInv
<1>1. today \in Book /\ books.total \in Book /\ books.today \in Day
  BY <1>0, BookFields
<1>2. books' = [books EXCEPT !.day[books.today] = D, !.total = T]
  BY DEF Burn
<1>3. D \in Book /\ D.burned = today.burned + n /\ D.saved = today.saved /\ D.by = today.by
  <2> HIDE DEF today
  <2> QED
    BY <1>1, BurnBook
<1>4. T \in Book /\ T.burned = books.total.burned + n /\ T.saved = books.total.saved /\ T.by = books.total.by
  <2> DEFINE total == books.total
  <2>1. total \in Book
    BY <1>1
  <2>2. T = [total EXCEPT !.burned = @ + n, !.requests = @ + 1]
    OBVIOUS
  <2> HIDE DEF T, total
  <2>3. T \in Book /\ T.burned = total.burned + n /\ T.saved = total.saved /\ T.by = total.by
    BY <2>1, <2>2, BurnBook
  <2> QED
    BY <2>3 DEF total
<1> HIDE DEF D, T
<1>5. /\ BooksTypeOK' /\ books'.total = T
      /\ \A d \in Day : books'.day[d] = IF d = books.today THEN D ELSE books.day[d]
  BY <1>0, <1>2, <1>3, <1>4, BothBooks
<1>6. /\ DayColumn("burned") \in [Day -> Nat] /\ DayColumn("burned")' \in [Day -> Nat]
  <2>1. \A d \in Day : books'.day[d].burned \in Nat
    BY <1>5 DEF BooksTypeOK, Book
  <2> QED
    BY <1>0, <2>1, BookFields DEF DayColumn
<1>7. \A d \in Day : DayColumn("burned")'[d] = IF d = books.today THEN DayColumn("burned")[d] + n ELSE DayColumn("burned")[d]
  BY <1>3, <1>5 DEF DayColumn
<1>8. SumOver(DayColumn("burned")', Day) = SumOver(DayColumn("burned"), Day) + n
  BY <1>1, <1>6, <1>7, DayGrows
<1>9. DayColumn("saved")' = DayColumn("saved") /\ \A l \in Layer : LayerColumn(l)' = LayerColumn(l)
  BY <1>3, <1>5 DEF DayColumn, LayerColumn
<1> QED
  BY <1>4, <1>5, <1>8, <1>9 DEF BooksInv

LEMMA SaveStep ==
  ASSUME BooksInv, NEW n \in Nat, NEW l, Save(l, n)
  PROVE  BooksInv'
<1> DEFINE today == books.day[books.today]
           D == Saved(today, l, n)
           T == Saved(books.total, l, n)
<1>0. BooksTypeOK
  BY DEF BooksInv
<1>1. today \in Book /\ books.total \in Book /\ books.today \in Day
  BY <1>0, BookFields
<1>2. books' = [books EXCEPT !.day[books.today] = D, !.total = T]
  BY DEF Save, Saved
<1>3. /\ D \in Book /\ D.burned = today.burned /\ D.saved = today.saved + n
      /\ \A k \in Layer : D.by[k] = IF k = l THEN today.by[k] + n ELSE today.by[k]
  <2> HIDE DEF today
  <2> QED
    BY <1>1, SaveBook
<1>4. /\ T \in Book /\ T.burned = books.total.burned /\ T.saved = books.total.saved + n
      /\ \A k \in Layer : T.by[k] = IF k = l THEN books.total.by[k] + n ELSE books.total.by[k]
  BY <1>1, SaveBook
<1> HIDE DEF D, T
<1>5. /\ BooksTypeOK' /\ books'.total = T
      /\ \A d \in Day : books'.day[d] = IF d = books.today THEN D ELSE books.day[d]
  BY <1>0, <1>2, <1>3, <1>4, BothBooks
<1>6. \A d \in Day : books'.day[d].saved \in Nat /\ books'.day[d].by \in [Layer -> Nat]
  BY <1>5 DEF BooksTypeOK, Book
<1>7. SumOver(DayColumn("saved")', Day) = SumOver(DayColumn("saved"), Day) + n
  <2>1. DayColumn("saved") \in [Day -> Nat] /\ DayColumn("saved")' \in [Day -> Nat]
    BY <1>0, <1>6, BookFields DEF DayColumn
  <2>2. \A d \in Day : DayColumn("saved")'[d] = IF d = books.today THEN DayColumn("saved")[d] + n ELSE DayColumn("saved")[d]
    BY <1>3, <1>5 DEF DayColumn
  <2> QED
    BY <1>1, <2>1, <2>2, DayGrows
<1>8. DayColumn("burned")' = DayColumn("burned")
  BY <1>3, <1>5 DEF DayColumn
<1>9. ASSUME NEW k \in Layer PROVE books'.total.by[k] = SumOver(LayerColumn(k), Day)'
  <2>1. LayerColumn(k) \in [Day -> Nat] /\ LayerColumn(k)' \in [Day -> Nat]
    BY <1>0, <1>6, BookFields DEF LayerColumn
  <2>2. \A d \in Day : LayerColumn(k)'[d] = IF d = books.today /\ k = l THEN LayerColumn(k)[d] + n ELSE LayerColumn(k)[d]
    BY <1>3, <1>5 DEF LayerColumn
  <2>3. books.total.by[k] = SumOver(LayerColumn(k), Day)
    BY DEF BooksInv
  <2>4. CASE k = l
    <3>1. SumOver(LayerColumn(k)', Day) = SumOver(LayerColumn(k), Day) + n
      BY <1>1, <2>1, <2>2, <2>4, DayGrows
    <3> QED
      BY <1>4, <1>5, <2>3, <2>4, <3>1
  <2>5. CASE k # l
    <3>1. LayerColumn(k)' = LayerColumn(k)
      BY <2>1, <2>2, <2>5
    <3> QED
      BY <1>4, <1>5, <2>3, <2>5, <3>1
  <2> QED
    BY <2>4, <2>5
<1>10. SumOver(T.by, Layer) <= T.saved
  <2>1. books.total.by \in [Layer -> Nat] /\ T.by \in [Layer -> Nat] /\ books.total.saved \in Nat
    BY <1>0, <1>4, BookFields DEF Book
  <2>2. SumOver(books.total.by, Layer) <= books.total.saved
    BY DEF BooksInv
  <2>3. CASE l \in Layer
    <3>1. T.by = [books.total.by EXCEPT ![l] = @ + n]
      BY <1>4, <2>1
    <3> DEFINE f == books.total.by
    <3>2. SumOver([f EXCEPT ![l] = @ + n], Layer) = SumOver(f, Layer) + n /\ SumOver(f, Layer) \in Int
      <4>1. f \in [Layer -> Int] /\ n \in Int /\ IsFiniteSet(Layer)
        BY <2>1, TelemetryAssumption
      <4> HIDE DEF f
      <4> QED
        BY <2>3, <4>1, SumGrows, Zenon
    <3>3. SumOver(T.by, Layer) = SumOver(f, Layer) + n
      BY <3>1, <3>2
    <3> QED
      BY <1>4, <2>1, <2>2, <3>2, <3>3
  <2>4. CASE l \notin Layer
    <3>1. T.by = books.total.by
      BY <1>4, <2>1, <2>4
    <3>2. SumOver(books.total.by, Layer) \in Int
      <4>1. CASE Layer = {}
        <5>1. SumOver(books.total.by, Layer) = 0
          BY <4>1, SumOfZeros, TelemetryAssumption
        <5> QED
          BY <5>1
      <4>2. CASE Layer # {}
        BY <2>1, <4>2, SumGrows, TelemetryAssumption
      <4> QED
        BY <4>1, <4>2
    <3> QED
      BY <1>4, <2>1, <2>2, <3>1, <3>2
  <2> QED
    BY <2>3, <2>4
<1> QED
  BY <1>4, <1>5, <1>7, <1>8, <1>9, <1>10 DEF BooksInv

LEMMA BooksNextInv == BooksInv /\ [TelemetryNext]_telemetryVars => BooksInv'
<1> SUFFICES ASSUME BooksInv, [TelemetryNext]_telemetryVars PROVE BooksInv'
  OBVIOUS
<1>1. CASE UNCHANGED books
  BY <1>1 DEF BooksInv, BooksTypeOK, DayColumn, LayerColumn
<1>2. CASE \E n \in Amount : Burn(n) \/ \E l \in Layer \cup {"unknown"} : Save(l, n)
  BY <1>2, BurnStep, SaveStep, TelemetryAssumption
<1>3. CASE Midnight
  <2>1. books' = [books EXCEPT !.today = @ + 1] /\ books.today + 1 \in Day
    <3> DEFINE n == Cardinality(Day)
               x == books.today
    <3>1. n \in Nat /\ Day = 1..n
      BY FS_CardinalityType, TelemetryAssumption
    <3>2. x \in Day /\ x < n
      BY <1>3, BookFields DEF BooksInv, Midnight
    <3> HIDE DEF n, x
    <3>3. x + 1 \in Day
      BY <3>1, <3>2
    <3> QED
      BY <1>3, <3>3 DEF Midnight, x
  <2>2. BooksTypeOK' /\ books'.day = books.day /\ books'.total = books.total
    BY <2>1 DEF BooksInv, BooksTypeOK
  <2> QED
    BY <2>2 DEF BooksInv, DayColumn, LayerColumn
<1> QED
  BY <1>1, <1>2, <1>3 DEF TelemetryNext, Keep, telemetryVars

LEMMA PercentIsOne ==
  ASSUME NEW x \in Nat, NEW y \in Nat, y # 0
  PROVE  (100 * x) \div (y + x) \in 0..100
<1>1. 100 * x >= 0 /\ 100 * x <= 100 * (y + x) /\ y + x > 0
  OBVIOUS
<1> QED
  BY <1>1

LEMMA BooksSaySo == BooksInv => BooksAddUp
<1> SUFFICES ASSUME BooksInv PROVE BooksAddUp
  OBVIOUS
<1>1. books.total.burned \in Nat /\ books.total.saved \in Nat
  BY BookFields DEF BooksInv
<1>2. SavingsPercent(books.total) \in 0..100
  <2> DEFINE x == books.total.saved
             y == books.total.burned
  <2>1. SavingsPercent(books.total) = IF y = 0 THEN 0 ELSE (100 * x) \div (y + x)
    BY DEF SavingsPercent
  <2> HIDE DEF x, y
  <2>2. x \in Nat /\ y \in Nat
    BY <1>1 DEF x, y
  <2>3. CASE y = 0
    BY <2>1, <2>3
  <2>4. CASE y # 0
    BY <2>1, <2>2, <2>4, PercentIsOne, Zenon
  <2> QED
    BY <2>3, <2>4
<1>3. ASSUME NEW n \in 1..30 PROVE Projected(n).saved >= books.total.saved
  <2> DEFINE x == books.total.saved
  <2>1. Projected(n).saved = (30 * x) \div n
    BY <1>3 DEF Projected
  <2> HIDE DEF x
  <2>2. x \in Nat
    BY <1>1 DEF x
  <2>3. (30 * x) \div n >= x
    BY <1>3, <2>2
  <2> QED
    BY <2>1, <2>3 DEF x
<1>4. /\ books.total.burned = SumOver([d \in Day |-> books.day[d].burned], Day)
      /\ books.total.saved = SumOver([d \in Day |-> books.day[d].saved], Day)
  BY DEF BooksInv, DayColumn
<1>5. /\ \A l \in Layer : books.total.by[l] = SumOver([d \in Day |-> books.day[d].by[l]], Day)
      /\ SumOver(books.total.by, Layer) <= books.total.saved
  BY DEF BooksInv, LayerColumn
<1> QED
  BY <1>2, <1>3, <1>4, <1>5 DEF BooksAddUp

\* The days add up to the totals whatever the order of records and midnights.
THEOREM BooksAlwaysAddUp == TelemetrySpec => []BooksAddUp
<1>1. TelemetryInit => BooksInv
  BY BooksInitInv
<1>2. BooksInv /\ [TelemetryNext]_telemetryVars => BooksInv'
  BY BooksNextInv
<1> QED
  BY <1>1, <1>2, BooksSaySo, PTL DEF TelemetrySpec
-----------------------------------------------------------------------------
(* The calls of tools                                                      *)

\* What is written stays accounted for: the outputs are counted, the failures not.
Contexts == [left : Seq(ToolAnswer), counted : Nat, last : Nat, text : Nat, failures : Nat]
Accounted(c) ==
  /\ c \in Contexts
  /\ c.last <= PerToolLimit
  /\ c.counted - c.last <= TokenBudget
  /\ c.text = c.counted + c.failures

CallsTypeOK ==
  /\ \A n \in DOMAIN toolsOf : toolsOf[n] \in Seq(Tool)
  /\ \A t \in DOMAIN answered : answered[t] \in Size
  /\ call \in [todo : Seq(Tool), results : Seq(ToolAnswer)]
  /\ runner \in [Runner -> [tool : Tool \cup {"none"}, attempts : Nat, due : BOOLEAN]]

CallsInv ==
  /\ CallsTypeOK /\ Accounted(context)
  /\ Len(call.todo) + Len(call.results) <= MaxParallel
  /\ \A r \in Runner : /\ runner[r].attempts <= MaxRetries + 1
                       /\ runner[r].due => runner[r].attempts <= MaxRetries

LEMMA NewContextFits ==
  ASSUME NEW rs \in Seq(ToolAnswer)
  PROVE  Accounted(NewContext(rs))
<1>1. PerToolLimit \in Nat /\ TokenBudget \in Nat
  BY CallsAssumption
<1> DEFINE c == NewContext(rs)
<1>2. c \in Contexts /\ c.counted = 0 /\ c.last = 0 /\ c.text = 0 /\ c.failures = 0
  BY DEF NewContext, Contexts
<1> HIDE DEF c
<1>3. Accounted(c)
  BY <1>1, <1>2 DEF Accounted
<1> QED
  BY <1>3 DEF c

LEMMA CallsInitInv == CallsInit => CallsInv
<1> SUFFICES ASSUME CallsInit PROVE CallsInv
  OBVIOUS
<1>1. call = [todo |-> <<>>, results |-> <<>>] /\ Len(<<>>) = 0
  BY EmptySeq DEF CallsInit
<1>2. CallsTypeOK
  BY <1>1, CallsAssumption DEF CallsInit, CallsTypeOK, Resting
<1>3. Accounted(context)
  BY EmptySeq, NewContextFits DEF CallsInit
<1> QED
  BY <1>1, <1>2, <1>3 DEF CallsInit, CallsInv, Resting, MaxParallel, MaxRetries

LEMMA SelectType ==
  ASSUME CallsTypeOK, NEW n
  PROVE  Select(n) \in Seq(Tool)
BY CallsAssumption DEF CallsTypeOK, Select

LEMMA TruncateType ==
  ASSUME NEW S, NEW s \in Seq(S), NEW n \in Nat
  PROVE  Truncate(s, n) \in Seq(S) /\ Len(Truncate(s, n)) <= n
<1>1. Len(s) \in Nat /\ Min({Len(s), n}) = IF Len(s) <= n THEN Len(s) ELSE n
  BY LenProperties, MinOfTwo
<1> DEFINE m == Min({Len(s), n})
<1>2. m \in 0..Len(s) /\ m <= n
  BY <1>1
<1> HIDE DEF m
<1>3. SubSeq(s, 1, m) \in Seq(S) /\ Len(SubSeq(s, 1, m)) = m
  <2>1. \A k \in 1..m : s[k] \in S
    BY <1>1, <1>2, ElementOfSeq
  <2> QED
    BY <1>1, <1>2, <2>1, SubSeqProperties
<1> QED
  BY <1>2, <1>3 DEF Truncate, m

LEMMA InvocationStep ==
  ASSUME CallsInv, Invocation
  PROVE  CallsInv'
<1>0. CallsTypeOK
  BY DEF CallsInv
<1>1. ASSUME NEW n \in Intent, NEW ts \in SeqOf(Tool, MaxParallel + 1), AddIntentMapping(n, ts)
      PROVE  CallsInv'
  <2>1. ts \in Seq(Tool)
    <3>1. PICK m \in 0..(MaxParallel + 1) : ts \in [1..m -> Tool]
      BY DEF SeqOf
    <3>2. m \in Nat
      BY DEF MaxParallel
    <3> QED
      BY <3>1, <3>2, IsASeq
  <2> QED
    BY <1>1, <2>1 DEF AddIntentMapping, handlerVars, CallsInv, CallsTypeOK
<1>2. ASSUME NEW n \in Intent, NEW most \in 0..(MaxParallel + 1), BeginInvoke(n, most)
      PROVE  CallsInv'
  <2> DEFINE s == IF most > 0 THEN Truncate(Select(n), most) ELSE Select(n)
  <2>1. s \in Seq(Tool)
    BY <1>0, SelectType, TruncateType DEF MaxParallel
  <2>2. call' = [todo |-> Truncate(s, MaxParallel), results |-> <<>>]
        /\ UNCHANGED <<toolsOf, answered, context, handlerVars>>
    BY <1>2 DEF BeginInvoke
  <2> HIDE DEF s
  <2>3. Truncate(s, MaxParallel) \in Seq(Tool) /\ Len(Truncate(s, MaxParallel)) <= MaxParallel
        /\ MaxParallel \in Nat /\ Len(Truncate(s, MaxParallel)) \in Nat
    BY <2>1, TruncateType, LenProperties DEF MaxParallel
  <2>4. <<>> \in Seq(ToolAnswer) /\ Len(<<>>) = 0
    BY EmptySeq
  <2> QED
    BY <2>2, <2>3, <2>4 DEF handlerVars, CallsInv, CallsTypeOK
<1>3. ASSUME NEW said \in ToolAnswer, InvokeOne(said) PROVE CallsInv'
  <2> DEFINE t == Head(call.todo)
             answer == IF t \in DOMAIN answered THEN [ok |-> TRUE, size |-> answered[t]] ELSE said
  <2>1. /\ call.todo # <<>>
        /\ call' = [todo |-> Tail(call.todo), results |-> Append(call.results, answer)]
        /\ answered' = IF ~answer.ok THEN answered
                       ELSE [u \in DOMAIN answered \cup {t} |-> IF u = t THEN answer.size ELSE answered[u]]
        /\ UNCHANGED <<toolsOf, context, handlerVars>>
    BY <1>3 DEF InvokeOne
  <2>2. answer \in ToolAnswer /\ answer.size \in Size
    <3>1. \A u \in DOMAIN answered : answered[u] \in Size
      BY <1>0 DEF CallsTypeOK
    <3>2. said.size \in Size
      BY DEF ToolAnswer
    <3>3. CASE t \in DOMAIN answered
      BY <3>1, <3>3 DEF ToolAnswer
    <3>4. CASE t \notin DOMAIN answered
      BY <3>2, <3>4
    <3> QED
      BY <3>3, <3>4
  <2>3. call.todo \in Seq(Tool) /\ call.results \in Seq(ToolAnswer)
    BY <1>0 DEF CallsTypeOK
  <2>4. Tail(call.todo) \in Seq(Tool) /\ Len(Tail(call.todo)) = Len(call.todo) - 1
    BY <2>1, <2>3, HeadTailProperties
  <2> HIDE DEF answer
  <2>5. Append(call.results, answer) \in Seq(ToolAnswer)
        /\ Len(Append(call.results, answer)) = Len(call.results) + 1
    BY <2>2, <2>3, AppendProperties
  <2>6. Len(call.todo) \in Nat /\ Len(call.results) \in Nat
    BY <2>3, LenProperties
  <2>7. \A u \in DOMAIN answered' : answered'[u] \in Size
    BY <1>0, <2>1, <2>2 DEF CallsTypeOK
  <2>8. call' \in [todo : Seq(Tool), results : Seq(ToolAnswer)]
        /\ call'.todo = Tail(call.todo) /\ call'.results = Append(call.results, answer)
    BY <2>1, <2>4, <2>5
  <2>9. Len(call'.todo) + Len(call'.results) = Len(call.todo) + Len(call.results)
    <3>1. Len(call'.todo) = Len(call.todo) - 1
      BY <2>4, <2>8
    <3>2. Len(call'.results) = Len(call.results) + 1
      BY <2>5, <2>8
    <3>3. \A x, y \in Nat : (x - 1) + (y + 1) = x + y
      OBVIOUS
    <3>4. (Len(call.todo) - 1) + (Len(call.results) + 1) = Len(call.todo) + Len(call.results)
      BY <2>6, <3>3, Zenon
    <3> QED
      BY <3>1, <3>2, <3>4, Zenon
  <2> QED
    BY <1>0, <2>1, <2>7, <2>8, <2>9 DEF handlerVars, CallsInv, CallsTypeOK
<1> QED
  BY <1>1, <1>2, <1>3 DEF Invocation

LEMMA ProcessingStep ==
  ASSUME CallsInv, Processing
  PROVE  CallsInv'
<1>1. UNCHANGED <<toolsOf, answered, call, runner>>
  BY DEF Processing, ProcessResults, InjectOne, handlerVars
<1>2. Accounted(context')
  <2>1. ASSUME NEW results \in SeqOf(ToolAnswer, MaxResults), ProcessResults(results)
        PROVE  Accounted(context')
    <3>1. results \in Seq(ToolAnswer)
      <4>1. PICK m \in 0..MaxResults : results \in [1..m -> ToolAnswer]
        BY DEF SeqOf
      <4>2. m \in Nat
        BY CallsAssumption
      <4> QED
        BY <4>1, <4>2, IsASeq
    <3> QED
      BY <2>1, <3>1, NewContextFits DEF ProcessResults
  <2>2. CASE InjectOne
    <3> DEFINE answer == Head(context.left)
               kept == Min({answer.size, PerToolLimit})
               rest == Tail(context.left)
    <3>1. Accounted(context) /\ context.left # <<>> /\ context.counted <= TokenBudget
          /\ context' = Injected(answer)
      BY <2>2 DEF InjectOne, CallsInv
    <3>2. /\ context \in Contexts /\ context.left \in Seq(ToolAnswer) /\ context.counted \in Nat
          /\ context.last \in Nat /\ context.text \in Nat /\ context.failures \in Nat
          /\ context.last <= PerToolLimit /\ context.counted - context.last <= TokenBudget
          /\ context.text = context.counted + context.failures
      BY <3>1 DEF Accounted, Contexts
    <3>3. answer \in ToolAnswer /\ rest \in Seq(ToolAnswer)
      BY <3>1, <3>2, HeadTailProperties
    <3>4. answer.size \in Nat /\ PerToolLimit \in Nat /\ TokenBudget \in Nat
      BY <3>3, CallsAssumption DEF ToolAnswer
    <3>5. kept \in Nat /\ kept <= PerToolLimit
      BY <3>4, MinOfTwo
    <3>6. CASE answer.ok
      <4>1. context' = [left |-> rest, counted |-> context.counted + kept, last |-> kept,
                        text |-> context.text + kept, failures |-> context.failures]
        BY <3>1, <3>6 DEF Injected
      <4> HIDE DEF answer, kept, rest
      <4>2. /\ context'.counted = context.counted + kept /\ context'.last = kept
            /\ context'.text = context.text + kept /\ context'.failures = context.failures
            /\ context'.left = rest
            /\ context' \in Contexts
        BY <3>2, <3>3, <3>5, <4>1 DEF Contexts
      <4> QED
        BY <3>1, <3>2, <3>4, <3>5, <4>2 DEF Accounted
    <3>7. CASE ~answer.ok
      <4>1. context' = [left |-> rest, counted |-> context.counted, last |-> context.last,
                        text |-> context.text + answer.size, failures |-> context.failures + answer.size]
        BY <3>1, <3>7 DEF Injected
      <4> HIDE DEF answer, kept, rest
      <4>2. /\ context'.counted = context.counted /\ context'.last = context.last
            /\ context'.text = context.text + answer.size
            /\ context'.failures = context.failures + answer.size
            /\ context' \in Contexts
        BY <3>2, <3>3, <3>4, <4>1 DEF Contexts
      <4> QED
        BY <3>2, <3>4, <4>2 DEF Accounted
    <3> QED
      BY <3>6, <3>7
  <2> QED
    BY <2>1, <2>2 DEF Processing
<1> QED
  BY <1>1, <1>2 DEF CallsInv, CallsTypeOK

LEMMA GuardedStep ==
  ASSUME CallsInv, Guarded
  PROVE  CallsInv'
<1>1. UNCHANGED <<toolsOf, answered, call, context>>
  BY DEF Guarded, Guard, AttemptFails, AttemptSucceeds, Return
<1>2. PICK r \in Runner : \/ \E t \in Tool : Guard(r, t)
                          \/ \E s \in DOMAIN Retried : AttemptFails(r, s)
                          \/ AttemptSucceeds(r) \/ Return(r)
  BY DEF Guarded
<1>3. PICK x \in [tool : Tool \cup {"none"}, attempts : Nat, due : BOOLEAN] :
        /\ runner' = [runner EXCEPT ![r] = x]
        /\ x.attempts <= MaxRetries + 1 /\ (x.due => x.attempts <= MaxRetries)
  <2>1. ASSUME NEW t \in Tool, Guard(r, t)
        PROVE  LET x == [tool |-> t, attempts |-> 0, due |-> TRUE] IN
               /\ x \in [tool : Tool \cup {"none"}, attempts : Nat, due : BOOLEAN]
               /\ runner' = [runner EXCEPT ![r] = x]
               /\ x.attempts <= MaxRetries + 1 /\ (x.due => x.attempts <= MaxRetries)
    BY <2>1 DEF Guard, MaxRetries
  <2>2. ASSUME NEW s \in DOMAIN Retried, AttemptFails(r, s)
        PROVE  LET x == [tool |-> runner[r].tool, attempts |-> runner[r].attempts + 1,
                         due |-> TriesAgain(s, runner[r].attempts)] IN
               /\ x \in [tool : Tool \cup {"none"}, attempts : Nat, due : BOOLEAN]
               /\ runner' = [runner EXCEPT ![r] = x]
               /\ x.attempts <= MaxRetries + 1 /\ (x.due => x.attempts <= MaxRetries)
    <3>1. /\ runner[r].due /\ runner[r].attempts <= 3 /\ runner[r].attempts \in Nat
          /\ runner[r].tool \in Tool \cup {"none"}
      BY <2>2 DEF AttemptFails, CallsInv, CallsTypeOK, MaxRetries
    <3>2. TriesAgain(s, runner[r].attempts) \in BOOLEAN
          /\ (TriesAgain(s, runner[r].attempts) => runner[r].attempts < 3)
      BY DEF TriesAgain, Retried, MaxRetries
    <3>3. runner' = [runner EXCEPT ![r] = [tool |-> runner[r].tool, attempts |-> runner[r].attempts + 1,
                                           due |-> TriesAgain(s, runner[r].attempts)]]
      BY <2>2 DEF AttemptFails
    <3> QED
      BY <3>1, <3>2, <3>3 DEF MaxRetries
  <2>3. ASSUME AttemptSucceeds(r) \/ Return(r)
        PROVE  /\ Resting \in [tool : Tool \cup {"none"}, attempts : Nat, due : BOOLEAN]
               /\ runner' = [runner EXCEPT ![r] = Resting]
               /\ Resting.attempts <= MaxRetries + 1 /\ (Resting.due => Resting.attempts <= MaxRetries)
    BY <2>3 DEF AttemptSucceeds, Return, Resting, MaxRetries
  <2> QED
    BY <1>2, <2>1, <2>2, <2>3
<1> QED
  BY <1>1, <1>3 DEF CallsInv, CallsTypeOK

LEMMA CallsNextInv == CallsInv /\ [Invocation \/ Processing \/ Guarded]_callsVars => CallsInv'
<1>1. CallsInv /\ UNCHANGED callsVars => CallsInv'
  BY DEF callsVars, handlerVars, CallsInv, CallsTypeOK
<1> QED
  BY <1>1, InvocationStep, ProcessingStep, GuardedStep

\* Whatever tools are mapped to an intent and whatever they answer, no more of them are
\* invoked, no more of their output is counted and no call is tried more often than the
\* limits allow; all that is written without being counted is the text of failures.
THEOREM CallsStayBounded == CallsSpec => []CallsBounded
<1>1. CallsInv => CallsBounded
  <2> SUFFICES ASSUME CallsInv PROVE CallsBounded
    OBVIOUS
  <2>1. /\ context.counted \in Nat /\ context.last \in Nat /\ context.last <= PerToolLimit
        /\ context.counted - context.last <= TokenBudget
        /\ context.text = context.counted + context.failures
    BY DEF CallsInv, Accounted, Contexts
  <2>2. context.counted <= TokenBudget + PerToolLimit
    BY <2>1, CallsAssumption
  <2> QED
    BY <2>1, <2>2 DEF CallsInv, CallsBounded
<1> QED
  BY <1>1, CallsInitInv, CallsNextInv, PTL DEF CallsSpec

-----------------------------------------------------------------------------
(* Statistics: percentiles                                                 *)

LEMMA AscendingIs ==
  ASSUME NEW n \in Nat, NEW d \in [1..n -> Nat], \A k \in 1..(n - 1) : d[k] <= d[k + 1],
         NEW x \in 1..n, NEW y \in 1..n, x <= y
  PROVE  d[x] <= d[y]
<1> DEFINE T == {m \in Nat : x + m <= n => d[x] <= d[x + m]}
<1>1. 0 \in T
  OBVIOUS
<1>2. ASSUME NEW m \in Nat, m \in T PROVE m + 1 \in T
  <2>1. CASE x + (m + 1) <= n
    <3>1. x + m \in 1..(n - 1) /\ d[x] <= d[x + m] /\ (x + m) + 1 = x + (m + 1)
      BY <1>2, <2>1
    <3>2. d[x + m] <= d[x + (m + 1)] /\ x + m \in 1..n /\ x + (m + 1) \in 1..n
      BY <3>1
    <3>3. d[x] \in Nat /\ d[x + m] \in Nat /\ d[x + (m + 1)] \in Nat
      BY <3>2
    <3> QED
      BY <3>1, <3>2, <3>3
  <2>2. CASE ~(x + (m + 1) <= n)
    BY <2>2
  <2> QED
    BY <2>1, <2>2
<1> HIDE DEF T
<1>3. Nat \subseteq T
  BY <1>1, <1>2, NumbersByInduction
<1>4. y - x \in Nat /\ x + (y - x) = y /\ y <= n
  OBVIOUS
<1>5. y - x \in T
  BY <1>3, <1>4
<1>6. d[x] <= d[x + (y - x)]
  BY <1>4, <1>5 DEF T
<1> QED
  BY <1>4, <1>6

\* Where the p-th percentile lies: at a datum, or r hundredths of the way to the next.
Lies(d, n, p, k, r) ==
  /\ k \in 0..(n - 1) /\ r \in 0..99 /\ (n - 1) * p = 100 * k + r
  /\ \/ k = n - 1 /\ r = 0 /\ Percentile100(d, p) = 100 * d[n]
     \/ k < n - 1 /\ Percentile100(d, p) = 100 * d[k + 1] + r * (d[k + 2] - d[k + 1])

LEMMA PercentileLies ==
  ASSUME NEW n \in Nat \ {0}, NEW d \in [1..n -> Nat], NEW p \in 0..100
  PROVE  \E k, r \in Nat : Lies(d, n, p, k, r)
<1> DEFINE h == (n - 1) * p
           k == h \div 100
           r == h % 100
<1>1. Len(d) = n
  OBVIOUS
<1>2. h \in Nat /\ h <= 100 * (n - 1)
  <2>1. n - 1 \in Nat
    OBVIOUS
  <2>2. \A x \in Nat : x * p \in Nat /\ x * p <= 100 * x
    OBVIOUS
  <2> QED
    BY <2>1, <2>2
<1>3. Percentile100(d, p) = IF k >= n - 1 THEN 100 * d[n]
                            ELSE 100 * d[k + 1] + r * (d[k + 2] - d[k + 1])
  BY <1>1 DEF Percentile100
<1> DEFINE x == h
<1> HIDE DEF h
<1>4. k \in Nat /\ r \in 0..99 /\ h = 100 * k + r
  BY <1>2
<1> HIDE DEF k, r
<1>5. k \in 0..(n - 1) /\ (k = n - 1 => r = 0)
  BY <1>2, <1>4
<1>6. Lies(d, n, p, k, r)
  <2>1. (n - 1) * p = 100 * k + r
    BY <1>4 DEF h
  <2>2. CASE k = n - 1
    BY <1>3, <1>4, <1>5, <2>1, <2>2 DEF Lies
  <2>3. CASE k # n - 1
    <3>1. k < n - 1 /\ ~(k >= n - 1)
      BY <1>5, <2>3
    <3>2. Percentile100(d, p) = 100 * d[k + 1] + r * (d[k + 2] - d[k + 1])
      BY <1>3, <3>1
    <3> QED
      BY <1>4, <1>5, <2>1, <3>1, <3>2 DEF Lies
  <2> QED
    BY <2>2, <2>3
<1> QED
  BY <1>4, <1>6

\* It is not below the datum before it, nor above the one after it.
Between(d, n, p, k, r) ==
  /\ Percentile100(d, p) \in Nat /\ 100 * d[k + 1] <= Percentile100(d, p)
  /\ k + 2 <= n => Percentile100(d, p) <= 100 * d[k + 2]
  /\ r = 0 => Percentile100(d, p) = 100 * d[k + 1]

LEMMA PercentileBetween ==
  ASSUME NEW n \in Nat \ {0}, NEW d \in [1..n -> Nat], \A k \in 1..(n - 1) : d[k] <= d[k + 1],
         NEW p, NEW k \in Nat, NEW r \in Nat, Lies(d, n, p, k, r)
  PROVE  Between(d, n, p, k, r)
<1> USE DEF Between
<1>1. CASE k = n - 1
  BY <1>1 DEF Lies
<1>2. CASE k < n - 1
  <2> DEFINE low == d[k + 1]
             high == d[k + 2]
  <2>1. Percentile100(d, p) = 100 * low + r * (high - low) /\ r \in 0..99
    BY <1>2 DEF Lies
  <2>2. k + 1 \in 1..(n - 1) /\ (k + 1) + 1 = k + 2
    BY <1>2
  <2>3. low \in Nat /\ high \in Nat /\ low <= high
    BY <2>2
  <2> HIDE DEF low, high
  <2>4. \A z \in Nat : r * z \in Nat /\ r * z <= 100 * z
    BY <2>1
  <2>5. high - low \in Nat
    BY <2>3
  <2>6. r * (high - low) \in Nat /\ r * (high - low) <= 100 * (high - low)
    BY <2>4, <2>5
  <2>7. r = 0 => r * (high - low) = 0
    BY <2>3
  <2> DEFINE part == r * (high - low)
  <2>8. Percentile100(d, p) = 100 * low + part /\ part \in Nat /\ part <= 100 * (high - low)
        /\ (r = 0 => part = 0)
    BY <2>1, <2>6, <2>7
  <2> HIDE DEF part
  <2>9. /\ Percentile100(d, p) \in Nat /\ 100 * low <= Percentile100(d, p)
        /\ Percentile100(d, p) <= 100 * high
        /\ r = 0 => Percentile100(d, p) = 100 * low
    BY <2>3, <2>8
  <2> QED
    BY <2>9 DEF low, high
<1>3. k \in 0..(n - 1)
  BY DEF Lies
<1> QED
  BY <1>1, <1>2, <1>3

\* A higher rank does not give a lower percentile.
LEMMA PercentilesRise ==
  ASSUME NEW n \in Nat \ {0}, NEW d \in [1..n -> Nat], \A k \in 1..(n - 1) : d[k] <= d[k + 1],
         NEW p \in 0..100, NEW q \in 0..100, p <= q
  PROVE  Percentile100(d, p) <= Percentile100(d, q)
<1>1. PICK k, r \in Nat : Lies(d, n, p, k, r)
  BY PercentileLies
<1>2. PICK m, s \in Nat : Lies(d, n, q, m, s)
  BY PercentileLies
<1>3. 100 * k + r <= 100 * m + s
  <2>1. \A z \in Nat : z * p <= z * q
    OBVIOUS
  <2>2. n - 1 \in Nat
    OBVIOUS
  <2> QED
    BY <1>1, <1>2, <2>1, <2>2 DEF Lies
<1>4. k \in 0..(n - 1) /\ m \in 0..(n - 1) /\ r \in 0..99 /\ s \in 0..99
  BY <1>1, <1>2 DEF Lies
<1>5. k <= m /\ (k = m => r <= s)
  BY <1>3, <1>4
<1>6. CASE k = m
  <2>1. CASE k = n - 1
    BY <1>1, <1>2, <1>6, <2>1 DEF Lies
  <2>2. CASE k < n - 1
    <3> DEFINE low == d[k + 1]
               high == d[k + 2]
    <3>1. /\ Percentile100(d, p) = 100 * low + r * (high - low)
          /\ Percentile100(d, q) = 100 * low + s * (high - low)
      BY <1>1, <1>2, <1>6, <2>2 DEF Lies
    <3>2. k + 1 \in 1..(n - 1) /\ (k + 1) + 1 = k + 2
      BY <2>2
    <3>3. low \in Nat /\ high \in Nat /\ low <= high
      BY <3>2
    <3> HIDE DEF low, high
    <3>4. \A z \in Nat : r * z <= s * z /\ r * z \in Nat /\ s * z \in Nat
      BY <1>4, <1>5, <1>6
    <3>5. high - low \in Nat
      BY <3>3
    <3>6. r * (high - low) <= s * (high - low) /\ r * (high - low) \in Nat /\ s * (high - low) \in Nat
      BY <3>4, <3>5
    <3> QED
      BY <3>1, <3>3, <3>6
  <2> QED
    BY <1>4, <2>1, <2>2
<1>7. CASE k < m
  <2>1. k + 2 \in 1..n /\ m + 1 \in 1..n /\ k + 2 <= m + 1
    BY <1>4, <1>7
  <2>2. d[k + 2] <= d[m + 1] /\ d[k + 2] \in Nat /\ d[m + 1] \in Nat
    BY <2>1, AscendingIs
  <2>3. Percentile100(d, p) \in Nat /\ Percentile100(d, p) <= 100 * d[k + 2]
    <3>1. k + 2 <= n
      BY <2>1
    <3>2. Between(d, n, p, k, r)
      BY <1>1, PercentileBetween
    <3>3. Percentile100(d, p) \in Nat /\ (k + 2 <= n => Percentile100(d, p) <= 100 * d[k + 2])
      BY <3>2 DEF Between
    <3> QED
      BY <3>1, <3>3
  <2>4. Percentile100(d, q) \in Nat /\ 100 * d[m + 1] <= Percentile100(d, q)
    <3>1. Between(d, n, q, m, s)
      BY <1>2, PercentileBetween
    <3> QED
      BY <3>1 DEF Between
  <2> DEFINE x == Percentile100(d, p)
             y == Percentile100(d, q)
             u == d[k + 2]
             v == d[m + 1]
  <2>5. x \in Nat /\ y \in Nat /\ u \in Nat /\ v \in Nat /\ u <= v /\ x <= 100 * u /\ 100 * v <= y
    BY <2>2, <2>3, <2>4
  <2> HIDE DEF x, y, u, v
  <2>6. x <= y
    BY <2>5
  <2> QED
    BY <2>6 DEF x, y
<1> QED
  BY <1>4, <1>5, <1>6, <1>7

\* No more than their share of the data lies above it and below it.
SharesAreKept(d, n, p) ==
  LET above == {k \in 1..n : 100 * d[k] > Percentile100(d, p)}
      below == {k \in 1..n : 100 * d[k] < Percentile100(d, p)}
  IN /\ above # {} => 100 * (Cardinality(above) - 1) < (100 - p) * (n - 1)
     /\ below # {} => 100 * (Cardinality(below) - 1) < p * (n - 1)

LEMMA PercentileShares ==
  ASSUME NEW n \in Nat \ {0}, NEW d \in [1..n -> Nat], \A k \in 1..(n - 1) : d[k] <= d[k + 1],
         NEW p \in 0..100
  PROVE  SharesAreKept(d, n, p)
<1> DEFINE above == {k \in 1..n : 100 * d[k] > Percentile100(d, p)}
           below == {k \in 1..n : 100 * d[k] < Percentile100(d, p)}
<1>1. PICK k, r \in Nat : Lies(d, n, p, k, r)
  BY PercentileLies
<1>2. k \in 0..(n - 1) /\ r \in 0..99 /\ (n - 1) * p = 100 * k + r
  BY <1>1 DEF Lies
<1>3. /\ Percentile100(d, p) \in Nat /\ 100 * d[k + 1] <= Percentile100(d, p)
      /\ k + 2 <= n => Percentile100(d, p) <= 100 * d[k + 2]
      /\ r = 0 => Percentile100(d, p) = 100 * d[k + 1]
  <2>1. Between(d, n, p, k, r)
    BY <1>1, PercentileBetween
  <2> QED
    BY <2>1 DEF Between
<1> DEFINE v == Percentile100(d, p)
<1>4. \A m \in 1..n : d[m] \in Nat
  OBVIOUS
<1>5. above \subseteq (k + 2)..n
  <2> SUFFICES ASSUME NEW m \in above, m <= k + 1 PROVE FALSE
    OBVIOUS
  <2>1. m \in 1..n /\ k + 1 \in 1..n /\ 100 * d[m] > v
    BY <1>2
  <2>2. d[m] <= d[k + 1]
    BY <2>1, AscendingIs
  <2> HIDE DEF v
  <2> QED
    BY <1>3, <1>4, <2>1, <2>2 DEF v
<1>6. below \subseteq 1..(k + 1)
  <2> SUFFICES ASSUME NEW m \in below, m >= k + 2 PROVE FALSE
    OBVIOUS
  <2>1. m \in 1..n /\ k + 2 \in 1..n /\ 100 * d[m] < v
    BY <1>2
  <2>2. d[k + 2] <= d[m]
    BY <2>1, AscendingIs
  <2> HIDE DEF v
  <2> QED
    BY <1>3, <1>4, <2>1, <2>2 DEF v
<1>7. r = 0 => below \subseteq 1..k
  <2> SUFFICES ASSUME r = 0, NEW m \in below, m = k + 1 PROVE FALSE
    BY <1>6
  <2> QED
    BY <1>3
<1> HIDE DEF above, below, v
<1>8. \A x \in Int, y \in Int : IsFiniteSet(x..y) /\ Cardinality(x..y) = IF x > y THEN 0 ELSE y - x + 1
  BY FS_Interval
<1>9. ASSUME above # {} PROVE 100 * (Cardinality(above) - 1) < (100 - p) * (n - 1)
  <2>1. (k + 2)..n # {}
    BY <1>5, <1>9
  <2>2. k + 2 <= n /\ IsFiniteSet((k + 2)..n) /\ Cardinality((k + 2)..n) = n - k - 1
    <3>1. k + 2 <= n
      BY <2>1
    <3> DEFINE first == k + 2
    <3>2. first \in Int /\ n \in Int /\ ~(first > n) /\ n - first + 1 = n - k - 1
      BY <3>1
    <3> HIDE DEF first
    <3>3. IsFiniteSet(first..n) /\ Cardinality(first..n) = n - first + 1
      BY <1>8, <3>2
    <3> QED
      BY <3>1, <3>2, <3>3 DEF first
  <2>3. Cardinality(above) <= n - k - 1 /\ Cardinality(above) \in Nat
    <3> DEFINE R == (k + 2)..n
    <3>1. above \subseteq R /\ IsFiniteSet(R) /\ Cardinality(R) = n - k - 1
      BY <1>5, <2>2
    <3> HIDE DEF R
    <3>2. IsFiniteSet(above) /\ Cardinality(above) <= Cardinality(R)
      BY <3>1, FS_Subset, Zenon
    <3>3. Cardinality(above) \in Nat
      BY <3>2, FS_CardinalityType, Zenon
    <3> QED
      BY <3>1, <3>2, <3>3
  <2>4. (100 - p) * (n - 1) = 100 * (n - 1) - (n - 1) * p
    OBVIOUS
  <2> DEFINE share == (n - 1) * p
  <2>5. share = 100 * k + r /\ (100 - p) * (n - 1) = 100 * (n - 1) - share
    BY <1>2, <2>4
  <2> HIDE DEF share
  <2>6. 100 * (Cardinality(above) - 1) < 100 * (n - 1) - share
    BY <1>2, <2>3, <2>5
  <2> QED
    BY <2>5, <2>6
<1>10. ASSUME below # {} PROVE 100 * (Cardinality(below) - 1) < p * (n - 1)
  <2>1. Cardinality(1..(k + 1)) = k + 1 /\ Cardinality(1..k) = k /\ IsFiniteSet(1..(k + 1)) /\ IsFiniteSet(1..k)
    <3> DEFINE last == k + 1
    <3>1. last \in Int /\ k \in Int /\ 1 \in Int /\ ~(1 > last) /\ last - 1 + 1 = k + 1
          /\ (IF 1 > k THEN 0 ELSE k - 1 + 1) = k
      OBVIOUS
    <3> HIDE DEF last
    <3>2. IsFiniteSet(1..last) /\ Cardinality(1..last) = last - 1 + 1
      BY <1>8, <3>1
    <3>3. IsFiniteSet(1..k) /\ Cardinality(1..k) = k
      BY <1>8, <3>1
    <3> QED
      BY <3>1, <3>2, <3>3 DEF last
  <2>2. Cardinality(below) \in Nat /\ Cardinality(below) <= k + 1
    <3> DEFINE R == 1..(k + 1)
    <3>1. below \subseteq R /\ IsFiniteSet(R) /\ Cardinality(R) = k + 1
      BY <1>6, <2>1
    <3> HIDE DEF R
    <3>2. IsFiniteSet(below) /\ Cardinality(below) <= Cardinality(R)
      BY <3>1, FS_Subset, Zenon
    <3>3. Cardinality(below) \in Nat
      BY <3>2, FS_CardinalityType, Zenon
    <3> QED
      BY <3>1, <3>2, <3>3
  <2>3. r = 0 => Cardinality(below) <= k
    BY <1>7, <2>1, FS_Subset
  <2>4. p * (n - 1) = (n - 1) * p
    OBVIOUS
  <2> QED
    BY <1>2, <2>2, <2>3, <2>4
<1> QED
  BY <1>9, <1>10, Zenon DEF above, below, SharesAreKept

\* The least and the greatest datum are the percentiles at the ends.
LEMMA PercentileEnds ==
  ASSUME NEW n \in Nat \ {0}, NEW d \in [1..n -> Nat]
  PROVE  Percentile100(d, 0) = 100 * d[1] /\ Percentile100(d, 100) = 100 * d[n]
<1>1. Len(d) = n
  OBVIOUS
<1>2. ((n - 1) * 0) \div 100 = 0 /\ ((n - 1) * 0) % 100 = 0 /\ ((n - 1) * 100) \div 100 = n - 1
  OBVIOUS
<1>3. n # 1 => d[2] - d[1] \in Int /\ d[1] \in Int
  <2>1. n # 1 => 1 \in 1..n /\ 2 \in 1..n
    OBVIOUS
  <2> QED
    BY <2>1
<1>4. Percentile100(d, 0) = 100 * d[1]
  <2>1. CASE n = 1
    BY <1>1, <1>2, <2>1 DEF Percentile100
  <2>2. CASE n # 1
    <3>1. Percentile100(d, 0) = 100 * d[0 + 1] + 0 * (d[0 + 2] - d[0 + 1])
      BY <1>1, <1>2, <2>2 DEF Percentile100
    <3> QED
      BY <1>3, <2>2, <3>1
  <2> QED
    BY <2>1, <2>2
<1>5. Percentile100(d, 100) = 100 * d[n]
  BY <1>1, <1>2 DEF Percentile100
<1> QED
  BY <1>4, <1>5
-----------------------------------------------------------------------------
(* Statistics: the regression and its forecast                             *)

\* The spread n * sxx - sx^2 of data that are not all on one day is positive: a step of the
\* induction, for the data so far and the next one.
LEMMA SpreadGrows ==
  ASSUME NEW m \in Nat \ {0}, NEW sx \in Int, NEW sxx \in Int, NEW x \in Int,
         m * sxx - sx * sx >= 0
  PROVE  /\ (m + 1) * (sxx + x * x) - (sx + x) * (sx + x) >= 0
         /\ m * sxx - sx * sx > 0 \/ m * x # sx
              => (m + 1) * (sxx + x * x) - (sx + x) * (sx + x) > 0
<1> DEFINE old == m * sxx - sx * sx
           new == (m + 1) * (sxx + x * x) - (sx + x) * (sx + x)
           e == m * x - sx
<1>1. m * new = (m + 1) * old + e * e
  OBVIOUS
<1>2. old \in Nat /\ new \in Int /\ e \in Int
  OBVIOUS
<1>3. (old > 0 \/ m * x # sx) => (old > 0 \/ e # 0)
  OBVIOUS
<1> HIDE DEF old, new, e
<1>4. e * e >= 0 /\ (e # 0 => e * e > 0) /\ e * e \in Int
  BY <1>2
<1>5. (m + 1) * old >= 0 /\ (old > 0 => (m + 1) * old > 0) /\ (m + 1) * old \in Int
  BY <1>2
<1>6. m * new >= 0 /\ (old > 0 \/ e # 0 => m * new > 0)
  BY <1>1, <1>4, <1>5
<1>7. (m * new >= 0 => new >= 0) /\ (m * new > 0 => new > 0)
  BY <1>2
<1> QED
  BY <1>3, <1>6, <1>7 DEF old, new

\* The sums over data on the days x.
Sums4(x, d, n, sx, sy, sxy, sxx) ==
  /\ sx[0] = 0 /\ sy[0] = 0 /\ sxy[0] = 0 /\ sxx[0] = 0
  /\ \A k \in 0..n : sx[k] \in Int /\ sy[k] \in Int /\ sxy[k] \in Int /\ sxx[k] \in Int
  /\ \A k \in 1..n : /\ sx[k] = sx[k - 1] + x[k] /\ sy[k] = sy[k - 1] + d[k]
                     /\ sxy[k] = sxy[k - 1] + x[k] * d[k] /\ sxx[k] = sxx[k - 1] + x[k] * x[k]

LEMMA SpreadIsPositive ==
  ASSUME NEW n \in Nat, n > 1, NEW x \in [1..n -> Int], x[1] # x[2],
         NEW d, NEW sx, NEW sy, NEW sxy, NEW sxx, Sums4(x, d, n, sx, sy, sxy, sxx)
  PROVE  n * sxx[n] - sx[n] * sx[n] > 0
<1> DEFINE T == {m \in Nat : m + 2 <= n => (m + 2) * sxx[m + 2] - sx[m + 2] * sx[m + 2] > 0}
<1>1. ASSUME NEW k \in 1..n
      PROVE  /\ x[k] \in Int /\ sx[k] \in Int /\ sxx[k] \in Int /\ sx[k - 1] \in Int /\ sxx[k - 1] \in Int
             /\ sx[k] = sx[k - 1] + x[k] /\ sxx[k] = sxx[k - 1] + x[k] * x[k]
  BY DEF Sums4
<1>2. 0 \in T
  <2>1. sx[1] = x[1] /\ sxx[1] = x[1] * x[1] /\ x[1] \in Int /\ x[2] \in Int
    <3>1. 1 \in 1..n /\ 2 \in 1..n /\ 1 - 1 = 0
      OBVIOUS
    <3>2. sx[0] = 0 /\ sxx[0] = 0
      BY DEF Sums4
    <3>3. x[1] \in Int /\ x[2] \in Int /\ sx[1] = 0 + x[1] /\ sxx[1] = 0 + x[1] * x[1]
      BY <1>1, <3>1, <3>2
    <3> DEFINE u == x[1]
    <3>4. u \in Int
      BY <3>3
    <3> HIDE DEF u
    <3>5. 0 + u = u /\ 0 + u * u = u * u
      BY <3>4
    <3> QED
      BY <3>3, <3>5 DEF u
  <2>2. sx[2] = x[1] + x[2] /\ sxx[2] = x[1] * x[1] + x[2] * x[2]
    <3>1. 2 \in 1..n /\ 2 - 1 = 1
      OBVIOUS
    <3> QED
      BY <1>1, <2>1, <3>1
  <2>3. 2 * (x[1] * x[1] + x[2] * x[2]) - (x[1] + x[2]) * (x[1] + x[2]) > 0
    <3> DEFINE u == x[1]
               v == x[2]
    <3>1. u \in Int /\ v \in Int /\ u # v
      BY <2>1
    <3> HIDE DEF u, v
    <3>2. (1 * (u * u) - u * u >= 0) /\ 1 * v # u /\ u * u \in Int
      BY <3>1
    <3>3. (1 + 1) * (u * u + v * v) - (u + v) * (u + v) > 0
      BY <3>1, <3>2, SpreadGrows
    <3> QED
      BY <3>3 DEF u, v
  <2>4. (0 + 2) * sxx[2] - sx[2] * sx[2] > 0
    BY <2>2, <2>3
  <2> QED
    BY <2>4
<1>3. ASSUME NEW m \in Nat, m \in T PROVE m + 1 \in T
  <2>1. CASE (m + 1) + 2 <= n
    <3> DEFINE k == m + 2
    <3>1. k + 1 = (m + 1) + 2 /\ k \in Nat \ {0} /\ k + 1 \in 1..n /\ k \in 1..n /\ (k + 1) - 1 = k
      BY <2>1
    <3>2. k * sxx[k] - sx[k] * sx[k] > 0
      BY <1>3, <2>1, <3>1
    <3> HIDE DEF k
    <3>3. sx[k + 1] = sx[k] + x[k + 1] /\ sxx[k + 1] = sxx[k] + x[k + 1] * x[k + 1]
          /\ sx[k] \in Int /\ sxx[k] \in Int /\ x[k + 1] \in Int
      BY <1>1, <3>1
    <3>4. k * sxx[k] - sx[k] * sx[k] >= 0
      <4> DEFINE old == k * sxx[k] - sx[k] * sx[k]
      <4>1. old \in Int /\ old > 0
        <5> DEFINE g == sxx[k]
                   e == sx[k]
        <5>1. g \in Int /\ e \in Int /\ k \in Int
          BY <3>1, <3>3
        <5> HIDE DEF g, e
        <5>2. k * g - e * e \in Int
          BY <5>1
        <5> QED
          BY <3>2, <5>2 DEF g, e
      <4> HIDE DEF old
      <4>2. old >= 0
        BY <4>1
      <4> QED
        BY <4>2 DEF old
    <3>5. (k + 1) * (sxx[k] + x[k + 1] * x[k + 1]) - (sx[k] + x[k + 1]) * (sx[k] + x[k + 1]) > 0
      BY <3>1, <3>2, <3>3, <3>4, SpreadGrows
    <3>6. (k + 1) * sxx[k + 1] - sx[k + 1] * sx[k + 1] > 0
      BY <3>3, <3>5
    <3> QED
      BY <3>1, <3>6
  <2>2. CASE ~((m + 1) + 2 <= n)
    BY <2>2
  <2> QED
    BY <2>1, <2>2
<1> HIDE DEF T
<1>4. Nat \subseteq T
  BY <1>2, <1>3, NumbersByInduction
<1>5. n - 2 \in Nat /\ (n - 2) + 2 = n
  OBVIOUS
<1>6. n - 2 \in T
  BY <1>4, <1>5
<1>7. (n - 2) + 2 <= n => ((n - 2) + 2) * sxx[(n - 2) + 2] - sx[(n - 2) + 2] * sx[(n - 2) + 2] > 0
  BY <1>6 DEF T
<1> QED
  BY <1>5, <1>7

\* Data on a line, N times: its height at the first day and its rise a day.
LEMMA LineIs ==
  ASSUME NEW n \in Nat, n > 1, NEW d \in [1..n -> Int], NEW N \in Int, NEW D \in Int,
         \A k \in 1..(n - 1) : (d[k + 1] - d[k]) * N = D,
         NEW k \in 1..n
  PROVE  N * d[k] = N * d[1] + D * (k - 1)
<1> DEFINE T == {m \in Nat : m + 1 <= n => N * d[m + 1] = N * d[1] + D * m}
<1>1. \A m \in 1..n : d[m] \in Int
  OBVIOUS
<1>2. 0 \in T
  <2>1. d[1] \in Int
    BY <1>1
  <2>2. N * d[0 + 1] = N * d[1] + D * 0
    BY <2>1
  <2> QED
    BY <2>2
<1>3. ASSUME NEW m \in Nat, m \in T PROVE m + 1 \in T
  <2>1. CASE (m + 1) + 1 <= n
    <3> DEFINE u == d[m + 1]
               v == d[(m + 1) + 1]
               w == d[1]
    <3>1. m + 1 \in 1..(n - 1) /\ m + 1 \in 1..n /\ (m + 1) + 1 \in 1..n /\ 1 \in 1..n
      BY <2>1
    <3>2. u \in Int /\ v \in Int /\ w \in Int /\ N * u = N * w + D * m /\ (v - u) * N = D
      BY <1>1, <1>3, <3>1
    <3> HIDE DEF u, v, w
    <3>3. N * v = N * w + D * (m + 1)
      <4>1. (v - u) * N = N * v - N * u /\ D * (m + 1) = D * m + D
        BY <3>2
      <4>2. N * v \in Int /\ N * u \in Int /\ N * w \in Int /\ D * m \in Int
        BY <3>2
      <4> QED
        BY <3>2, <4>1, <4>2
    <3> QED
      BY <3>3 DEF v, w
  <2>2. CASE ~((m + 1) + 1 <= n)
    BY <2>2
  <2> QED
    BY <2>1, <2>2
<1> HIDE DEF T
<1>4. Nat \subseteq T
  BY <1>2, <1>3, NumbersByInduction
<1>5. k - 1 \in Nat /\ (k - 1) + 1 = k /\ k <= n
  OBVIOUS
<1>6. k - 1 \in T
  BY <1>4, <1>5
<1>7. (k - 1) + 1 <= n => N * d[(k - 1) + 1] = N * d[1] + D * (k - 1)
  BY <1>6 DEF T
<1> QED
  BY <1>5, <1>7

\* Where such data are, and their sums.
Along(x, d, n, N, D, c) ==
  /\ n \in Nat /\ x \in [1..n -> Int] /\ d \in [1..n -> Int] /\ N \in Int /\ D \in Int /\ c \in Int
  /\ \A k \in 1..n : N * d[k] = c + D * x[k]
EndSums(n, N, D, c, sx, sy, sxy, sxx) == N * sy = n * c + D * sx /\ N * sxy = c * sx + D * sxx

\* The sums of such data follow from those of the days.
LEMMA LineSums ==
  ASSUME NEW n, NEW x, NEW d, NEW N, NEW D, NEW c, Along(x, d, n, N, D, c),
         NEW sx, NEW sy, NEW sxy, NEW sxx, Sums4(x, d, n, sx, sy, sxy, sxx)
  PROVE  EndSums(n, N, D, c, sx[n], sy[n], sxy[n], sxx[n])
<1> SUFFICES ASSUME n \in Nat, x \in [1..n -> Int], d \in [1..n -> Int], N \in Int, D \in Int, c \in Int,
                    \A k \in 1..n : N * d[k] = c + D * x[k]
             PROVE  EndSums(n, N, D, c, sx[n], sy[n], sxy[n], sxx[n])
  BY DEF Along
<1> DEFINE T == {m \in Nat : m <= n => /\ N * sy[m] = m * c + D * sx[m]
                                       /\ N * sxy[m] = c * sx[m] + D * sxx[m]}
<1>1. 0 \in T
  <2>1. sx[0] = 0 /\ sy[0] = 0 /\ sxy[0] = 0 /\ sxx[0] = 0
    BY DEF Sums4
  <2>2. N * 0 = 0 * c + D * 0 /\ N * 0 = c * 0 + D * 0
    OBVIOUS
  <2> QED
    BY <2>1, <2>2
<1>2. ASSUME NEW m \in Nat, m \in T PROVE m + 1 \in T
  <2>1. CASE m + 1 <= n
    <3> DEFINE k == m + 1
    <3>1. k \in 1..n /\ k - 1 = m /\ m \in 0..n
      BY <2>1
    <3> HIDE DEF k
    <3>2. /\ sx[m] \in Int /\ sy[m] \in Int /\ sxy[m] \in Int /\ sxx[m] \in Int
          /\ x[k] \in Int /\ d[k] \in Int
          /\ sx[k] = sx[m] + x[k] /\ sy[k] = sy[m] + d[k]
          /\ sxy[k] = sxy[m] + x[k] * d[k] /\ sxx[k] = sxx[m] + x[k] * x[k]
      BY <3>1 DEF Sums4
    <3>3. /\ N * sy[m] = m * c + D * sx[m] /\ N * sxy[m] = c * sx[m] + D * sxx[m]
          /\ N * d[k] = c + D * x[k]
      BY <1>2, <2>1, <3>1
    <3>4. /\ N * (sy[m] + d[k]) = (m + 1) * c + D * (sx[m] + x[k])
          /\ N * (sxy[m] + x[k] * d[k]) = c * (sx[m] + x[k]) + D * (sxx[m] + x[k] * x[k])
      <4> DEFINE p == sx[m]
                 q == sy[m]
                 r == sxy[m]
                 s == sxx[m]
                 u == x[k]
                 v == d[k]
      <4>1. p \in Int /\ q \in Int /\ r \in Int /\ s \in Int /\ u \in Int /\ v \in Int
        BY <3>2
      <4>2. N * q = m * c + D * p /\ N * r = c * p + D * s /\ N * v = c + D * u
        BY <3>3
      <4> HIDE DEF p, q, r, s, u, v
      <4>3. /\ N * (q + v) = N * q + N * v /\ N * (r + u * v) = N * r + u * (N * v)
            /\ (m * c + D * p) + (c + D * u) = (m + 1) * c + D * (p + u)
            /\ (c * p + D * s) + u * (c + D * u) = c * (p + u) + D * (s + u * u)
        BY <4>1
      <4>4. /\ N * (q + v) = (m + 1) * c + D * (p + u)
            /\ N * (r + u * v) = c * (p + u) + D * (s + u * u)
        BY <4>2, <4>3, Zenon
      <4> QED
        BY <4>4 DEF p, q, r, s, u, v
    <3>5. N * sy[k] = (m + 1) * c + D * sx[k] /\ N * sxy[k] = c * sx[k] + D * sxx[k]
      BY <3>2, <3>4
    <3> QED
      BY <3>5 DEF k
  <2>2. CASE ~(m + 1 <= n)
    BY <2>2
  <2> QED
    BY <2>1, <2>2
<1> HIDE DEF T
<1>3. n \in T
  BY <1>1, <1>2, NumbersByInduction
<1>4. N * sy[n] = n * c + D * sx[n] /\ N * sxy[n] = c * sx[n] + D * sxx[n]
  BY <1>3 DEF T
<1> QED
  BY <1>4, Zenon DEF EndSums

\* The algebra of the forecast of such data.
LineTotals(n, N, D, w, sx, sy, sxy, sxx) ==
  N * sy = n * (N * w) + D * sx /\ N * sxy = (N * w) * sx + D * sxx

LineSlope(n, N, D, sx, sy, sxy, sxx) == N * (n * sxy - sx * sy) = D * (n * sxx - sx * sx)

LEMMA LineSlopes ==
  ASSUME NEW n \in Int, NEW N \in Int, NEW D \in Int, NEW w \in Int,
         NEW sx \in Int, NEW sy \in Int, NEW sxy \in Int, NEW sxx \in Int,
         LineTotals(n, N, D, w, sx, sy, sxy, sxx)
  PROVE  LineSlope(n, N, D, sx, sy, sxy, sxx)
<1>1. N * (n * sxy - sx * sy) = n * (N * sxy) - sx * (N * sy)
  OBVIOUS
<1>2. n * ((N * w) * sx + D * sxx) - sx * (n * (N * w) + D * sx) = D * (n * sxx - sx * sx)
  OBVIOUS
<1>3. N * sy = n * (N * w) + D * sx /\ N * sxy = (N * w) * sx + D * sxx
  BY DEF LineTotals
<1> QED
  BY <1>1, <1>2, <1>3, Zenon DEF LineSlope

\* The forecast made from such sums.
Forecasts(n, N, w, z, ahead, sx, sy, sxy, sxx) ==
  (n * (n * sxy - sx * sy) * (N + ahead) + (sy * (n * sxx - sx * sx) - sx * (n * sxy - sx * sy))) * N
    = n * (n * sxx - sx * sx) * (z * N + (z - w) * ahead)

LEMMA LineForecast ==
  ASSUME NEW n \in Int, NEW N \in Int, NEW w \in Int, NEW z \in Int,
         NEW sx \in Int, NEW sy \in Int, NEW sxy \in Int, NEW sxx \in Int, NEW ahead \in Int,
         LineTotals(n, N, z - w, w, sx, sy, sxy, sxx)
  PROVE  Forecasts(n, N, w, z, ahead, sx, sy, sxy, sxx)
<1> DEFINE D == z - w
           E == n * sxx - sx * sx
           B == n * sxy - sx * sy
           t == N + ahead
<1>1. N * B = D * E
  <2>1. D \in Int
    OBVIOUS
  <2> HIDE DEF D
  <2>2. LineTotals(n, N, D, w, sx, sy, sxy, sxx)
    BY DEF D
  <2>3. LineSlope(n, N, D, sx, sy, sxy, sxx)
    BY <2>1, <2>2, LineSlopes
  <2> QED
    BY <2>3, Zenon DEF LineSlope
<1>2. E \in Int /\ B \in Int /\ t \in Int /\ D \in Int /\ t = N + ahead /\ D = z - w
  OBVIOUS
<1>3. N * sy = n * (N * w) + D * sx
  BY DEF LineTotals
<1> HIDE DEF D, E, B, t
<1>4. (n * B * t + (sy * E - sx * B)) * N = n * (N * B) * t + ((N * sy) * E - sx * (N * B))
  <2>1. (n * B * t) * N = n * (N * B) * t
    BY <1>2
  <2>2. (sy * E) * N = (N * sy) * E /\ (sx * B) * N = sx * (N * B)
    BY <1>2
  <2>3. \A x, y, v \in Int : (x + (y - v)) * N = x * N + (y * N - v * N)
    OBVIOUS
  <2>4. n * B * t \in Int /\ sy * E \in Int /\ sx * B \in Int
    BY <1>2
  <2> QED
    BY <2>1, <2>2, <2>3, <2>4
<1>5. n * (D * E) * t + ((n * (N * w) + D * sx) * E - sx * (D * E)) = n * E * (D * t + N * w)
  BY <1>2
<1>6. D * t + N * w = z * N + D * ahead
  <2>1. D * (N + ahead) = D * N + D * ahead
    BY <1>2
  <2>2. D * N + N * w = z * N
    BY <1>2
  <2>3. D * N \in Int /\ D * ahead \in Int /\ N * w \in Int /\ z * N \in Int
    BY <1>2
  <2> QED
    BY <1>2, <2>1, <2>2, <2>3
<1>7. (n * B * t + (sy * E - sx * B)) * N = n * E * (z * N + D * ahead)
  BY <1>1, <1>3, <1>4, <1>5, <1>6, Zenon
<1> QED
  BY <1>7, Zenon DEF D, E, B, t, Forecasts
-----------------------------------------------------------------------------
(* Statistics: what every call agrees with                                 *)

\* A sample is data on days counted from the first, one or two days before the second.
StatisticsInv ==
  sample = <<>> \/ \E n \in 1..Points, gap \in 1..2 :
                     /\ sample \in [1..n -> Level]
                     /\ days = [k \in 1..n |-> IF k = 1 THEN 0 ELSE k + gap - 2]

LEMMA SumsAreTotals ==
  ASSUME NEW n \in Nat, NEW x \in [1..n -> Int], NEW d \in [1..n -> Int]
  PROVE  Sums4(x, d, n, Totals(x, n), Totals(d, n), Totals([k \in 1..n |-> x[k] * d[k]], n),
               Totals([k \in 1..n |-> x[k] * x[k]], n))
<1> DEFINE xd == [k \in 1..n |-> x[k] * d[k]]
           xx == [k \in 1..n |-> x[k] * x[k]]
<1>1. \A k \in 1..n : /\ x[k] \in Int /\ d[k] \in Int
                      /\ xd[k] = x[k] * d[k] /\ xx[k] = x[k] * x[k] /\ xd[k] \in Int /\ xx[k] \in Int
  <2>1. \A u, v \in Int : u * v \in Int
    OBVIOUS
  <2>2. \A k \in 1..n : x[k] \in Int /\ d[k] \in Int
    OBVIOUS
  <2> QED
    BY <2>1, <2>2
<1> HIDE DEF xd, xx
<1>2. /\ Totals(x, n)[0] = 0 /\ \A k \in 0..n : Totals(x, n)[k] \in Int
      /\ \A k \in 1..n : Totals(x, n)[k] = Totals(x, n)[k - 1] + x[k]
  BY <1>1, TotalsAre
<1>3. /\ Totals(d, n)[0] = 0 /\ \A k \in 0..n : Totals(d, n)[k] \in Int
      /\ \A k \in 1..n : Totals(d, n)[k] = Totals(d, n)[k - 1] + d[k]
  BY <1>1, TotalsAre
<1>4. /\ Totals(xd, n)[0] = 0 /\ \A k \in 0..n : Totals(xd, n)[k] \in Int
      /\ \A k \in 1..n : Totals(xd, n)[k] = Totals(xd, n)[k - 1] + x[k] * d[k]
  BY <1>1, TotalsAre
<1>5. /\ Totals(xx, n)[0] = 0 /\ \A k \in 0..n : Totals(xx, n)[k] \in Int
      /\ \A k \in 1..n : Totals(xx, n)[k] = Totals(xx, n)[k - 1] + x[k] * x[k]
  BY <1>1, TotalsAre
<1>6. Sums4(x, d, n, Totals(x, n), Totals(d, n), Totals(xd, n), Totals(xx, n))
  BY <1>2, <1>3, <1>4, <1>5 DEF Sums4
<1> QED
  BY <1>6 DEF xd, xx

\* The sums the code computes, on some data d of the days x.
FitSums(x, d, n, sx, sy, sxy, sxx) ==
  /\ sx = Totals(x, n)[n] /\ sy = Totals(d, n)[n]
  /\ sxy = Totals([k \in 1..n |-> x[k] * d[k]], n)[n] /\ sxx = Totals([k \in 1..n |-> x[k] * x[k]], n)[n]

\* What Train makes of these sums.
Fitted(x, d, n, sx, sy, sxy, sxx) ==
  /\ sx \in Int /\ sy \in Int /\ sxy \in Int /\ sxx \in Int
  /\ Train(x, d).det = n * (n * sxx - sx * sx)
  /\ Train(x, d).slope = n * (n * sxy - sx * sy)
  /\ Train(x, d).intercept = sy * (n * sxx - sx * sx) - sx * (n * sxy - sx * sy)

LEMMA TrainIs ==
  ASSUME NEW n \in Nat, NEW x \in [1..n -> Int], NEW d \in [1..n -> Int],
         NEW sx, NEW sy, NEW sxy, NEW sxx, FitSums(x, d, n, sx, sy, sxy, sxx)
  PROVE  Fitted(x, d, n, sx, sy, sxy, sxx)
<1>1. Len(d) = n
  OBVIOUS
<1>2. /\ sx \in Int /\ sy \in Int /\ sxy \in Int /\ sxx \in Int
  <2>1. n \in 0..n
    OBVIOUS
  <2> QED
    BY <2>1, SumsAreTotals DEF Sums4, FitSums
<1>3. Train(x, d) = [det |-> n * (n * sxx - sx * sx), slope |-> n * (n * sxy - sx * sy),
                     intercept |-> sy * (n * sxx - sx * sx) - sx * (n * sxy - sx * sy)]
  BY <1>1, Zenon DEF Train, Sum, FitSums
<1> QED
  BY <1>2, <1>3 DEF Fitted

\* Data that rise by D / N a day.
Rises(d, n, N, D) ==
  /\ n \in Nat /\ n > 1 /\ d \in [1..n -> Int] /\ N \in Int /\ D \in Int
  /\ \A k \in 1..(n - 1) : (d[k + 1] - d[k]) * N = D

LEMMA RisesAlong ==
  ASSUME NEW n, NEW x, NEW d, NEW N, NEW D, NEW c, Rises(d, n, N, D), c = N * d[1],
         x \in [1..n -> Int], \A k \in 1..n : x[k] = k - 1
  PROVE  Along(x, d, n, N, D, c)
<1>1. /\ n \in Nat /\ n > 1 /\ d \in [1..n -> Int] /\ N \in Int /\ D \in Int /\ d[1] \in Int
      /\ \A k \in 1..(n - 1) : (d[k + 1] - d[k]) * N = D
  BY DEF Rises
<1>2. ASSUME NEW k \in 1..n PROVE N * d[k] = c + D * x[k]
  <2>1. N * d[k] = N * d[1] + D * (k - 1)
    BY <1>1, LineIs
  <2> QED
    BY <2>1
<1>3. c \in Int
  <2>1. \A u, v \in Int : u * v \in Int
    OBVIOUS
  <2> QED
    BY <1>1, <2>1
<1> QED
  BY <1>1, <1>2, <1>3 DEF Along

LEMMA FitIsPossible ==
  ASSUME NEW n \in Nat, n > 1, NEW x \in [1..n -> Int], NEW d \in [1..n -> Int], x[1] # x[2]
  PROVE  Train(x, d).det > 0
<1> DEFINE sx == Totals(x, n)
           sy == Totals(d, n)
           sxy == Totals([k \in 1..n |-> x[k] * d[k]], n)
           sxx == Totals([k \in 1..n |-> x[k] * x[k]], n)
<1>1. Sums4(x, d, n, sx, sy, sxy, sxx) /\ FitSums(x, d, n, sx[n], sy[n], sxy[n], sxx[n])
  BY SumsAreTotals DEF FitSums
<1> HIDE DEF sx, sy, sxy, sxx
<1>2. n * sxx[n] - sx[n] * sx[n] > 0
  BY <1>1, SpreadIsPositive
<1>3. sx[n] \in Int /\ sxx[n] \in Int /\ Train(x, d).det = n * (n * sxx[n] - sx[n] * sx[n])
  <2>1. Fitted(x, d, n, sx[n], sy[n], sxy[n], sxx[n])
    BY <1>1, TrainIs
  <2> QED
    BY <2>1, Zenon DEF Fitted
<1> DEFINE spread == n * sxx[n] - sx[n] * sx[n]
<1>4. spread \in Int /\ spread > 0 /\ Train(x, d).det = n * spread
  BY <1>2, <1>3
<1> HIDE DEF spread
<1> QED
  BY <1>4

\* A line through consecutive days is forecast along it.
ForecastAlong(x, d, n, ahead) ==
  Predicted(x, d, ahead) * (n - 1) = Train(x, d).det * (d[n] * (n - 1) + (d[n] - d[1]) * ahead)

LEMMA LineIsForecast ==
  ASSUME NEW n \in Nat, n > 1, NEW x \in [1..n -> Int], NEW d \in [1..n -> Int],
         \A k \in 1..n : x[k] = k - 1, OnLine(x, d), NEW ahead \in Nat
  PROVE  ForecastAlong(x, d, n, ahead)
<1> DEFINE N == n - 1
           z == d[n]
           w == d[1]
           sx == Totals(x, n)
           sy == Totals(d, n)
           sxy == Totals([k \in 1..n |-> x[k] * d[k]], n)
           sxx == Totals([k \in 1..n |-> x[k] * x[k]], n)
<1>1. Sums4(x, d, n, sx, sy, sxy, sxx) /\ FitSums(x, d, n, sx[n], sy[n], sxy[n], sxx[n])
  BY SumsAreTotals DEF FitSums
<1> HIDE DEF sx, sy, sxy, sxx
<1>2. Len(d) = n /\ N \in Int /\ z \in Int /\ w \in Int /\ z - w \in Int
  OBVIOUS
<1>3. ASSUME NEW k \in 1..(n - 1) PROVE (d[k + 1] - d[k]) * N = z - w
  <2>1. (d[k + 1] - d[k]) * (x[n] - x[1]) = (d[n] - d[1]) * (x[k + 1] - x[k])
    BY <1>2 DEF OnLine
  <2>2. x[n] - x[1] = N /\ x[k + 1] - x[k] = 1
    <3>1. n \in 1..n /\ 1 \in 1..n /\ k \in 1..n /\ k + 1 \in 1..n
      OBVIOUS
    <3>2. x[n] = n - 1 /\ x[1] = 1 - 1 /\ x[k] = k - 1 /\ x[k + 1] = (k + 1) - 1
      BY <3>1
    <3> QED
      BY <3>2
  <2> QED
    BY <1>2, <2>1, <2>2
<1>4. Along(x, d, n, N, z - w, N * w)
  <2> DEFINE D == z - w
             c == N * w
  <2>1. Rises(d, n, N, D)
    BY <1>2, <1>3 DEF Rises
  <2>2. c = N * d[1]
    OBVIOUS
  <2> HIDE DEF D, c, z, w, N
  <2>3. Along(x, d, n, N, D, c)
    BY <2>1, <2>2, RisesAlong
  <2> QED
    BY <2>3 DEF D, c
<1>5. LineTotals(n, N, z - w, w, sx[n], sy[n], sxy[n], sxx[n])
  <2> DEFINE D == z - w
             c == N * w
  <2>1. Along(x, d, n, N, D, c)
    BY <1>4
  <2> HIDE DEF D, c
  <2>2. EndSums(n, N, D, c, sx[n], sy[n], sxy[n], sxx[n])
    BY <1>1, <2>1, LineSums
  <2> QED
    BY <2>2, Zenon DEF EndSums, LineTotals, c, D
<1>6. Fitted(x, d, n, sx[n], sy[n], sxy[n], sxx[n])
  BY <1>1, TrainIs
<1>7. Predicted(x, d, ahead) = Train(x, d).slope * (N + ahead) + Train(x, d).intercept
  BY <1>2, Zenon DEF Predicted
<1> DEFINE p == sx[n]
           q == sy[n]
           r == sxy[n]
           s == sxx[n]
<1>8. LineTotals(n, N, z - w, w, p, q, r, s) /\ p \in Int /\ q \in Int /\ r \in Int /\ s \in Int
  BY <1>5, <1>6, Zenon DEF Fitted
<1>9. /\ Train(x, d).det = n * (n * s - p * p) /\ Train(x, d).slope = n * (n * r - p * q)
      /\ Train(x, d).intercept = q * (n * s - p * p) - p * (n * r - p * q)
  BY <1>6, Zenon DEF Fitted
<1> HIDE DEF p, q, r, s, N, z, w
<1>10. (n * (n * r - p * q) * (N + ahead) + (q * (n * s - p * p) - p * (n * r - p * q))) * N
         = n * (n * s - p * p) * (z * N + (z - w) * ahead)
  <2>1. n \in Int /\ ahead \in Int
    OBVIOUS
  <2>2. Forecasts(n, N, w, z, ahead, p, q, r, s)
    BY <1>2, <1>8, <2>1, LineForecast
  <2> QED
    BY <2>2 DEF Forecasts
<1>11. Predicted(x, d, ahead) * N = Train(x, d).det * (z * N + (z - w) * ahead)
  BY <1>7, <1>9, <1>10, Zenon
<1> QED
  BY <1>11 DEF N, z, w, ForecastAlong

\* The total of equal data.
LEMMA ConstantTotal ==
  ASSUME NEW n \in Nat, NEW d, NEW c \in Int, \A k \in 1..n : d[k] = c
  PROVE  Sum(d, n) = n * c
<1>1. /\ Totals(d, n)[0] = 0 /\ \A k \in 0..n : Totals(d, n)[k] \in Int
      /\ \A k \in 1..n : Totals(d, n)[k] = Totals(d, n)[k - 1] + d[k]
  BY TotalsAre
<1> DEFINE t == Totals(d, n)
           T == {m \in Nat : m <= n => t[m] = m * c}
<1> HIDE DEF t
<1>2. 0 \in T
  BY <1>1 DEF t
<1>3. ASSUME NEW m \in Nat, m \in T PROVE m + 1 \in T
  <2>1. CASE m + 1 <= n
    <3>1. m + 1 \in 1..n /\ (m + 1) - 1 = m
      BY <2>1
    <3>2. t[m + 1] = m * c + c
      BY <1>1, <1>3, <2>1, <3>1 DEF t
    <3>3. m * c + c = (m + 1) * c
      OBVIOUS
    <3> QED
      BY <3>2, <3>3
  <2>2. CASE ~(m + 1 <= n)
    BY <2>2
  <2> QED
    BY <2>1, <2>2
<1> HIDE DEF T
<1>4. n \in T
  BY <1>2, <1>3, NumbersByInduction
<1> QED
  BY <1>4 DEF T, t, Sum

\* Equal data have no change of trend.
LEMMA ConstantHasNoTrend ==
  ASSUME NEW n \in Nat, NEW d \in [1..n -> Nat], \A k \in 1..n : d[k] = d[1]
  PROVE  ~TrendChanges(d, 0)
<1> DEFINE recent == IF n \div 3 < 2 THEN 2 ELSE n \div 3
           old == n - recent
           sumOld == Sum(d, old)
           sumNew == Sum([k \in 1..recent |-> d[old + k]], recent)
           c == d[1]
<1>1. Len(d) = n
  OBVIOUS
<1> SUFFICES ASSUME n >= 3
             PROVE  sumNew * old - sumOld * recent = 0 /\ 0 * sumOld * recent = 0
  BY <1>1 DEF TrendChanges
<1>2. recent \in 1..n /\ old \in 0..n /\ old + recent = n /\ c \in Int
  OBVIOUS
<1> HIDE DEF recent
<1>3. recent \in Nat /\ old \in Nat
  BY <1>2
<1>4. \A k \in 1..old : k \in 1..n
  BY <1>2
<1>5. sumOld = old * c
  <2> HIDE DEF old
  <2> QED
    BY <1>2, <1>3, <1>4, ConstantTotal
<1>6. \A k \in 1..recent : old + k \in 1..n
  BY <1>2
<1>7. sumNew = recent * c
  <2> DEFINE e == [k \in 1..recent |-> d[old + k]]
  <2>1. \A k \in 1..recent : e[k] = c
    BY <1>6
  <2> HIDE DEF e, old, c
  <2>2. Sum(e, recent) = recent * c
    BY <1>2, <1>3, <2>1, ConstantTotal
  <2> QED
    BY <2>2 DEF e
<1> HIDE DEF old, sumOld, sumNew, c
<1>8. (recent * c) * old - (old * c) * recent = 0 /\ 0 * (old * c) * recent = 0
  BY <1>2, <1>3
<1> QED
  BY <1>5, <1>7, <1>8

LEMMA StatisticsFollow == StatisticsInv => StatisticsAgree
<1> SUFFICES ASSUME StatisticsInv PROVE StatisticsAgree
  OBVIOUS
<1>1. CASE sample = <<>>
  <2>1. Len(sample) = 0
    BY <1>1, EmptySeq
  <2>2. ~TrendChanges(sample, 0)
    BY <2>1 DEF TrendChanges
  <2> QED
    BY <2>1, <2>2 DEF StatisticsAgree
<1>2. CASE sample # <<>>
  <2>1. PICK n \in 1..Points, gap \in 1..2 :
          /\ sample \in [1..n -> Level]
          /\ days = [k \in 1..n |-> IF k = 1 THEN 0 ELSE k + gap - 2]
    BY <1>2 DEF StatisticsInv
  <2>2. /\ n \in Nat \ {0} /\ sample \in [1..n -> Nat] /\ sample \in [1..n -> Int] /\ days \in [1..n -> Int]
        /\ Len(sample) = n
    <3>1. n \in Nat \ {0}
      BY StatisticsAssumption
    <3>2. days \in [1..n -> Int]
      <4>1. \A k \in 1..n : (IF k = 1 THEN 0 ELSE k + gap - 2) \in Int
        BY <3>1
      <4> QED
        BY <2>1, <4>1
    <3>3. sample \in [1..n -> Nat] /\ sample \in [1..n -> Int]
      <4>1. \A v \in Level : v \in Nat /\ v \in Int
        BY StatisticsAssumption
      <4>2. sample \in [1..n -> Level]
        BY <2>1
      <4>3. sample = [k \in 1..n |-> sample[k]] /\ \A k \in 1..n : sample[k] \in Level
        BY <4>2, Zenon
      <4>4. \A k \in 1..n : sample[k] \in Nat /\ sample[k] \in Int
        BY <4>1, <4>3, Zenon
      <4> QED
        BY <4>3, <4>4, Zenon
    <3>4. Len(sample) = n
      BY <3>1, <3>3
    <3> QED
      BY <3>1, <3>2, <3>3, <3>4
  <2>3. ASSUME Ascending(sample)
        PROVE  /\ Percentile100(sample, 0) = 100 * sample[1]
               /\ Percentile100(sample, 100) = 100 * sample[n]
               /\ \A p, q \in {0, 50, 75, 90, 95, 99, 100} :
                    p <= q => Percentile100(sample, p) <= Percentile100(sample, q)
               /\ \A p \in {50, 75, 90, 95, 99} :
                    LET above == {k \in 1..n : 100 * sample[k] > Percentile100(sample, p)}
                        below == {k \in 1..n : 100 * sample[k] < Percentile100(sample, p)}
                    IN /\ above # {} => 100 * (Cardinality(above) - 1) < (100 - p) * (n - 1)
                       /\ below # {} => 100 * (Cardinality(below) - 1) < p * (n - 1)
    <3>1. \A k \in 1..(n - 1) : sample[k] <= sample[k + 1]
      BY <2>2, <2>3 DEF Ascending
    <3>2. Percentile100(sample, 0) = 100 * sample[1] /\ Percentile100(sample, 100) = 100 * sample[n]
      BY <2>2, PercentileEnds
    <3>4. ASSUME NEW p \in {0, 50, 75, 90, 95, 99, 100}, NEW q \in {0, 50, 75, 90, 95, 99, 100}, p <= q
          PROVE  Percentile100(sample, p) <= Percentile100(sample, q)
      <4>1. p \in 0..100 /\ q \in 0..100
        OBVIOUS
      <4> QED
        BY <2>2, <3>1, <3>4, <4>1, PercentilesRise
    <3>5. ASSUME NEW p \in {50, 75, 90, 95, 99} PROVE SharesAreKept(sample, n, p)
      <4>1. p \in 0..100
        OBVIOUS
      <4> QED
        BY <2>2, <3>1, <4>1, PercentileShares
    <3> QED
      BY <3>2, <3>4, <3>5, Zenon DEF SharesAreKept
  <2>4. ASSUME n > 1 PROVE Train(days, sample).det > 0
    <3>1. days[1] # days[2]
      BY <2>1, <2>4
    <3> QED
      BY <2>2, <2>4, <3>1, FitIsPossible
  <2>5. ASSUME n > 1, days[n] = n - 1, OnLine(days, sample), NEW ahead \in 1..3
        PROVE  Predicted(days, sample, ahead) * (n - 1)
                 = Train(days, sample).det * (sample[n] * (n - 1) + (sample[n] - sample[1]) * ahead)
    <3>1. \A k \in 1..n : days[k] = k - 1
      <4>1. gap = 1
        BY <2>1, <2>5
      <4> QED
        BY <2>1, <4>1
    <3>2. ahead \in Nat
      OBVIOUS
    <3>3. ForecastAlong(days, sample, n, ahead)
      BY <2>2, <2>5, <3>1, <3>2, LineIsForecast
    <3> QED
      BY <3>3, Zenon DEF ForecastAlong
  <2>6. ASSUME \A k \in 1..n : sample[k] = sample[1] PROVE ~TrendChanges(sample, 0)
    BY <2>2, <2>6, ConstantHasNoTrend
  <2> QED
    BY <2>2, <2>3, <2>4, <2>5, <2>6 DEF StatisticsAgree
<1> QED
  BY <1>1, <1>2

\* For samples of any length, levels of any size: percentiles rise and leave their share on
\* each side, data of two days can be fitted, lines are forecast along themselves.
THEOREM StatisticsAlwaysAgree == StatisticsSpec => []StatisticsAgree
<1>1. StatisticsInit => StatisticsInv
  BY DEF StatisticsInit, StatisticsInv
<1>2. StatisticsInv /\ [Sampled]_statisticsVars => StatisticsInv'
  BY DEF StatisticsInv, Sampled, statisticsVars
<1> QED
  BY <1>1, <1>2, StatisticsFollow, PTL DEF StatisticsSpec
-----------------------------------------------------------------------------
(* Analytics: the records                                                  *)

TableNames == {Tables[k] : k \in 1..4}

RecordsTypeOK ==
  /\ rows \in [TableNames -> [RecordId -> Nat]]
  /\ saver \in [Saver -> [id : RecordId \cup {None}, done : Nat]]

\* One saver at most has begun to write, and its record is not there yet.
OneWriter ==
  \A s \in Saver : saver[s].done > 0 =>
    /\ saver[s].id \in RecordId /\ rows["records"][saver[s].id] = 0
    /\ \A t \in Saver : t # s => saver[t].done = 0

RecordsInv == RecordsTypeOK /\ OneWriter /\ RecordsAreWhole

LEMMA TablesAre ==
  /\ TableNames = {"records", "sentiment", "budget", "frustration"}
  /\ \A r \in RecordId, t \in TableNames :
       (\E k \in 1..Inserts(r) : Tables[k] = t) <=> (t = "frustration" => r \in Frustrated)
<1>1. Tables[1] = "records" /\ Tables[2] = "sentiment" /\ Tables[3] = "budget" /\ Tables[4] = "frustration"
  BY DEF Tables
<1>2. 1..4 = {1, 2, 3, 4} /\ 1..3 = {1, 2, 3}
  OBVIOUS
<1>3. TableNames = {"records", "sentiment", "budget", "frustration"}
  BY <1>1, <1>2 DEF TableNames
<1> QED
  BY <1>1, <1>2, <1>3 DEF Inserts

LEMMA RecordsInitInv == AnalyticsInit => RecordsInv
<1> SUFFICES ASSUME AnalyticsInit PROVE RecordsInv
  OBVIOUS
<1>1. rows = [t \in TableNames |-> [r \in RecordId |-> 0]] /\ saver = [s \in Saver |-> NotSaving]
  BY DEF AnalyticsInit, TableNames
<1>2. RecordsTypeOK /\ OneWriter
  BY <1>1 DEF RecordsTypeOK, OneWriter, NotSaving
<1>3. RecordsAreWhole
  BY <1>1, TablesAre DEF RecordsAreWhole
<1> QED
  BY <1>2, <1>3 DEF RecordsInv

\* Nothing is seen of a transaction before it commits.
LEMMA SavingStep ==
  ASSUME RecordsInv, NEW s \in Saver, (\E r \in RecordId : SaveBegin(s, r)) \/ Insert(s) \/ Rollback(s)
  PROVE  RecordsInv'
<1>1. rows' = rows
  BY DEF SaveBegin, Insert, Rollback
<1>2. RecordsTypeOK'
  BY <1>1 DEF RecordsInv, RecordsTypeOK, SaveBegin, Insert, Rollback, NotSaving
<1>3. OneWriter'
  <2>1. CASE Insert(s)
    <3>1. saver' = [saver EXCEPT ![s].done = @ + 1] /\ saver[s].id \in RecordId /\ saver[s].done \in Nat
      BY <2>1 DEF Insert, MayInsert, RecordsInv, RecordsTypeOK
    <3>2. rows["records"][saver[s].id] = 0 /\ \A t \in Saver : t # s => saver[t].done = 0
      BY <2>1, <3>1 DEF Insert, MayInsert, RecordsInv, OneWriter
    <3> QED
      BY <1>1, <3>1, <3>2 DEF RecordsInv, RecordsTypeOK, OneWriter
  <2>2. CASE (\E r \in RecordId : SaveBegin(s, r)) \/ Rollback(s)
    <3>1. saver'[s].done = 0 /\ \A t \in Saver : t # s => saver'[t] = saver[t]
      BY <2>2 DEF SaveBegin, Rollback, NotSaving, RecordsInv, RecordsTypeOK
    <3> QED
      BY <1>1, <3>1 DEF RecordsInv, OneWriter
  <2> QED
    BY <2>1, <2>2
<1> QED
  BY <1>1, <1>2, <1>3 DEF RecordsInv, RecordsAreWhole

LEMMA CommitStep ==
  ASSUME RecordsInv, NEW s \in Saver, Commit(s)
  PROVE  RecordsInv'
<1> DEFINE r == saver[s].id
<1>1. r \in RecordId /\ saver[s].done > 0 /\ saver[s].done = Inserts(r)
  BY DEF Commit, Inserts, RecordsInv, RecordsTypeOK
<1>2. rows["records"][r] = 0 /\ \A t \in Saver : t # s => saver[t].done = 0
  BY <1>1 DEF RecordsInv, OneWriter
<1>3. saver' = [saver EXCEPT ![s] = NotSaving] /\ DOMAIN rows = TableNames
  BY DEF Commit, RecordsInv, RecordsTypeOK
<1>4. rows' = [t \in TableNames |->
        IF t = "frustration" => r \in Frustrated THEN [rows[t] EXCEPT ![r] = @ + 1] ELSE rows[t]]
  BY <1>1, <1>3, TablesAre DEF Commit
<1> HIDE DEF r
<1>5. ASSUME NEW t \in TableNames, NEW q \in RecordId
      PROVE  rows'[t][q] = IF q = r /\ (t = "frustration" => r \in Frustrated) THEN rows[t][q] + 1 ELSE rows[t][q]
  BY <1>1, <1>4 DEF RecordsInv, RecordsTypeOK
<1>6. RecordsTypeOK'
  <2>1. \A t \in TableNames : rows'[t] \in [RecordId -> Nat]
    BY <1>1, <1>4 DEF RecordsInv, RecordsTypeOK
  <2>2. rows' \in [TableNames -> [RecordId -> Nat]]
    BY <1>4, <2>1
  <2> QED
    BY <1>3, <2>2 DEF RecordsInv, RecordsTypeOK, NotSaving
<1>7. OneWriter'
  BY <1>2, <1>3 DEF RecordsInv, RecordsTypeOK, OneWriter, NotSaving
<1>8. RecordsAreWhole'
  <2> SUFFICES ASSUME NEW q \in RecordId, NEW t \in TableNames
               PROVE  rows'[t][q] = IF rows'["records"][q] = 1 /\ (t = "frustration" => q \in Frustrated)
                                    THEN 1 ELSE 0
    BY <1>4 DEF RecordsAreWhole
  <2>1. "records" \in TableNames
    BY TablesAre
  <2>2. rows[t][q] = IF rows["records"][q] = 1 /\ (t = "frustration" => q \in Frustrated) THEN 1 ELSE 0
    BY <1>3 DEF RecordsInv, RecordsAreWhole
  <2>3. CASE q = r
    BY <1>2, <1>5, <2>1, <2>2, <2>3
  <2>4. CASE q # r
    BY <1>5, <2>1, <2>2, <2>4
  <2> QED
    BY <2>3, <2>4
<1> QED
  BY <1>6, <1>7, <1>8 DEF RecordsInv

LEMMA RecordsNextInv == RecordsInv /\ [SaveNext \/ BucketNext]_analyticsVars => RecordsInv'
<1> SUFFICES ASSUME RecordsInv, [SaveNext \/ BucketNext]_analyticsVars PROVE RecordsInv'
  OBVIOUS
<1>1. CASE UNCHANGED recordVars
  BY <1>1 DEF recordVars, RecordsInv, RecordsTypeOK, OneWriter, RecordsAreWhole
<1>2. BucketNext \/ UNCHANGED analyticsVars => UNCHANGED recordVars
  BY DEF BucketNext, StoreMetric, HourPasses, Query, Upsert, EnforceRetention, analyticsVars, recordVars
<1> QED
  BY <1>1, <1>2, SavingStep, CommitStep DEF SaveNext

\* A validation record is in all its tables, once, or in none, whatever fails and
\* however the savers overlap.
THEOREM RecordsStayWhole == AnalyticsSpec => []RecordsAreWhole
<1>1. RecordsInv => RecordsAreWhole
  BY DEF RecordsInv
<1> QED
  BY <1>1, RecordsInitInv, RecordsNextInv, PTL DEF AnalyticsSpec

-----------------------------------------------------------------------------
(* Analytics: the buckets                                                  *)

FigureRows == [total : Nat, hits : Nat, misses : Nat, batched : Nat, direct : Nat]

BucketsTypeOK ==
  /\ hour \in Hours
  /\ metrics \in [Hours -> [Kinds -> Nat]]
  /\ hourly \in [Hours -> FigureRows \cup {NoRow}]
  /\ cron \in [Cron -> [hour : Hours \cup {0}, row : FigureRows \cup {NoRow}]]

\* A row that was read for an hour, now or earlier.
RowAgrees(f, h) ==
  /\ f \in FigureRows
  /\ h < hour
  /\ f.total = f.hits + f.misses
  /\ f.total <= Figures(h).total
  /\ h \notin late => f = Figures(h)

\* What an aggregation has read and not yet written agrees as the rows do.
BucketsInv ==
  /\ BucketsTypeOK
  /\ \A h \in Hours : hourly[h] # NoRow => RowAgrees(hourly[h], h)
  /\ \A c \in Cron : cron[c].hour # 0 => RowAgrees(cron[c].row, cron[c].hour)

LEMMA HoursAre == LastHour \in Nat \ {0} /\ Hours = 1..LastHour
  BY AnalyticsAssumption DEF Hours

LEMMA FiguresType ==
  ASSUME BucketsTypeOK, NEW h \in Hours
  PROVE  /\ Figures(h) \in FigureRows
         /\ Figures(h).total = Figures(h).hits + Figures(h).misses
<1>1. metrics[h]["cached"] \in Nat /\ metrics[h]["batched"] \in Nat
      /\ metrics[h]["both"] \in Nat /\ metrics[h]["direct"] \in Nat
  BY DEF BucketsTypeOK, Kinds
<1> QED
  BY <1>1 DEF Figures, FigureRows

LEMMA BucketsInitInv == AnalyticsInit => BucketsInv
<1> SUFFICES ASSUME AnalyticsInit PROVE BucketsInv
  OBVIOUS
<1>1. BucketsTypeOK
  BY HoursAre DEF AnalyticsInit, BucketsTypeOK
<1> QED
  BY <1>1 DEF AnalyticsInit, BucketsInv

\* A metric more makes the figures larger; those of an hour that has ended are only
\* touched when that is noted.
LEMMA StoreMetricStep ==
  ASSUME BucketsInv, NEW g \in Hours, NEW k \in Kinds, StoreMetric(g, k)
  PROVE  BucketsInv'
<1>1. /\ g = hour \/ (g < hour /\ late' = late \cup {g})
      /\ late \subseteq late'
      /\ metrics' = [metrics EXCEPT ![g][k] = @ + 1]
      /\ UNCHANGED <<hour, hourly, cron>>
  BY HoursAre DEF StoreMetric, BucketsInv, BucketsTypeOK
<1>2. BucketsTypeOK'
  BY <1>1 DEF BucketsInv, BucketsTypeOK
<1>3. ASSUME NEW h \in Hours
      PROVE  /\ h # g => Figures(h)' = Figures(h)
             /\ Figures(h).total <= Figures(h)'.total
  <2>1. h # g => metrics'[h] = metrics[h]
    BY <1>1 DEF BucketsInv, BucketsTypeOK
  <2>2. ASSUME NEW m \in Kinds PROVE metrics[h][m] \in Nat /\ metrics'[h][m] \in Nat /\ metrics[h][m] <= metrics'[h][m]
    BY <1>1 DEF BucketsInv, BucketsTypeOK
  <2>3. {"cached", "batched", "both", "direct"} \subseteq Kinds
    BY DEF Kinds
  <2> QED
    BY <2>1, <2>2, <2>3 DEF Figures
<1>4. ASSUME NEW f, NEW h \in Hours, RowAgrees(f, h) PROVE RowAgrees(f, h)'
  <2>1. f \in FigureRows /\ h < hour' /\ f.total = f.hits + f.misses
    BY <1>1, <1>4 DEF RowAgrees
  <2>2. f.total <= Figures(h)'.total
    <3>1. f.total \in Nat /\ Figures(h).total \in Nat /\ Figures(h)'.total \in Nat
      <4>1. Figures(h)' \in FigureRows
        <5>1. metrics'[h]["cached"] \in Nat /\ metrics'[h]["batched"] \in Nat
              /\ metrics'[h]["both"] \in Nat /\ metrics'[h]["direct"] \in Nat
          BY <1>2 DEF BucketsTypeOK, Kinds
        <5> QED
          BY <5>1 DEF Figures, FigureRows
      <4> QED
        BY <2>1, <4>1, FiguresType DEF FigureRows, BucketsInv
    <3> QED
      BY <1>3, <1>4, <3>1 DEF RowAgrees
  <2>3. ASSUME h \notin late' PROVE f = Figures(h)'
    <3>1. h \notin late /\ h # g
      BY <1>1, <2>1, <2>3, HoursAre DEF BucketsInv, BucketsTypeOK
    <3> QED
      BY <1>3, <1>4, <3>1 DEF RowAgrees
  <2> QED
    BY <2>1, <2>2, <2>3 DEF RowAgrees
<1>5. \A h \in Hours : hourly'[h] # NoRow => RowAgrees(hourly[h], h)'
  BY <1>1, <1>4 DEF BucketsInv
<1>6. \A c \in Cron : cron'[c].hour # 0 => RowAgrees(cron[c].row, cron[c].hour)'
  BY <1>1, <1>4 DEF BucketsInv, BucketsTypeOK
<1> QED
  BY <1>2, <1>5, <1>6 DEF BucketsInv

LEMMA HourPassesStep ==
  ASSUME BucketsInv, HourPasses
  PROVE  BucketsInv'
<1>1. hour' = hour + 1 /\ hour \in Hours /\ hour' \in Hours /\ UNCHANGED <<metrics, hourly, cron, late>>
  BY HoursAre DEF HourPasses, BucketsInv, BucketsTypeOK
<1>2. ASSUME NEW f, NEW h \in Hours, RowAgrees(f, h) PROVE RowAgrees(f, h)'
  BY <1>1, <1>2, HoursAre DEF RowAgrees, Figures
<1> QED
  BY <1>1, <1>2 DEF BucketsInv, BucketsTypeOK

LEMMA AggregateStep ==
  ASSUME BucketsInv, NEW c \in Cron, Query(c) \/ Upsert(c)
  PROVE  BucketsInv'
<1>1. UNCHANGED <<hour, metrics, late>>
  BY DEF Query, Upsert
<1>2. CASE Query(c)
  <2>1. /\ hour - 1 \in Hours /\ hourly' = hourly
        /\ cron' = [cron EXCEPT ![c] = [hour |-> hour - 1, row |-> Figures(hour - 1)]]
    BY <1>2, HoursAre DEF Query, BucketsInv, BucketsTypeOK
  <2>2. RowAgrees(Figures(hour - 1), hour - 1)
    <3>1. Figures(hour - 1) \in FigureRows /\ Figures(hour - 1).total = Figures(hour - 1).hits + Figures(hour - 1).misses
      BY <2>1, FiguresType DEF BucketsInv
    <3>2. Figures(hour - 1).total \in Nat /\ hour - 1 < hour
      BY <3>1, HoursAre DEF FigureRows, BucketsInv, BucketsTypeOK
    <3> QED
      BY <3>1, <3>2 DEF RowAgrees
  <2>3. BucketsTypeOK'
    BY <1>1, <2>1, <2>2 DEF BucketsInv, BucketsTypeOK, RowAgrees
  <2>4. ASSUME NEW d \in Cron, cron'[d].hour # 0 PROVE RowAgrees(cron'[d].row, cron'[d].hour)
    BY <2>1, <2>2, <2>4 DEF BucketsInv, BucketsTypeOK
  <2>5. \A h \in Hours : hourly'[h] # NoRow => RowAgrees(hourly[h], h)'
    BY <1>1, <2>1 DEF BucketsInv, RowAgrees, Figures
  <2>6. \A d \in Cron : cron'[d].hour # 0 => RowAgrees(cron[d].row, cron[d].hour)'
    BY <1>1, <2>4 DEF RowAgrees, Figures
  <2> QED
    BY <2>3, <2>5, <2>6 DEF BucketsInv
<1>3. CASE Upsert(c)
  <2>1. /\ cron[c].hour \in Hours /\ RowAgrees(cron[c].row, cron[c].hour)
        /\ hourly' = hourly \/ hourly' = [hourly EXCEPT ![cron[c].hour] = cron[c].row]
        /\ cron' = [cron EXCEPT ![c] = [hour |-> 0, row |-> NoRow]]
    BY <1>3 DEF Upsert, BucketsInv, BucketsTypeOK
  <2>2. BucketsTypeOK'
    BY <1>1, <2>1 DEF BucketsInv, BucketsTypeOK, RowAgrees
  <2>3. ASSUME NEW h \in Hours, hourly'[h] # NoRow PROVE RowAgrees(hourly'[h], h)
    BY <2>1, <2>3 DEF BucketsInv, BucketsTypeOK
  <2>4. ASSUME NEW d \in Cron, cron'[d].hour # 0 PROVE RowAgrees(cron'[d].row, cron'[d].hour)
    BY <2>1, <2>4 DEF BucketsInv, BucketsTypeOK
  <2>5. \A h \in Hours : hourly'[h] # NoRow => RowAgrees(hourly[h], h)'
    BY <1>1, <2>3 DEF RowAgrees, Figures
  <2>6. \A d \in Cron : cron'[d].hour # 0 => RowAgrees(cron[d].row, cron[d].hour)'
    BY <1>1, <2>4 DEF RowAgrees, Figures
  <2> QED
    BY <2>2, <2>5, <2>6 DEF BucketsInv
<1> QED
  BY <1>2, <1>3

LEMMA BucketsNextInv == BucketsInv /\ [SaveNext \/ BucketNext]_analyticsVars => BucketsInv'
<1> SUFFICES ASSUME BucketsInv, [SaveNext \/ BucketNext]_analyticsVars PROVE BucketsInv'
  OBVIOUS
<1>1. CASE UNCHANGED bucketVars
  BY <1>1 DEF bucketVars, BucketsInv, BucketsTypeOK, RowAgrees, Figures
<1>2. SaveNext \/ UNCHANGED analyticsVars => UNCHANGED bucketVars
  BY DEF SaveNext, SaveBegin, Insert, Rollback, Commit, analyticsVars, bucketVars
<1>3. ASSUME NEW h \in Hours, EnforceRetention(h) PROVE BucketsInv'
  BY <1>3 DEF EnforceRetention, BucketsInv, BucketsTypeOK, RowAgrees, Figures
<1> QED
  BY <1>1, <1>2, <1>3, StoreMetricStep, HourPassesStep, AggregateStep DEF BucketNext

\* However aggregations overlap, fail and repeat between query and upsert, a row counts
\* the metrics of its hour exactly, but for those that were stored late.
THEOREM BucketsStayExact == AnalyticsSpec => []BucketsAreExact
<1>1. BucketsInv => BucketsAreExact
  BY DEF BucketsInv, BucketsAreExact, RowAgrees
<1> QED
  BY <1>1, BucketsInitInv, BucketsNextInv, PTL DEF AnalyticsSpec

\* Both of the tables of records and the rows of hours.
THEOREM AnalyticsStaysSound == AnalyticsSpec => []AnalyticsIsSound
<1>1. RecordsAreWhole /\ BucketsAreExact => AnalyticsIsSound
  BY DEF AnalyticsIsSound
<1> QED BY <1>1, RecordsStayWhole, BucketsStayExact, PTL

-----------------------------------------------------------------------------
(* The status line                                                         *)

Kind == DOMAIN Priority

\* What a poll has got from the source it chose.
Sound(f, s) ==
  /\ f \in Figure
  /\ s # "envvar" => f.tokens \in 0..MostTokens /\ f.context \in 0..100
  /\ s \in Files => f.hit >= 0

Pending == {"asked", "checked", "read", "answered"}
StatusTypeOK ==
  /\ sources \in Seq(Kind)
  /\ report \in [Kind -> Figure]
  /\ poll \in [stage : {"idle", "choosing", "failed"} \cup Pending, source : Kind \cup {"none"},
               next : Nat, figures : Figure]
  /\ poll.stage \in {"choosing"} \cup Pending => poll.source \in Kind /\ poll.source \in Registered
  /\ poll.stage = "choosing" => poll.next >= 2
  /\ steady \subseteq Registered /\ young \subseteq Figure

\* Of the sources already considered, none that was there all the while is better.
ChoiceInv ==
  /\ poll.stage = "choosing" => \A k \in 1..Len(sources) :
       k < poll.next /\ sources[k] \in steady => Priority[poll.source] <= Priority[sources[k]]
  /\ poll.stage \in Pending => \A o \in steady : Priority[poll.source] <= Priority[o]
\* What a source has told since its file was found young enough.
ReadInv ==
  /\ poll.stage = "checked" => report[poll.source] \in young
  /\ poll.stage \in {"read", "answered"} =>
       \E r \in young : ~Refused(poll.source, r) /\ poll.figures = Shown(poll.source, r)
StatusInv == StatusTypeOK /\ ChoiceInv /\ ReadInv

LEMMA KindsAre ==
  /\ Kind = {"barista", "native", "webhook", "file", "envvar"}
  /\ \A s \in Kind : Priority[s] \in Nat
  /\ "none" \notin Kind /\ Torn \in Figure
  BY DEF Kind, Priority, Torn, Figure, Missing

LEMMA StatusInitInv == StatusInit => StatusInv
<1> SUFFICES ASSUME StatusInit PROVE StatusInv
  OBVIOUS
<1>1. sources \in Seq(Kind)
  BY StatusAssumption DEF StatusInit, Kind
<1>2. report \in [Kind -> Figure]
  <2>1. PICK r \in Reports : report = [s \in DOMAIN Priority |-> IF s = "envvar" THEN r ELSE Torn]
    BY DEF StatusInit
  <2> QED
    BY <2>1, StatusAssumption, KindsAre DEF Kind
<1>3. poll = NoPoll /\ steady = {} /\ young = {}
  BY DEF StatusInit
<1> QED
  BY <1>1, <1>2, <1>3, KindsAre DEF NoPoll, StatusInv, StatusTypeOK, ChoiceInv, ReadInv, Pending

LEMMA RegisteredKinds ==
  ASSUME sources \in Seq(Kind)
  PROVE  Registered \subseteq Kind
BY LenProperties, ElementOfSeq DEF Registered

\* What is shown of a report that is not refused is in range.
LEMMA ShownIsSound ==
  ASSUME NEW s \in Kind, NEW r \in Figure, ~Refused(s, r)
  PROVE  Sound(Shown(s, r), s)
<1>1. r.tokens \in Int /\ r.hit \in Int /\ r.context \in Int /\ MostTokens \in Nat
  BY StatusAssumption DEF Figure
<1>2. OrZero(r.tokens) \in Int /\ (s # "envvar" => OrZero(r.tokens) \in 0..MostTokens)
  BY <1>1 DEF Refused, OrZero, Missing
<1>3. Context(s, r.context) \in Int /\ (s # "envvar" => Context(s, r.context) \in 0..100)
  BY <1>1 DEF Context, OrZero, Missing
<1>4. Hit(s, r.hit) \in Int /\ (s \in Files => Hit(s, r.hit) >= 0)
  BY <1>1 DEF Hit, OrZero, Missing, Files
<1> QED
  BY <1>2, <1>3, <1>4 DEF Sound, Shown, Figure

\* What every step does to the two histories.
LEMMA Observed ==
  ASSUME StatusTypeOK, StatusNext
  PROVE  /\ sources' = sources /\ Registered' = Registered
         /\ steady' \subseteq Registered
         /\ poll'.stage = "choosing" => steady' \subseteq Available'
         /\ poll.stage = "choosing" \/ poll'.stage # "choosing" => steady' \subseteq steady
<1>1. sources' = sources
  BY DEF StatusNext, Ages, Told, Choose, Consider, Settle, Check, Read, ReadFails, Answer, Timeout, outside
<1>2. Registered' = Registered
  BY <1>1 DEF Registered
<1>3. Available' \subseteq Registered
  BY <1>2 DEF Available
<1>4. steady' = IF poll'.stage # "choosing" THEN steady
                ELSE IF poll.stage = "choosing" THEN steady \cap Available' ELSE Available'
  BY DEF StatusNext, Observe
<1> QED
  BY <1>1, <1>2, <1>3, <1>4 DEF StatusTypeOK

LEMMA OutsideStep ==
  ASSUME StatusInv, StatusNext, NEW s \in Kind, Ages(s) \/ \E r \in Reports \cup {Torn} : Told(s, r)
  PROVE  StatusInv'
<1>0. StatusTypeOK /\ ChoiceInv /\ ReadInv
  BY DEF StatusInv
<1>1. poll' = poll /\ sources' = sources
  BY DEF Ages, Told
<1>2. report' \in [Kind -> Figure] /\ \A o \in Kind : report'[o] = report[o] \/ o \in Available'
  <2>1. CASE Ages(s)
    BY <1>0, <2>1 DEF Ages, StatusTypeOK
  <2>2. ASSUME NEW r \in Reports \cup {Torn}, Told(s, r)
        PROVE  /\ report' \in [Kind -> Figure] /\ \A o \in Kind \ {s} : report'[o] = report[o]
               /\ s \in Available'
    <3>1. r \in Figure /\ report \in [Kind -> Figure]
      BY <1>0, StatusAssumption, KindsAre DEF StatusTypeOK
    <3>2. report' = [report EXCEPT ![s] = r] /\ s \in Registered /\ fresh' = fresh \cup ({s} \cap Files)
          /\ sources' = sources
      BY <2>2 DEF Told
    <3>3. s \in Available'
      BY <3>2 DEF Available, Registered, IsAvailable
    <3> QED
      BY <3>1, <3>2, <3>3
  <2> QED
    BY <2>1, <2>2
<1>3. steady' \subseteq steady /\ steady' \subseteq Registered /\ Registered' = Registered
  BY <1>0, <1>1, Observed
<1>4. young' = IF poll.stage = "choosing" \/ poll'.stage \in {"choosing", "failed"} THEN {}
               ELSE IF poll'.stage \in {"asked", "checked"} /\ poll'.source \in Available'
               THEN young \cup {report'[poll'.source]} ELSE young
  BY DEF StatusNext, Observe
<1>5. young' \subseteq Figure /\ (poll.stage \in Pending => young \subseteq young')
  BY <1>0, <1>1, <1>2, <1>4 DEF StatusTypeOK, Pending
<1>6. StatusTypeOK'
  BY <1>0, <1>1, <1>2, <1>3, <1>5 DEF StatusTypeOK, Pending
<1>7. ChoiceInv'
  BY <1>0, <1>1, <1>3 DEF ChoiceInv, Pending
<1>8. ReadInv'
  <2>1. CASE poll.stage = "checked"
    <3>1. poll.source \in Kind /\ report[poll.source] \in young
      BY <1>0, <2>1 DEF StatusTypeOK, ReadInv, Pending
    <3>2. report'[poll'.source] \in young'
      BY <1>1, <1>2, <1>4, <2>1, <3>1
    <3> QED
      BY <1>1, <2>1, <3>2 DEF ReadInv
  <2>2. CASE poll.stage \in {"read", "answered"}
    BY <1>0, <1>1, <1>5, <2>2 DEF ReadInv, Pending
  <2>3. CASE poll.stage \notin {"checked", "read", "answered"}
    BY <1>1, <2>3 DEF ReadInv
  <2> QED
    BY <2>1, <2>2, <2>3
<1> QED
  BY <1>6, <1>7, <1>8 DEF StatusInv

LEMMA ChoosingStep ==
  ASSUME StatusInv, StatusNext, Choose \/ Consider \/ Settle
  PROVE  StatusInv'
<1>0. StatusTypeOK /\ ChoiceInv /\ ReadInv
  BY DEF StatusInv
<1>1. sources' = sources /\ report' = report /\ fresh' = fresh /\ Available' = Available
  <2>1. sources' = sources /\ report' = report /\ fresh' = fresh
    BY DEF Choose, Consider, Settle, outside
  <2> QED
    BY <2>1 DEF Available, Registered, IsAvailable
<1>2. /\ steady' \subseteq Registered /\ Registered' = Registered
      /\ poll'.stage = "choosing" => steady' \subseteq Available'
      /\ poll.stage = "choosing" \/ poll'.stage # "choosing" => steady' \subseteq steady
  BY <1>0, Observed
<1>3. young' = IF poll.stage = "choosing" \/ poll'.stage \in {"choosing", "failed"} THEN {}
               ELSE IF poll'.stage \in {"asked", "checked"} /\ poll'.source \in Available'
               THEN young \cup {report'[poll'.source]} ELSE young
  BY DEF StatusNext, Observe
<1>4. Len(sources) \in Nat /\ DOMAIN sources = 1..Len(sources)
      /\ \A k \in 1..Len(sources) : sources[k] \in Kind
  BY <1>0, LenProperties, ElementOfSeq DEF StatusTypeOK
<1>5. CASE Choose
  <2>1. poll' = [stage |-> "choosing", source |-> sources[1], next |-> 2, figures |-> Torn] /\ sources # <<>>
    BY <1>5 DEF Choose
  <2>2. 1 \in 1..Len(sources) /\ sources[1] \in Kind /\ sources[1] \in Registered
    BY <1>0, <1>4, <2>1, EmptySeq DEF StatusTypeOK, Registered
  <2>3. young' = {}
    BY <1>3, <2>1
  <2>4. StatusTypeOK'
    BY <1>0, <1>1, <1>2, <2>1, <2>2, <2>3, KindsAre DEF StatusTypeOK, Pending
  <2>5. ASSUME NEW k \in 1..Len(sources), k < 2 PROVE Priority[sources[1]] <= Priority[sources[k]]
    <3>1. k = 1 /\ Priority[sources[1]] \in Nat
      BY <2>2, <2>5, KindsAre
    <3> QED
      BY <3>1
  <2>6. ChoiceInv'
    BY <1>1, <2>1, <2>5 DEF ChoiceInv, Pending
  <2> QED
    BY <2>1, <2>4, <2>6 DEF StatusInv, ReadInv
<1>6. CASE Consider
  <2> DEFINE s == sources[poll.next]
             better == IsAvailable(s) /\ Priority[s] < Priority[poll.source]
             best == IF better THEN s ELSE poll.source
  <2>1. /\ poll.stage = "choosing" /\ poll.next <= Len(sources)
        /\ poll' = [poll EXCEPT !.next = @ + 1, !.source = best]
    BY <1>6 DEF Consider
  <2>2. poll.source \in Kind /\ poll.source \in Registered /\ poll.next \in Nat
        /\ (poll.next \in 1..Len(sources) => s \in Kind /\ s \in Registered)
    BY <1>0, <1>4, <2>1 DEF StatusTypeOK, Registered
  <2>3. poll'.stage = "choosing" /\ poll'.next = poll.next + 1 /\ poll'.source = best
        /\ poll'.figures = poll.figures
    BY <1>0, <2>1 DEF StatusTypeOK
  <2>4. young' = {} /\ steady' \subseteq steady /\ steady' \subseteq Available
    BY <1>1, <1>2, <1>3, <2>1, <2>3
  <2>0. poll.next \in 2..Len(sources) /\ s \in Kind /\ s \in Registered
    BY <1>0, <1>4, <2>1, <2>2 DEF StatusTypeOK
  <2>5. best \in Kind /\ best \in Registered /\ Priority[best] <= Priority[poll.source]
        /\ (IsAvailable(s) => Priority[best] <= Priority[s])
    <3>1. Priority[s] \in Nat /\ Priority[poll.source] \in Nat
      BY <2>0, <2>2, KindsAre
    <3>2. CASE better
      BY <2>0, <3>1, <3>2
    <3>3. CASE ~better
      BY <2>2, <3>1, <3>3
    <3> QED
      BY <3>2, <3>3
  <2> HIDE DEF best
  <2>6. StatusTypeOK'
    <3>1. poll' \in [stage : {"idle", "choosing", "failed"} \cup Pending, source : Kind \cup {"none"},
                     next : Nat, figures : Figure]
      <4> DEFINE P == [stage : {"idle", "choosing", "failed"} \cup Pending, source : Kind \cup {"none"},
                       next : Nat, figures : Figure]
                 q == [poll EXCEPT !.next = @ + 1]
      <4>1. q \in P
        BY <1>0, <2>2 DEF StatusTypeOK
      <4>2. poll' = [q EXCEPT !.source = best]
        BY <2>1
      <4> HIDE DEF q
      <4> QED
        BY <2>5, <4>1, <4>2
    <3> QED
      BY <1>0, <1>1, <1>2, <2>0, <2>3, <2>4, <2>5, <3>1 DEF StatusTypeOK
  <2>7. ASSUME NEW k \in 1..Len(sources), k < poll.next + 1, sources[k] \in steady'
        PROVE  Priority[best] <= Priority[sources[k]]
    <3>1. CASE k < poll.next
      <4>1. Priority[poll.source] <= Priority[sources[k]]
        BY <1>0, <2>1, <2>4, <2>7, <3>1 DEF ChoiceInv
      <4>2. Priority[poll.source] \in Nat /\ Priority[sources[k]] \in Nat /\ Priority[best] \in Nat
        BY <1>4, <2>2, <2>5, KindsAre
      <4> QED
        BY <2>5, <4>1, <4>2
    <3>2. CASE k = poll.next
      <4>1. sources[k] = s /\ IsAvailable(s)
        BY <1>4, <2>4, <2>7, <3>2 DEF Available
      <4> QED
        BY <2>5, <4>1
    <3> QED
      BY <2>2, <2>7, <3>1, <3>2
  <2>8. ChoiceInv'
    BY <1>1, <2>3, <2>7 DEF ChoiceInv, Pending
  <2> QED
    BY <2>3, <2>6, <2>8 DEF StatusInv, ReadInv
<1>7. CASE Settle
  <2>1. /\ poll.stage = "choosing" /\ poll.next > Len(sources)
        /\ poll' = IF IsAvailable(poll.source) THEN [poll EXCEPT !.stage = "asked"]
                   ELSE [poll EXCEPT !.stage = "failed", !.source = "none"]
    BY <1>7 DEF Settle
  <2>2. poll.source \in Kind /\ poll.source \in Registered /\ poll.next \in Nat
    BY <1>0, <2>1 DEF StatusTypeOK
  <2>3. \/ poll'.stage = "asked" /\ poll'.source = poll.source
        \/ poll'.stage = "failed"
    BY <1>0, <2>1 DEF StatusTypeOK
  <2>4. young' = {} /\ steady' \subseteq steady
    BY <1>2, <1>3, <2>1
  <2>5. poll' \in [stage : {"idle", "choosing", "failed"} \cup Pending, source : Kind \cup {"none"},
                   next : Nat, figures : Figure]
    BY <1>0, <2>1, <2>2 DEF StatusTypeOK, Pending
  <2>6. StatusTypeOK'
    BY <1>0, <1>1, <1>2, <2>2, <2>3, <2>4, <2>5 DEF StatusTypeOK, Pending
  <2>7. ASSUME NEW o \in steady PROVE Priority[poll.source] <= Priority[o]
    <3>1. PICK k \in 1..Len(sources) : o = sources[k]
      BY <1>0, <1>4 DEF StatusTypeOK, Registered
    <3>2. k < poll.next
      BY <1>4, <2>1, <2>2
    <3> QED
      BY <1>0, <2>1, <3>1, <3>2 DEF ChoiceInv
  <2>8. ChoiceInv'
    BY <2>3, <2>4, <2>7 DEF ChoiceInv, Pending
  <2> QED
    BY <2>3, <2>6, <2>8 DEF StatusInv, ReadInv
<1> QED
  BY <1>5, <1>6, <1>7

LEMMA ReadingStep ==
  ASSUME StatusInv, StatusNext, Check \/ Read \/ ReadFails \/ Answer \/ Timeout
  PROVE  StatusInv'
<1>0. StatusTypeOK /\ ChoiceInv /\ ReadInv
  BY DEF StatusInv
<1>1. sources' = sources /\ report' = report /\ fresh' = fresh /\ Available' = Available
  <2>1. sources' = sources /\ report' = report /\ fresh' = fresh
    BY DEF Check, Read, ReadFails, Answer, Timeout, outside
  <2> QED
    BY <2>1 DEF Available, Registered, IsAvailable
<1>2. poll.stage \in {"asked", "checked", "read"} /\ poll.source \in Kind
  BY <1>0 DEF Check, Read, ReadFails, Answer, Timeout, StatusTypeOK, Pending
<1>3. young' = IF poll.stage = "choosing" \/ poll'.stage \in {"choosing", "failed"} THEN {}
               ELSE IF poll'.stage \in {"asked", "checked"} /\ poll'.source \in Available'
               THEN young \cup {report'[poll'.source]} ELSE young
  BY DEF StatusNext, Observe
<1>4. ASSUME poll'.stage \in {"checked", "read", "answered", "failed"}, poll'.source = poll.source,
             poll' \in [stage : {"idle", "choosing", "failed"} \cup Pending, source : Kind \cup {"none"},
                        next : Nat, figures : Figure],
             ReadInv'
      PROVE  StatusInv'
  <2>1. steady' \subseteq steady /\ steady' \subseteq Registered /\ Registered' = Registered
    BY <1>0, <1>4, Observed
  <2>2. young' \subseteq Figure
    BY <1>0, <1>1, <1>2, <1>3, <1>4 DEF StatusTypeOK
  <2>3. StatusTypeOK'
    BY <1>0, <1>1, <1>2, <1>4, <2>1, <2>2 DEF StatusTypeOK
  <2>4. ChoiceInv'
    BY <1>0, <1>2, <1>4, <2>1 DEF ChoiceInv, Pending
  <2> QED
    BY <1>4, <2>3, <2>4 DEF StatusInv
<1>5. CASE Check
  <2>1. poll.stage = "asked"
        /\ poll' = [poll EXCEPT !.stage = IF IsAvailable(poll.source) THEN "checked" ELSE "failed"]
    BY <1>5 DEF Check
  <2>2. poll'.source = poll.source /\ poll'.stage = IF IsAvailable(poll.source) THEN "checked" ELSE "failed"
    BY <1>0, <2>1 DEF StatusTypeOK
  <2>3. poll' \in [stage : {"idle", "choosing", "failed"} \cup Pending, source : Kind \cup {"none"},
                   next : Nat, figures : Figure]
    BY <1>0, <2>1 DEF StatusTypeOK, Pending
  <2>4. ReadInv'
    <3>1. CASE IsAvailable(poll.source)
      <4>1. poll.source \in Registered
        BY <1>0, <2>1 DEF StatusTypeOK
      <4>2. poll'.source \in Available'
        BY <1>1, <2>2, <3>1, <4>1 DEF Available
      <4> QED
        BY <1>2, <1>3, <2>1, <2>2, <3>1, <4>2 DEF ReadInv
    <3>2. CASE ~IsAvailable(poll.source)
      BY <2>2, <3>2 DEF ReadInv
    <3> QED
      BY <3>1, <3>2
  <2> QED
    BY <1>4, <2>2, <2>3, <2>4
<1>6. CASE Read
  <2> DEFINE r == report[poll.source]
  <2>1. poll.stage = "checked" /\ ~Refused(poll.source, r)
        /\ poll' = [poll EXCEPT !.stage = "read", !.figures = Shown(poll.source, r)]
    BY <1>6 DEF Read
  <2>2. r \in young /\ r \in Figure
    BY <1>0, <1>2, <2>1 DEF ReadInv, StatusTypeOK
  <2>3. Shown(poll.source, r) \in Figure
    BY <1>2, <2>1, <2>2, ShownIsSound DEF Sound
  <2> HIDE DEF r
  <2>4. poll'.source = poll.source /\ poll'.stage = "read" /\ poll'.figures = Shown(poll.source, r)
    BY <1>0, <2>1 DEF StatusTypeOK
  <2>5. poll' \in [stage : {"idle", "choosing", "failed"} \cup Pending, source : Kind \cup {"none"},
                   next : Nat, figures : Figure]
    BY <1>0, <2>1, <2>3 DEF StatusTypeOK, Pending
  <2>6. young' = young
    BY <1>3, <2>1, <2>4
  <2>7. ReadInv'
    BY <2>1, <2>2, <2>4, <2>6 DEF ReadInv
  <2> QED
    BY <1>4, <2>4, <2>5, <2>7
<1>7. CASE ReadFails \/ Timeout
  <2>1. poll'.source = poll.source /\ poll'.stage = "failed"
    BY <1>0, <1>7 DEF ReadFails, Timeout, StatusTypeOK
  <2>2. poll' \in [stage : {"idle", "choosing", "failed"} \cup Pending, source : Kind \cup {"none"},
                   next : Nat, figures : Figure]
    BY <1>0, <1>7, KindsAre DEF ReadFails, Timeout, StatusTypeOK
  <2>3. ReadInv'
    BY <2>1 DEF ReadInv
  <2> QED
    BY <1>4, <2>1, <2>2, <2>3
<1>8. CASE Answer
  <2>1. poll'.source = poll.source /\ poll'.stage = "answered" /\ poll'.figures = poll.figures
        /\ poll.stage = "read"
    BY <1>0, <1>8 DEF Answer, StatusTypeOK
  <2>2. poll' \in [stage : {"idle", "choosing", "failed"} \cup Pending, source : Kind \cup {"none"},
                   next : Nat, figures : Figure]
    BY <1>0, <1>8 DEF Answer, StatusTypeOK, Pending
  <2>3. young' = young
    BY <1>3, <2>1
  <2>4. ReadInv'
    BY <1>0, <2>1, <2>3 DEF ReadInv
  <2> QED
    BY <1>4, <2>1, <2>2, <2>4
<1> QED
  BY <1>5, <1>6, <1>7, <1>8

LEMMA StatusNextInv == StatusInv /\ [StatusNext]_statusVars => StatusInv'
<1> SUFFICES ASSUME StatusInv, [StatusNext]_statusVars PROVE StatusInv'
  OBVIOUS
<1>1. CASE StatusNext
  <2>1. \/ \E s \in Kind : Ages(s) \/ \E r \in Reports \cup {Torn} : Told(s, r)
        \/ Choose \/ Consider \/ Settle
        \/ Check \/ Read \/ ReadFails \/ Answer \/ Timeout
    BY <1>1, Zenon DEF StatusNext, Kind
  <2> QED
    BY <1>1, <2>1, OutsideStep, ChoosingStep, ReadingStep, Zenon
<1>2. CASE UNCHANGED statusVars
  BY <1>2 DEF statusVars, StatusInv, StatusTypeOK, ChoiceInv, ReadInv, Registered
<1> QED
  BY <1>1, <1>2

\* Whatever other programs write and however files age or vanish while Poll looks at
\* them, an answer is from a source no worse than any that was there all the while, and
\* shows a report that was told while it was young; its figures are in range.
THEOREM AnswersStaySound == StatusSpec => []AnswersAreSound
<1>1. StatusInv => AnswersAreSound
  <2> SUFFICES ASSUME StatusInv, poll.stage = "answered" PROVE AnswersAreSound
    BY DEF AnswersAreSound
  <2>1. poll.source \in Kind /\ young \subseteq Figure
    BY DEF StatusInv, StatusTypeOK, Pending
  <2>2. PICK r \in young : ~Refused(poll.source, r) /\ poll.figures = Shown(poll.source, r)
    BY DEF StatusInv, ReadInv
  <2>3. Sound(poll.figures, poll.source)
    BY <2>1, <2>2, ShownIsSound
  <2>4. \A o \in steady : Priority[poll.source] <= Priority[o]
    BY DEF StatusInv, ChoiceInv, Pending
  <2> QED
    BY <2>2, <2>3, <2>4 DEF Sound, AnswersAreSound
<1> QED
  BY <1>1, StatusInitInv, StatusNextInv, PTL DEF StatusSpec
-----------------------------------------------------------------------------
(* The priority sort: by the loop invariant SortInv, for a queue of any     *)
(* length                                                                  *)

\* Exchanging two slots keeps the elements and repeats none.
LEMMA SwapKeeps ==
  ASSUME NEW n \in Nat, NEW s \in [1..n -> Request], IsInjective(s),
         NEW k \in 1..n, NEW m \in 1..n
  PROVE  /\ Swapped(s, k, m) \in [1..n -> Request]
         /\ IsInjective(Swapped(s, k, m))
         /\ Range(Swapped(s, k, m)) = Range(s)
<1>1. /\ Swapped(s, k, m) \in [1..n -> Request]
      /\ \A p \in 1..n : Swapped(s, k, m)[p] = IF p = m THEN s[k] ELSE IF p = k THEN s[m] ELSE s[p]
  BY DEF Swapped
<1>2. IsInjective(Swapped(s, k, m))
  BY <1>1 DEF IsInjective
<1>3. Range(Swapped(s, k, m)) = Range(s)
  <2>1. ASSUME NEW x \in Range(s) PROVE x \in Range(Swapped(s, k, m))
    <3>1. PICK p \in 1..n : s[p] = x
      BY DEF Range
    <3>2. CASE p = k
      BY <1>1, <3>1, <3>2 DEF Range
    <3>3. CASE p = m
      BY <1>1, <3>1, <3>3 DEF Range
    <3>4. CASE p # k /\ p # m
      BY <1>1, <3>1, <3>4 DEF Range
    <3> QED
      BY <3>2, <3>3, <3>4
  <2>2. Range(Swapped(s, k, m)) \subseteq Range(s)
    BY <1>1 DEF Range
  <2> QED
    BY <2>1, <2>2
<1> QED
  BY <1>1, <1>2, <1>3

LEMMA SortInitInv == SortInit => SortInv
<1> SUFFICES ASSUME SortInit PROVE SortInv
  OBVIOUS
<1>1. Len(input) \in Nat /\ input \in [1..Len(input) -> Request] /\ input \in Seq(Request) /\ IsInjective(input)
  BY LenProperties DEF SortInit, Queues
<1>2. a = input /\ i = 1 /\ j = 2
  BY DEF SortInit
<1>3. SortTypeOK /\ SameRequests /\ i <= Len(a) + 1 /\ i < j /\ j <= Len(a) + 2
  BY <1>1, <1>2 DEF SortTypeOK, SameRequests
<1>4. OuterInvariant /\ InnerInvariant
  BY <1>1, <1>2 DEF OuterInvariant, InnerInvariant
<1> QED
  BY <1>1, <1>2, <1>3, <1>4 DEF SortInv

LEMMA SortNextInv == SortInv /\ [SortNext]_sortVars => SortInv'
<1> SUFFICES ASSUME SortInv, [SortNext]_sortVars PROVE SortInv'
  OBVIOUS
<1> DEFINE n == Len(input)
<1>1. /\ n \in Nat /\ a \in [1..n -> Request] /\ Len(a) = n /\ DOMAIN a = 1..n
      /\ i \in Nat \ {0} /\ j \in Nat \ {0} /\ i < j /\ i <= n + 1 /\ j <= n + 2
  <2>1. n \in Nat
    BY LenProperties DEF SortInv, SortTypeOK
  <2> QED
    BY <2>1 DEF SortInv, SortTypeOK
<1>2. \A r \in Request : PriorityOf[r] \in Nat
  BY PriorityAssumption
<1>3. CASE Inner
  <2>1. /\ i \in 1..n /\ j \in 1..n /\ j' = j + 1 /\ i' = i /\ input' = input
        /\ a' = IF Higher(a[j], a[i]) THEN Swapped(a, i, j) ELSE a
    BY <1>1, <1>3 DEF Inner
  <2>2. /\ a' \in [1..n -> Request] /\ IsInjective(a') /\ Range(a') = Range(a)
    BY <1>1, <2>1, SwapKeeps DEF SortInv, SameRequests
  <2>3. Len(a') = n
    BY <1>1, <2>2
  <2>4. \A p \in 1..n : a'[p] = IF Higher(a[j], a[i])
                               THEN IF p = j THEN a[i] ELSE IF p = i THEN a[j] ELSE a[p]
                               ELSE a[p]
    BY <1>1, <2>1 DEF Swapped
  <2>5. SortTypeOK' /\ SameRequests' /\ IsInjective(input')
    BY <1>1, <2>1, <2>2 DEF SortInv, SortTypeOK, SameRequests
  <2>6. (i <= Len(a) + 1 /\ i < j /\ j <= Len(a) + 2)'
    BY <1>1, <2>1, <2>3
  <2>7. OuterInvariant'
    <3>1. \A m \in 1..n, p \in 1..n : m < p /\ m < i => ~Higher(a[p], a[m])
      BY <1>1 DEF SortInv, OuterInvariant
    <3> SUFFICES ASSUME NEW m \in 1..n, NEW p \in 1..n, m < p, m < i
                 PROVE  ~Higher(a'[p], a'[m])
      BY <2>1, <2>3 DEF OuterInvariant, Higher
    <3>2. a'[m] = a[m]
      BY <1>1, <2>1, <2>4
    <3>3. a'[p] = a[p] \/ a'[p] = a[i] \/ a'[p] = a[j]
      BY <2>4
    <3> QED
      BY <1>1, <2>1, <3>1, <3>2, <3>3
  <2>8. InnerInvariant'
    <3>1. \A p \in 1..n : i < p /\ p < j => ~Higher(a[p], a[i])
      BY <1>1 DEF SortInv, InnerInvariant
    <3> SUFFICES ASSUME NEW p \in 1..n, i < p, p < j + 1
                 PROVE  ~Higher(a'[p], a'[i])
      BY <2>1, <2>3 DEF InnerInvariant, Higher
    <3>2. a[p] \in Request /\ a[i] \in Request /\ a[j] \in Request
      BY <1>1, <2>1
    <3>3. CASE p = j
      BY <1>1, <1>2, <2>1, <2>4, <3>2, <3>3 DEF Higher
    <3>4. CASE p < j
      BY <1>1, <1>2, <2>1, <2>4, <3>1, <3>2, <3>4 DEF Higher
    <3> QED
      BY <1>1, <3>3, <3>4
  <2> QED
    BY <2>5, <2>6, <2>7, <2>8 DEF SortInv
<1>4. CASE Outer
  <2>1. i \in 1..n /\ j > n /\ i' = i + 1 /\ j' = i + 2 /\ UNCHANGED <<input, a>>
    BY <1>1, <1>4 DEF Outer
  <2>2. SortTypeOK' /\ SameRequests' /\ IsInjective(input')
    BY <1>1, <2>1 DEF SortInv, SortTypeOK, SameRequests
  <2>3. (i <= Len(a) + 1 /\ i < j /\ j <= Len(a) + 2)'
    BY <1>1, <2>1
  <2>4. OuterInvariant'
    BY <1>1, <2>1 DEF SortInv, OuterInvariant, InnerInvariant, Higher
  <2>5. InnerInvariant'
    BY <1>1, <2>1 DEF InnerInvariant
  <2> QED
    BY <2>2, <2>3, <2>4, <2>5 DEF SortInv
<1>5. CASE UNCHANGED sortVars
  BY <1>5 DEF sortVars, SortInv, SortTypeOK, SameRequests, OuterInvariant, InnerInvariant, Higher
<1> QED
  BY <1>3, <1>4, <1>5 DEF SortNext

\* The loops keep every request: sorting loses and doubles none.
THEOREM SortKeepsRequests == SortSpec => []SameRequests
<1>1. SortInv => SameRequests
  BY DEF SortInv
<1> QED
  BY <1>1, SortInitInv, SortNextInv, PTL DEF SortSpec

\* When the loops are over the higher priorities come first.
THEOREM SortDescends == SortSpec => []Descending
<1>1. SortInv => Descending
  <2> SUFFICES ASSUME SortInv, i > Len(a), NEW m \in 1..Len(a), NEW p \in 1..Len(a), m < p
               PROVE  ~Higher(a[p], a[m])
    BY DEF Descending, Finished
  <2>1. Len(a) \in Nat /\ i \in Nat
    <3>1. Len(input) \in Nat /\ Len(a) = Len(input)
      BY LenProperties DEF SortInv, SortTypeOK
    <3> QED
      BY <3>1 DEF SortInv, SortTypeOK
  <2>2. m < i
    BY <2>1
  <2> QED
    BY <2>2 DEF SortInv, OuterInvariant
<1> QED
  BY <1>1, SortInitInv, SortNextInv, PTL DEF SortSpec
-----------------------------------------------------------------------------
(* The poller's start and stop, for any callers and any finite number of   *)
(* starts.  Start and Stop each do half of their work after bp.mu is       *)
(* released, so the flag alone says nothing about the goroutines: the      *)
(* invariant speaks also of the callers on their way, and of what the wait *)
(* group has counted.                                                      *)

\* The wait group counts the goroutines that live.
WaitGroupCounts == wg = Cardinality(Live)

\* A goroutine that lives, or that a caller of Start is about to spawn, is one
\* that Stop can still be called for, or that somebody's Stop has reached.
EveryStartReachable ==
  Live # {} \/ Spawning # {} => isRunning \/ closed \/ \E c \in Caller : pc[c] = "close"

LifecycleInv ==
  /\ LifecycleTypeOK
  /\ WaitGroupCounts
  /\ EveryStartReachable

LEMMA LiveIsFinite == IsFiniteSet(Live) /\ Cardinality(Live) \in Nat
<1>1. Live \subseteq Loop
  BY DEF Live
<1> QED BY <1>1, LifecycleAssumption, FS_Subset, FS_CardinalityType

LEMMA LifecycleInitInv == Init => LifecycleInv
<1> SUFFICES ASSUME Init PROVE LifecycleInv
  OBVIOUS
<1>1. Live = {} /\ Spawning = {}
  BY DEF Init, Live, Spawning
<1>2. WaitGroupCounts
  BY <1>1, FS_EmptySet DEF Init, WaitGroupCounts
<1>3. LifecycleTypeOK /\ EveryStartReachable
  BY <1>1 DEF Init, LifecycleTypeOK, EveryStartReachable
<1> QED BY <1>2, <1>3 DEF LifecycleInv
-----------------------------------------------------------------------------
(* One lemma per group of actions                                          *)

\* Only callers move: the goroutines and their count stay as they are.
LEMMA CallerStep ==
  ASSUME LifecycleInv, NEW c \in Caller, Start(c) \/ Stop(c) \/ Close(c) \/ WaitReturns(c)
  PROVE  LifecycleInv'
<1>1. LifecycleTypeOK'
  BY DEF LifecycleInv, LifecycleTypeOK, Start, Stop, Close, WaitReturns
<1>2. Live' = Live /\ WaitGroupCounts'
  BY DEF LifecycleInv, WaitGroupCounts, Live, Start, Stop, Close, WaitReturns
<1>3. EveryStartReachable'
  <2>1. CASE Start(c)
    BY <2>1 DEF Start, EveryStartReachable
  <2>2. CASE Stop(c)
    BY <2>2 DEF Stop, EveryStartReachable, LifecycleInv, LifecycleTypeOK
  <2>3. CASE Close(c)
    BY <2>3 DEF Close, EveryStartReachable
  <2>4. CASE WaitReturns(c)
    <3>1. Spawning' = Spawning /\ \A d \in Caller : pc[d] = "close" => pc'[d] = "close"
      BY <2>4 DEF WaitReturns, Spawning, LifecycleInv, LifecycleTypeOK
    <3> QED BY <2>4, <3>1, <1>2 DEF WaitReturns, EveryStartReachable, LifecycleInv
  <2> QED BY <2>1, <2>2, <2>3, <2>4
<1> QED BY <1>1, <1>2, <1>3 DEF LifecycleInv

\* A goroutine is spawned: it is counted, and the promise made for the caller
\* on its way now holds for the goroutine.
LEMMA SpawnStep ==
  ASSUME LifecycleInv, NEW c \in Caller, NEW l \in Loop, Spawn(c, l)
  PROVE  LifecycleInv'
<1>1. Live' = Live \cup {l} /\ l \notin Live
  BY DEF LifecycleInv, LifecycleTypeOK, Live, Spawn
<1>2. Cardinality(Live') = Cardinality(Live) + 1
  BY <1>1, LiveIsFinite, FS_AddElement
<1>3. LifecycleTypeOK' /\ WaitGroupCounts'
  BY <1>2, LiveIsFinite DEF LifecycleInv, LifecycleTypeOK, WaitGroupCounts, Spawn
<1>4. c \in Spawning
  BY DEF Spawn, Spawning
<1>5. \A d \in Caller : pc[d] = "close" => pc'[d] = "close"
  BY DEF Spawn, LifecycleInv, LifecycleTypeOK
<1>6. EveryStartReachable'
  BY <1>4, <1>5 DEF LifecycleInv, EveryStartReachable, Spawn
<1> QED BY <1>3, <1>6 DEF LifecycleInv

\* A goroutine that returns is counted off, and never below zero.
LEMMA LoopReturnsStep ==
  ASSUME LifecycleInv, NEW l \in Loop, LoopReturns(l)
  PROVE  LifecycleInv'
<1>1. Live' = Live \ {l} /\ l \in Live
  BY DEF LifecycleInv, LifecycleTypeOK, Live, LoopReturns
<1>2. Cardinality(Live') = Cardinality(Live) - 1 /\ Cardinality(Live') \in Nat
  <2>1. IsFiniteSet(Live')
    BY <1>1, LiveIsFinite, FS_RemoveElement
  <2> QED BY <1>1, <2>1, LiveIsFinite, FS_RemoveElement, FS_CardinalityType
<1>3. LifecycleTypeOK' /\ WaitGroupCounts'
  BY <1>2 DEF LifecycleInv, LifecycleTypeOK, WaitGroupCounts, LoopReturns
<1>4. EveryStartReachable'
  BY <1>1 DEF LifecycleInv, EveryStartReachable, Spawning, LoopReturns
<1> QED BY <1>3, <1>4 DEF LifecycleInv

\* A round begins or ends, or the context is done.
LEMMA LoopMoves ==
  ASSUME LifecycleInv, CancelContext \/ \E l \in Loop : LoopTick(l) \/ LoopRoundDone(l)
  PROVE  LifecycleInv'
<1>1. LifecycleTypeOK' /\ Live' = Live
  BY DEF LifecycleInv, LifecycleTypeOK, Live, CancelContext, LoopTick, LoopRoundDone
<1>2. UNCHANGED <<isRunning, closed, wg, pc>>
  BY DEF CancelContext, LoopTick, LoopRoundDone
<1> QED BY <1>1, <1>2
        DEF LifecycleInv, WaitGroupCounts, EveryStartReachable, Spawning

LEMMA LifecycleNextInv == LifecycleInv /\ [Next]_vars => LifecycleInv'
<1> SUFFICES ASSUME LifecycleInv, [Next]_vars PROVE LifecycleInv'
  OBVIOUS
<1>1. ASSUME NEW c \in Caller, Start(c) \/ Stop(c) \/ Close(c) \/ WaitReturns(c)
      PROVE  LifecycleInv'
  BY <1>1, CallerStep
<1>2. ASSUME NEW c \in Caller, NEW l \in Loop, Spawn(c, l) PROVE LifecycleInv'
  BY <1>2, SpawnStep
<1>3. CASE CancelContext \/ \E l \in Loop : LoopTick(l) \/ LoopRoundDone(l)
  BY <1>3, LoopMoves
<1>4. ASSUME NEW l \in Loop, LoopReturns(l) PROVE LifecycleInv'
  BY <1>4, LoopReturnsStep
<1>5. CASE UNCHANGED vars
  BY <1>5 DEF vars, LifecycleInv, LifecycleTypeOK, WaitGroupCounts, EveryStartReachable,
              Live, Spawning
<1> QED BY <1>1, <1>2, <1>3, <1>4, <1>5 DEF Next
-----------------------------------------------------------------------------
LEMMA LifecycleInvariant == Spec => []LifecycleInv
  BY LifecycleInitInv, LifecycleNextInv, PTL DEF Spec

\* The states are well formed; the counter of the wait group, above all, never
\* goes below zero, where Done of the code would panic.
THEOREM LifecycleTyped == Spec => []LifecycleTypeOK
<1>1. LifecycleInv => LifecycleTypeOK
  BY DEF LifecycleInv
<1> QED BY <1>1, LifecycleInvariant, PTL

\* However calls of Start and Stop overlap in the gaps between bp.mu and the
\* goroutine or the channel, no polling goroutine is left that nobody can stop.
THEOREM LoopsStayStoppable == Spec => []EveryLoopStoppable
<1>1. LifecycleInv => EveryLoopStoppable
  BY DEF LifecycleInv, EveryStartReachable, EveryLoopStoppable
<1> QED BY <1>1, LifecycleInvariant, PTL

\* Who waits for the loops has closed the channel, which stays closed.
WaitAfterClose == \A c \in Caller : pc[c] = "wait" => closed

\* A Stop that waits has closed the channel, and the wait group counts the living
\* loops: nobody waits for a goroutine that has left, or that cannot be told to.
THEOREM StopWaitsForLiving == Spec => []WaitsForLoops
<1>1. Init => WaitAfterClose
  BY DEF Init, WaitAfterClose
<1>2. LifecycleInv /\ WaitAfterClose /\ [Next]_vars => WaitAfterClose'
  <2> SUFFICES ASSUME LifecycleInv, WaitAfterClose, [Next]_vars PROVE WaitAfterClose'
    OBVIOUS
  <2>1. pc \in [Caller -> {"idle", "spawn", "close", "wait"}]
    BY DEF LifecycleInv, LifecycleTypeOK
  <2>2. ASSUME NEW c \in Caller, Start(c) \/ Stop(c) \/ Close(c) \/ WaitReturns(c)
        PROVE  WaitAfterClose'
    BY <2>1, <2>2 DEF WaitAfterClose, Start, Stop, Close, WaitReturns
  <2>3. ASSUME NEW c \in Caller, NEW l \in Loop, Spawn(c, l) PROVE WaitAfterClose'
    BY <2>1, <2>3 DEF WaitAfterClose, Spawn
  <2>4. CASE UNCHANGED <<pc, closed>>
    BY <2>4 DEF WaitAfterClose
  <2>5. \/ \E c \in Caller : \/ Start(c) \/ Stop(c) \/ Close(c) \/ WaitReturns(c)
                           \/ \E l \in Loop : Spawn(c, l)
        \/ UNCHANGED <<pc, closed>>
    BY DEF Next, vars, CancelContext, LoopTick, LoopRoundDone, LoopReturns
  <2> QED BY <2>2, <2>3, <2>4, <2>5
<1>3. LifecycleInv /\ WaitAfterClose => WaitsForLoops
  BY DEF LifecycleInv, WaitGroupCounts, WaitAfterClose, WaitsForLoops
<1> QED BY <1>1, <1>2, <1>3, LifecycleInvariant, PTL DEF Spec

\* However calls overlap, every living loop is one that Stop can reach or one that a
\* Stop has told to return and waits for.
THEOREM LoopsStayHeld == Spec => []LoopsAreHeld
<1>1. EveryLoopStoppable /\ WaitsForLoops => LoopsAreHeld
  BY DEF LoopsAreHeld
<1> QED BY <1>1, LoopsStayStoppable, StopWaitsForLiving, PTL

\* Stop of the poller returns only after every polling goroutine has.
THEOREM StopIsQuiet == Spec => StopWaitsForLoops
<1>1. ASSUME LifecycleInv, [Next]_vars
      PROVE  [\A c \in Caller : pc[c] = "wait" /\ pc'[c] = "idle" => Live = {}]_vars
  <2> SUFFICES ASSUME NEW c \in Caller, pc[c] = "wait", pc'[c] = "idle" PROVE Live = {}
    OBVIOUS
  <2>1. wg = 0
    BY <1>1 DEF Next, vars, LifecycleInv, LifecycleTypeOK, Start, Spawn, Stop, Close,
                WaitReturns, CancelContext, LoopTick, LoopRoundDone, LoopReturns
  <2>2. Cardinality(Live) = 0
    BY <1>1, <2>1 DEF LifecycleInv, WaitGroupCounts
  <2> QED BY <2>2, LiveIsFinite, FS_EmptySet
<1> QED BY <1>1, LifecycleInvariant, PTL DEF Spec, StopWaitsForLoops
=============================================================================
