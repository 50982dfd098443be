-------------------------------- MODULE Sums --------------------------------
(***************************************************************************)
(* Sums with the summand as a function, which is a value: the form that     *)
(* lemmas can be stated about.                                             *)
(***************************************************************************)
EXTENDS Integers, FiniteSetsExt

SumOver(f, S) == MapThenSumSet(LAMBDA x : f[x], S)

\* The running totals of f[1], f[2], ..., f[n], added in this order.
Totals(f, n) ==
  LET total[k \in 0..n] == IF k = 0 THEN 0 ELSE total[k - 1] + f[k]
  IN total
=============================================================================
