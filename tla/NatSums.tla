------------------------------ MODULE NatSums ------------------------------
(***************************************************************************)
(* The sum of a function over 1..n.  It stands for SQLite's SUM over the   *)
(* rows of the cost ledger (CostStore.spend_since) and for Python's sum    *)
(* over the table of holds (BudgetEnforcer._held_for).  It is a recursive  *)
(* function and not a fold, so that NatSumLemmas can prove facts about it. *)
(***************************************************************************)
LOCAL INSTANCE Integers

\* f[1] + ... + f[n]
Sum(f, n) ==
  LET part[i \in 0..n] == IF i = 0 THEN 0 ELSE part[i - 1] + f[i]
  IN  part[n]
=============================================================================
