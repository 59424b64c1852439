----------------------------- MODULE MCBilling -----------------------------
(* A small instance of the billing account for TLC. *)
EXTENDS BillingLedger, FiniteSetsExt, TLC

SumOfUsages(held) == MapThenSumSet(LAMBDA u : held[u], Usages)

\* A plan with included credits and a credit limit.
SmallAllowance == [p \in Plans |-> [balance |-> 2, limit |-> 1]]

\* Nothing, a debt in either balance, a lowered limit, used credit set back.
SmallEdits ==
    { [f \in {} |-> 0],
      [f \in {"wallet"} |-> -1],
      [f \in {"balance"} |-> -1],
      [f \in {"limit"} |-> 1],
      [f \in {"used", "limit"} |-> IF f = "used" THEN 0 ELSE 2] }

UsageSymmetry == Permutations(Usages)

SmallDeltas == {-2, 1}
=============================================================================
