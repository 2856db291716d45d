------------------------------- MODULE Budget -------------------------------
(***************************************************************************)
(* The request budget of one run (core/budget.py): pure arithmetic over    *)
(* what the gateway counted.  The reserve is a tail of the limit that      *)
(* planned work may not touch.                                             *)
(***************************************************************************)
EXTENDS Integers

CONSTANTS
  HardCap,      \* budget.hard_cap
  Requested,    \* budget.per_run_requests, or --budget N
  WantedReserve \* budget.reserve

ASSUME BudgetAssumption ==
  HardCap \in Nat \ {0} /\ Requested \in Int /\ WantedReserve \in Nat

Least(a, b) == IF a <= b THEN a ELSE b
Most(a, b)  == IF a >= b THEN a ELSE b

\* Budget.clamp and _budget_for: the limit never exceeds the hard cap, the reserve
\* never the limit.
Limit   == Least(Most(Requested, 0), HardCap)
Reserve == Least(WantedReserve, Most(Limit - 1, 0))

\* What planned work may spend in all.
Planned == Limit - Reserve

CanAfford(used, cost) == used + cost <= Planned
Spendable(used) == Most(Planned - used, 0)
Overspent(used) == Most(used - Limit, 0)

\* tree_cost: the base request and one for every expansion.
TreeCost(moreLimit) == 1 + moreLimit
=============================================================================
