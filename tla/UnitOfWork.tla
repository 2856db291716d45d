----------------------------- MODULE UnitOfWork -----------------------------
(***************************************************************************)
(* What the callers of fetch_with_ladder rely on.  A unit of work (a page, *)
(* a tree) is begun only inside the planned budget; while it runs the      *)
(* gateway counts requests, at most Tries for each one planned; when it is *)
(* over the budget says exactly what the gateway counted, and the unit has *)
(* either an answer, a failure of its own, or the status the whole run     *)
(* ends with, after which nothing is begun.                                *)
(***************************************************************************)
EXTENDS Budget

CONSTANTS MaxCost,     \* the most requests one unit is planned for
          Tries,       \* the most requests it makes for each one planned
          EndStatuses  \* the statuses a unit may end a run with

VARIABLES requests, used, busy, cost, spent, verdict

TypeOK ==
  /\ requests \in Nat /\ used \in Nat /\ busy \in BOOLEAN /\ cost \in 0 .. MaxCost
  /\ spent \in Nat
  /\ verdict \in EndStatuses \cup {"none"}

Init == requests = 0 /\ used = 0 /\ busy = FALSE /\ cost = 0 /\ spent = 0 /\ verdict = "none"

Begin(c) ==
  /\ ~busy /\ verdict = "none" /\ used = requests
  /\ CanAfford(used, c)
  /\ busy' = TRUE /\ cost' = c /\ spent' = 0
  /\ UNCHANGED <<requests, used, verdict>>

Spend(n) ==
  /\ busy /\ spent + n <= Tries * cost
  /\ requests' = requests + n /\ spent' = spent + n
  /\ UNCHANGED <<used, busy, cost, verdict>>

\* Between two tries.
Sync ==
  /\ busy /\ used' = requests
  /\ UNCHANGED <<requests, busy, cost, spent, verdict>>

\* The last request and the end of the unit are one step of the caller's.
Finish(n) ==
  /\ busy /\ spent + n <= Tries * cost
  /\ requests' = requests + n /\ spent' = spent + n
  /\ used' = requests' /\ busy' = FALSE
  /\ verdict' \in EndStatuses \cup {"none"}
  /\ UNCHANGED cost

Next ==
  \/ \E c \in 1 .. MaxCost : Begin(c)
  \/ \E n \in 1 .. Tries * cost : Spend(n) \/ Finish(n)
  \/ Sync

Spec == Init /\ [][Next]_<<requests, used, busy, cost, spent, verdict>>
=============================================================================
