---------------------------- MODULE FetchLadder ----------------------------
(***************************************************************************)
(* One run's units of work, one after another, through fetch_with_ladder:  *)
(* the retries of a transient failure, the one wait for a 429, the end of  *)
(* the whole run, the heartbeat that announces each pause, the request     *)
(* budget and the wall-clock ceiling.  A unit is a listing page or a       *)
(* comment tree; a tree is several GETs, and a failed attempt makes them   *)
(* all again.                                                              *)
(***************************************************************************)
EXTENDS Budget, Sequences

CONSTANTS
  Ladder,       \* RetryPolicy.ladder_seconds
  DefaultWait, MaxWait,   \* DEFAULT_ and MAX_RATE_LIMIT_WAIT_SECONDS
  Ceiling,      \* the run's wall-clock ceiling, counted from its start
  BeatEvery,    \* HEARTBEAT_INTERVAL_SECONDS
  StaleAfter,   \* run.stale_after_minutes: when doctor calls a beat too old
  MoreLimit,    \* min(replace_more_limit, per_post_expansion_cap)
  RetryAfters,  \* the Retry-After values Reddit sends; Null for none
  PerGet,       \* bound: requests one GET may take (token refresh, the library's retries)
  Latency,      \* bound: time one GET may take
  Null

ASSUME LadderAssumption ==
  /\ Ladder \in Seq(Nat)
  /\ \A i, j \in DOMAIN Ladder : i < j => Ladder[i] <= Ladder[j]
  /\ {DefaultWait, MaxWait, PerGet} \subseteq Nat \ {0}
  /\ {Ceiling, BeatEvery, StaleAfter, MoreLimit, Latency} \subseteq Nat
  /\ BeatEvery <= StaleAfter
  /\ Null \notin Int /\ RetryAfters \subseteq Int \cup {Null}

VARIABLES
  now,        \* the clock, from the run's start
  requests,   \* gateway.requests_made
  used,       \* ctx.budget.used
  phase,      \* "idle", "fetching", or the sleep it is in: "rate_wait", "retry"
  cost,       \* the requests the unit in hand was planned for, one a GET
  left,       \* GETs this attempt still needs
  attempt, limited,   \* fetch_with_ladder's locals
  wake,       \* when the sleep ends
  stage, beatAt,      \* runs.stage and heartbeat_at
  verdict,    \* the status a RunTerminalError carries, "none" for no such error
  spent, paused       \* history: requests made and time slept for the unit in hand

unitVars == <<cost, attempt, limited>>
vars == <<now, requests, used, phase, unitVars, left, wake, stage, beatAt, verdict, spent, paused>>

Sleeps == {"rate_wait", "retry"}

\* A stage is what the unit is at, and for how long.
Working == <<"work", 0>>
EndStatuses == {"rate_limited", "failed", "network"}
MaxAttempts == Len(Ladder) + 1

\* What the first n rungs take.
Climbed[n \in 0 .. Len(Ladder)] == IF n = 0 THEN 0 ELSE Climbed[n - 1] + Ladder[n]
TotalDelay == Climbed[Len(Ladder)]

TypeOK ==
  /\ {now, requests, used, cost, left, wake, beatAt, spent, paused} \subseteq Nat
  /\ phase \in {"idle", "fetching"} \cup Sleeps
  /\ attempt \in 1 .. MaxAttempts
  /\ limited \in BOOLEAN
  /\ stage \in ({"work"} \cup Sleeps) \X Nat
  /\ verdict \in EndStatuses \cup {"none"}

Init ==
  /\ now = 0 /\ requests = 0 /\ used = 0 /\ phase = "idle"
  /\ cost = 0 /\ left = 0 /\ attempt = 1 /\ limited = FALSE /\ wake = 0
  /\ stage = Working /\ beatAt = 0 /\ verdict = "none" /\ spent = 0 /\ paused = 0

-----------------------------------------------------------------------------
(* Helpers.                                                                 *)

\* Slip: the throttle holds for a changed stage too.
Beat_Throttled(s) ==
  IF now' - beatAt < BeatEvery THEN UNCHANGED <<stage, beatAt>>
  ELSE stage' = s /\ beatAt' = now'

\* heartbeat: a changed stage is always written, a repeated one after BeatEvery.
Beat(s) ==
  IF s = stage /\ now' - beatAt < BeatEvery THEN UNCHANGED <<stage, beatAt>>
  ELSE stage' = s /\ beatAt' = now'

Remaining(t) == Most(Ceiling - t, 0)

\* plan_rate_limit_wait: a missing or useless Retry-After counts as absent.
RateWait(retryAfter) ==
  Least(IF retryAfter = Null THEN DefaultWait
        ELSE IF retryAfter <= 0 THEN DefaultWait ELSE retryAfter, MaxWait)

\* Slip: the last rung is climbed twice.
NextDelay_OneMore(n) == IF n <= Len(Ladder) + 1 THEN Ladder[Least(n, Len(Ladder))] ELSE Null

\* next_delay: Null when the ladder is walked.
NextDelay(n) == IF n <= Len(Ladder) THEN Ladder[n] ELSE Null

-----------------------------------------------------------------------------
(* The callers' boundary.                                                   *)

\* _interrupted_before_page: a page is one GET.
BeginPage ==
  /\ phase = "idle" /\ verdict = "none"
  /\ now < Ceiling /\ CanAfford(used, 1)
  /\ cost' = 1 /\ UNCHANGED now

\* Slip: the base request is not set aside.
PlanFetch_NoBase == Least(MoreLimit, Spendable(used))

\* plan_fetch: as many expansions as the limits and what is left above the base request.
PlanFetch == Least(MoreLimit, Most(Spendable(used) - 1, 0))

\* _stopped_before and _collect_one.
BeginTree ==
  /\ phase = "idle" /\ verdict = "none"
  /\ now < Ceiling /\ CanAfford(used, 1)
  /\ cost' = TreeCost(PlanFetch) /\ UNCHANGED now

Begin ==
  /\ BeginPage \/ BeginTree
  /\ stage' = Working /\ beatAt' = now   \* the unit's name: never the stage before
  /\ phase' = "fetching" /\ left' \in 1 .. cost'
  /\ attempt' = 1 /\ limited' = FALSE /\ spent' = 0 /\ paused' = 0
  /\ UNCHANGED <<requests, used, wake, verdict>>

-----------------------------------------------------------------------------
(* One attempt.                                                             *)

\* One GET through the session, which counts every round-trip, failed ones included.
Get ==
  \E n \in 1 .. PerGet, t \in 0 .. Latency :
    /\ requests' = requests + n /\ spent' = spent + n /\ now' = now + t

Answered ==
  /\ phase = "fetching" /\ left > 1 /\ Get
  /\ left' = left - 1
  /\ UNCHANGED <<used, phase, unitVars, wake, stage, beatAt, verdict, paused>>

\* The unit is over; `finally` syncs the budget on every way out.
Leave(v) ==
  /\ phase' = "idle" /\ used' = Most(used, requests') /\ verdict' = v
  /\ UNCHANGED <<unitVars, left, wake, stage, beatAt, paused>>

Returns == phase = "fetching" /\ left = 1 /\ Get /\ Leave("none")

\* The pause is announced before it is slept; the budget is synced after it.
Pause(s, seconds) ==
  /\ Beat(<<s, seconds>>)
  /\ phase' = s /\ wake' = now' + seconds /\ paused' = paused + seconds
  /\ UNCHANGED <<used, cost, left, verdict>>

\* Slip: the wait is taken whatever is left of the ceiling.
WaitsOut_PastTheCeiling(wait, remaining) == TRUE

WaitsOut(wait, remaining) == wait <= remaining

\* Slip: every 429 is waited for.
SecondLimit_Waits == FALSE

SecondLimit == limited

\* A 429: one wait a unit, if it fits the ceiling; it costs no attempt.
RateLimited(retryAfter) ==
  /\ phase = "fetching" /\ Get
  /\ IF ~SecondLimit /\ WaitsOut(RateWait(retryAfter), Remaining(now'))
     THEN Pause("rate_wait", RateWait(retryAfter)) /\ limited' = TRUE /\ UNCHANGED attempt
     ELSE Leave("rate_limited")

\* An edge block, and rejected credentials, end the run.
Refused == phase = "fetching" /\ Get /\ Leave("failed")

\* A failure of this unit alone: a private or missing source, an unreadable answer.
Fatal == phase = "fetching" /\ Get /\ Leave("none")

Climb == attempt' = attempt + 1

\* A transient failure or no network: the next rung, or the end of the unit, or of the run.
Transient(down) ==
  /\ phase = "fetching" /\ Get
  /\ IF NextDelay(attempt) # Null
     THEN Pause("retry", NextDelay(attempt)) /\ Climb /\ UNCHANGED limited
     ELSE Leave(IF down THEN "network" ELSE "none")

Tick ==
  /\ phase \in Sleeps /\ now < wake /\ now' = now + 1
  /\ UNCHANGED <<requests, used, phase, unitVars, left, wake, stage, beatAt, verdict, spent, paused>>

\* Slip: the next attempt waits for a budget that only shrinks.
Wake_Affordable ==
  /\ phase \in Sleeps /\ now = wake
  /\ used' = Most(used, requests)
  /\ \/ CanAfford(used', 1) /\ phase' = "fetching" /\ left' \in 1 .. cost
     \/ ~CanAfford(used', 1) /\ UNCHANGED <<phase, left>>
  /\ UNCHANGED <<now, requests, unitVars, wake, stage, beatAt, verdict, spent, paused>>

\* sync_budget: never down.
Wake ==
  /\ phase \in Sleeps /\ now = wake
  /\ used' = Most(used, requests)
  /\ phase' = "fetching" /\ left' \in 1 .. cost
  /\ UNCHANGED <<now, requests, unitVars, wake, stage, beatAt, verdict, spent, paused>>

\* The run goes on to other work, or closes.
Ended ==
  /\ phase = "idle"
  /\ verdict # "none" \/ now >= Ceiling \/ ~CanAfford(used, 1)
  /\ UNCHANGED vars

Next ==
  \/ Begin \/ Ended \/ Answered \/ Returns \/ Refused \/ Fatal \/ Tick \/ Wake
  \/ \E r \in RetryAfters : RateLimited(r)
  \/ \E down \in BOOLEAN : Transient(down)

Spec == Init /\ [][Next]_vars

\* Sleeps end, and a GET is answered or times out.
FairSpec == Spec /\ WF_vars(phase # "idle" /\ Next)

-----------------------------------------------------------------------------
(* Properties.                                                              *)

\* The most requests for one planned GET: every attempt, and the one more that the 429
\* adds, makes every GET again.
Tries == (MaxAttempts + 1) * PerGet

\* The ladder implements what its callers rely on: a budget in step with the gateway's
\* counter at every boundary, bounded spending, and nothing begun after a terminal error.
Contract == INSTANCE UnitOfWork WITH
  MaxCost <- TreeCost(MoreLimit), Tries <- Tries, busy <- phase # "idle"

ImplementsContract == Contract!Spec

\* Whatever the mix of 429s and transient failures, a unit sleeps at most its ladder and
\* one rate-limit wait.
PausesAreBounded == paused <= TotalDelay + MaxWait

\* A run never sleeps for a 429 beyond its ceiling (plan_rate_limit_wait): it ends instead.
RateWaitsFitTheCeiling == phase = "rate_wait" => wake <= Ceiling

\* Together: what a unit of work may cost in time.
LadderIsBounded == TypeOK /\ PausesAreBounded /\ RateWaitsFitTheCeiling

\* check_lock_not_stale's clauses D1 and D2, on the row as it is now.
LooksAlive ==
  \/ now - beatAt <= StaleAfter
  \/ stage[1] = "rate_wait" /\ now - beatAt <= MaxWait + StaleAfter

\* doctor never takes a run that waits out a 429 for a hung one, whatever the stage was a
\* moment before and however long the wait is.
RateWaitsLookAlive == phase = "rate_wait" => LooksAlive

\* Every unit of work ends, whatever Reddit answers.
UnitsEnd == phase # "idle" ~> phase = "idle"
=============================================================================
