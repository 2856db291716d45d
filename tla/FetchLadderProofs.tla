-------------------------- MODULE FetchLadderProofs --------------------------
(***************************************************************************)
(* That the ladder implements UnitOfWork, and that a wait for a 429 never  *)
(* looks hung, for any ladder, waits, ceiling, budget and answers.  The    *)
(* bound on a unit's requests is not inductive as it stands: what it has   *)
(* spent depends on the attempts behind it and on the GETs this attempt    *)
(* has left.  Nor is the bound on its pauses: what it has slept is the sum *)
(* of the rungs below the attempt it is at.                                *)
(***************************************************************************)
EXTENDS FetchLadder, FiniteSetTheorems, WellFoundedInduction, TLAPS

Types ==
  /\ now \in Nat /\ requests \in Nat /\ used \in Nat /\ wake \in Nat /\ beatAt \in Nat
  /\ spent \in Nat /\ left \in Nat
  /\ cost \in 0 .. TreeCost(MoreLimit)
  /\ phase \in {"idle", "fetching"} \cup Sleeps
  /\ attempt \in 1 .. MaxAttempts
  /\ limited \in BOOLEAN
  /\ verdict \in EndStatuses \cup {"none"}

\* The budget is never ahead of the gateway, and in step with it between two units.
Synced == used <= requests /\ (phase = "idle" => used = requests)

\* Attempts of the unit in hand that are over: one for each rung, one for the 429.
Over == attempt - 1 + (IF limited THEN 1 ELSE 0)

\* Every attempt that is over cost at most all its GETs, the one in hand those it has made.
Counted ==
  /\ phase = "fetching" => left \in 1 .. cost /\ spent <= PerGet * (Over * cost + (cost - left))
  /\ phase \in Sleeps   => 1 <= cost /\ Over <= MaxAttempts /\ spent <= PerGet * (Over * cost)

\* The row says what is waited for, since a beat that is not too old.
Announced ==
  phase = "rate_wait" => /\ stage[1] = "rate_wait"
                         /\ now <= wake /\ wake - beatAt <= MaxWait + BeatEvery

IInv == Types /\ Synced /\ Counted /\ Announced

-----------------------------------------------------------------------------
(* Arithmetic.                                                              *)

\* One more of x.
LEMMA OneMore == ASSUME NEW x \in Nat, NEW y \in Nat PROVE x * (y + 1) = x * y + x /\ x * y \in Nat
  OBVIOUS

\* What remains after some of it.
LEMMA Remains == ASSUME NEW x \in Nat, NEW y \in 1 .. x PROVE x - y \in Nat
  OBVIOUS

\* A product grows with its factor.
LEMMA Grows == ASSUME NEW x \in Nat, NEW y \in Nat, NEW z \in Nat, y <= z PROVE x * y <= x * z
<1>1. PICK d \in Nat : z = y + d
  <2>1. z - y \in Nat /\ z = y + (z - y)
    OBVIOUS
  <2> QED BY <2>1
<1>2. x * z = x * y + x * d /\ x * d \in Nat /\ x * y \in Nat
  BY <1>1
<1> QED BY <1>2

\* The constants, as numbers.
LEMMA Numbers ==
  /\ PerGet \in Nat /\ PerGet > 0 /\ MoreLimit \in Nat /\ MaxWait \in Nat /\ DefaultWait \in Nat
  /\ BeatEvery \in Nat /\ StaleAfter \in Nat /\ BeatEvery <= StaleAfter
  /\ Len(Ladder) \in Nat /\ MaxAttempts \in Nat /\ MaxAttempts = Len(Ladder) + 1
  /\ 1 \in 1 .. MaxAttempts /\ 0 \in 0 .. TreeCost(MoreLimit)
  /\ \A n \in 1 .. Len(Ladder) : Ladder[n] \in Nat
  /\ TreeCost(MoreLimit) \in Nat /\ Limit \in Nat /\ Reserve \in Nat /\ Planned \in Int
<1>1. Ladder \in Seq(Nat)
  BY LadderAssumption
<1>2. Len(Ladder) \in Nat /\ \A n \in 1 .. Len(Ladder) : Ladder[n] \in Nat
  BY <1>1
<1> QED BY <1>2, LadderAssumption, BudgetAssumption
        DEF MaxAttempts, TreeCost, Limit, Reserve, Planned, Least, Most

\* A wait for a 429 is a number up to MaxWait.
LEMMA WaitIsBounded ==
  ASSUME NEW r \in RetryAfters PROVE RateWait(r) \in Nat /\ RateWait(r) <= MaxWait
  BY Numbers, LadderAssumption DEF RateWait, Least

\* A unit in hand has made fewer requests than the contract allows it, one GET included.
LEMMA WithinTries ==
  ASSUME IInv, phase = "fetching", NEW n \in 1 .. PerGet
  PROVE  /\ spent + n <= PerGet * (Over * cost + (cost - left) + 1)
         /\ spent + n <= PerGet * ((Over + 1) * cost)
         /\ spent + n <= Tries * cost
         /\ n \in 1 .. Tries * cost
         /\ Over \in Nat /\ Over <= MaxAttempts
<1>1. cost \in Nat /\ left \in 1 .. cost /\ spent \in Nat /\ PerGet \in Nat /\ MaxAttempts \in Nat
  BY Numbers DEF IInv, Types, Counted
<1>2. Over \in Nat /\ Over <= MaxAttempts
  BY Numbers DEF IInv, Types, Over
<1> HIDE DEF Over
<1> DEFINE X == Over * cost + (cost - left)
<1>3. Over * cost \in Nat /\ X \in Nat
  BY <1>1, <1>2
<1>4. spent <= PerGet * X
  BY DEF IInv, Counted
<1>5. (Over + 1) * cost = Over * cost + cost /\ (Over + 1) * cost \in Nat
  BY <1>1, <1>2
<1>6. X + 1 <= (Over + 1) * cost
  BY <1>1, <1>3, <1>5
<1> HIDE DEF X
<1>7. PerGet * (X + 1) = PerGet * X + PerGet /\ PerGet * X \in Nat
  BY <1>1, <1>3, OneMore
<1>8. spent + n <= PerGet * (X + 1)
  BY <1>1, <1>4, <1>7
<1>9. PerGet * (X + 1) <= PerGet * ((Over + 1) * cost)
  BY <1>1, <1>3, <1>5, <1>6, Grows
<1>10. (Over + 1) * cost <= (MaxAttempts + 1) * cost /\ (MaxAttempts + 1) * cost \in Nat
  <2>1. cost * (Over + 1) <= cost * (MaxAttempts + 1)
    BY <1>1, <1>2, Grows
  <2> QED BY <1>1, <1>2, <2>1
<1>11. PerGet * ((Over + 1) * cost) <= PerGet * ((MaxAttempts + 1) * cost)
  BY <1>1, <1>5, <1>10, Grows
<1>12. PerGet * ((MaxAttempts + 1) * cost) = Tries * cost /\ Tries * cost \in Nat
  BY <1>1 DEF Tries
<1>13. PerGet * (X + 1) \in Nat /\ PerGet * ((Over + 1) * cost) \in Nat
  BY <1>1, <1>3, <1>5
<1>14. spent + n <= PerGet * ((Over + 1) * cost)
  BY <1>1, <1>8, <1>9, <1>13
<1>15. spent + n <= Tries * cost
  BY <1>1, <1>11, <1>12, <1>13, <1>14
<1> QED BY <1>1, <1>2, <1>8, <1>12, <1>14, <1>15 DEF X
-----------------------------------------------------------------------------
(* The steps: each keeps the invariant and is one of the contract's.        *)

\* A GET takes time and some requests.
LEMMA GetMeans ==
  ASSUME IInv, Get
  PROVE  /\ now' \in Nat
         /\ \E n \in 1 .. PerGet : requests' = requests + n /\ spent' = spent + n
  BY DEF IInv, Types, Get

\* The end of a unit, with what the run's status becomes.
LEMMA Leaving ==
  ASSUME IInv, phase = "fetching", Get, NEW v \in EndStatuses \cup {"none"}, Leave(v)
  PROVE  IInv' /\ Contract!Next
<1>1. PICK n \in 1 .. PerGet : requests' = requests + n /\ spent' = spent + n
  BY GetMeans
<1>2. n \in 1 .. Tries * cost /\ spent + n <= Tries * cost /\ n \in Nat
  BY WithinTries, Numbers
<1>3. requests' \in Nat /\ spent' \in Nat /\ used' = requests'
  BY <1>1, <1>2 DEF IInv, Types, Synced, Leave, Most
<1>4. Types' /\ Synced'
  BY <1>3, GetMeans DEF IInv, Types, Synced, Leave, unitVars
<1>5. Counted' /\ Announced'
  BY DEF Leave, Counted, Announced, Sleeps
<1>6. Contract!Finish(n)
  BY <1>1, <1>2, <1>3 DEF Contract!Finish, Leave, unitVars
<1> QED BY <1>2, <1>4, <1>5, <1>6 DEF IInv, Contract!Next

\* A beat is written, or the one there is is recent and says the same.
LEMMA Beating ==
  ASSUME now' \in Nat, beatAt \in Nat, NEW s, Beat(s)
  PROVE  stage'[1] = s[1] /\ beatAt' \in Nat /\ now' - beatAt' <= BeatEvery
<1>1. PICK t \in Nat : t = now'
  OBVIOUS
<1>2. CASE s = stage /\ now' - beatAt < BeatEvery
  <2>1. stage' = s /\ beatAt' = beatAt /\ t - beatAt < BeatEvery
    BY <1>1, <1>2 DEF Beat
  <2>2. t - beatAt <= BeatEvery
    BY <2>1, Numbers
  <2> QED BY <1>1, <2>1, <2>2
<1>3. CASE ~(s = stage /\ now' - beatAt < BeatEvery)
  <2>1. stage' = s /\ beatAt' = t
    BY <1>1, <1>3 DEF Beat
  <2>2. t - t <= BeatEvery
    BY Numbers
  <2> QED BY <1>1, <2>1, <2>2
<1> QED BY <1>2, <1>3

\* A pause after a failed attempt, one more that is over.
LEMMA Pausing ==
  ASSUME IInv, phase = "fetching", Get, NEW s \in Sleeps, NEW seconds \in Nat, Pause(s, seconds),
         s = "rate_wait" => seconds <= MaxWait,
         attempt' \in 1 .. MaxAttempts, limited' \in BOOLEAN,
         Over' = Over + 1, Over' <= MaxAttempts
  PROVE  IInv' /\ Contract!Next
<1>1. PICK n \in 1 .. PerGet : requests' = requests + n /\ spent' = spent + n
  BY GetMeans
<1>2. /\ n \in 1 .. Tries * cost /\ spent + n <= Tries * cost /\ n \in Nat
      /\ spent + n <= PerGet * ((Over + 1) * cost)
  BY WithinTries, Numbers
<1>3. /\ phase' = s /\ wake' = now' + seconds
      /\ UNCHANGED <<used, cost, left, verdict>>
  BY DEF Pause
<1>4. /\ now' \in Nat /\ requests' \in Nat /\ spent' \in Nat /\ requests' >= requests
      /\ beatAt \in Nat /\ used \in Nat
  BY <1>1, <1>2, GetMeans DEF IInv, Types
<1>5. stage'[1] = s /\ beatAt' \in Nat /\ now' - beatAt' <= BeatEvery
  <2>1. Beat(<<s, seconds>>)
    BY DEF Pause
  <2> QED BY <1>4, <2>1, Beating
<1>6. Types'
  <2>1. left' \in Nat /\ cost' \in 0 .. TreeCost(MoreLimit) /\ verdict' \in EndStatuses \cup {"none"}
    BY <1>3 DEF IInv, Types
  <2>2. wake' \in Nat
    <3>1. PICK t \in Nat : t = now'
      BY <1>4
    <3>2. t + seconds \in Nat
      OBVIOUS
    <3> QED BY <1>3, <3>1, <3>2
  <2>3. used' \in Nat /\ phase' \in Sleeps
    BY <1>3, <1>4
  <2> QED BY <1>4, <1>5, <2>1, <2>2, <2>3 DEF Types
<1>7. Synced'
  <2>1. used <= requests
    BY DEF IInv, Synced
  <2>2. requests \in Nat /\ used' = used /\ phase' # "idle"
    BY <1>3 DEF IInv, Types, Sleeps
  <2> QED BY <1>4, <2>1, <2>2 DEF Synced
<1>8. Counted'
  <2>1. phase' # "fetching" /\ 1 <= cost
    BY <1>3, Numbers DEF IInv, Types, Counted, Sleeps
  <2>2. Over' * cost' = (Over + 1) * cost
    BY <1>3
  <2>3. spent' <= PerGet * (Over' * cost')
    BY <1>1, <1>2, <2>2
  <2> QED BY <1>3, <2>1, <2>3 DEF Counted
<1>9. Announced'
  <2>1. PICK t \in Nat : t = now'
    BY <1>4
  <2>2. PICK b \in Nat : b = beatAt'
    BY <1>5
  <2>3. wake' = t + seconds /\ t - b <= BeatEvery
    BY <1>3, <1>5, <2>1, <2>2
  <2>4. t <= t + seconds /\ (seconds <= MaxWait => (t + seconds) - b <= MaxWait + BeatEvery)
    BY <2>3, Numbers
  <2> QED BY <1>3, <1>5, <2>1, <2>2, <2>3, <2>4 DEF Announced
<1>10. Contract!Spend(n)
  BY <1>1, <1>2, <1>3 DEF Contract!Spend, Sleeps
<1> QED BY <1>2, <1>6, <1>7, <1>8, <1>9, <1>10 DEF IInv, Contract!Next

\* What a caller begins is a page or a tree that the budget affords, and no more than one tree.
LEMMA Beginning ==
  ASSUME IInv, Begin
  PROVE  IInv' /\ Contract!Next
<1>1. cost' \in 1 .. TreeCost(MoreLimit) /\ used + cost' <= Planned /\ now' = now
  <2>1. CASE BeginPage
    BY <2>1, Numbers DEF BeginPage, CanAfford, TreeCost, IInv, Types
  <2>2. CASE BeginTree
    BY <2>2, Numbers DEF BeginTree, CanAfford, TreeCost, PlanFetch, Spendable, Least, Most, IInv, Types
  <2> QED BY <2>1, <2>2 DEF Begin
<1>2. phase = "idle" /\ verdict = "none" /\ phase' = "fetching"
  BY DEF Begin, BeginPage, BeginTree
<1>3. left' \in 1 .. cost' /\ attempt' = 1 /\ limited' = FALSE /\ spent' = 0
  BY DEF Begin
<1>4. UNCHANGED <<requests, used, wake, verdict>> /\ beatAt' = now
  BY <1>1 DEF Begin
<1>5. Types'
  <2>1. cost' \in 0 .. TreeCost(MoreLimit) /\ left' \in Nat /\ spent' \in Nat
    BY <1>1, <1>3, Numbers
  <2>2. attempt' \in 1 .. MaxAttempts /\ limited' \in BOOLEAN
    BY <1>3, Numbers
  <2>3. /\ now' \in Nat /\ beatAt' \in Nat /\ requests' \in Nat /\ used' \in Nat /\ wake' \in Nat
        /\ verdict' \in EndStatuses \cup {"none"}
    BY <1>1, <1>4 DEF IInv, Types
  <2> QED BY <1>2, <2>1, <2>2, <2>3 DEF Types
<1>6. Synced' /\ Announced'
  BY <1>2, <1>4 DEF IInv, Synced, Announced
<1>7. Counted'
  <2>1. Over' = 0
    BY <1>3 DEF Over
  <2>2. Over' * cost' + (cost' - left') \in Nat
    <3>1. PICK c \in Nat : c = cost'
      BY <1>1, Numbers
    <3>2. PICK l \in 1 .. c : l = left'
      BY <1>3, <3>1
    <3>3. PICK m \in Nat : m = c - l
      BY <3>2, Remains
    <3>4. 0 * c + m = m
      OBVIOUS
    <3> QED BY <2>1, <3>1, <3>2, <3>3, <3>4
  <2>3. 0 <= PerGet * (Over' * cost' + (cost' - left'))
    BY <2>2, Numbers
  <2> QED BY <1>2, <1>3, <2>3 DEF Counted, Sleeps
<1>8. Contract!Begin(cost')
  BY <1>1, <1>2, <1>3, <1>4
     DEF Contract!Begin, Contract!CanAfford, Contract!Planned, Contract!Limit, Contract!Reserve,
         Contract!Least, Contract!Most, Planned, Limit, Reserve, Least, Most, IInv, Synced
<1> QED BY <1>1, <1>5, <1>6, <1>7, <1>8 DEF IInv, Contract!Next, Contract!TreeCost, TreeCost

\* A GET that is not the attempt's last.
LEMMA Answering ==
  ASSUME IInv, Answered
  PROVE  IInv' /\ Contract!Next
<1>1. phase = "fetching" /\ Get
  BY DEF Answered
<1>2. PICK n \in 1 .. PerGet : requests' = requests + n /\ spent' = spent + n
  BY <1>1, GetMeans
<1>3. /\ n \in 1 .. Tries * cost /\ spent + n <= Tries * cost /\ n \in Nat
      /\ spent + n <= PerGet * (Over * cost + (cost - left) + 1)
  BY <1>1, WithinTries, Numbers
<1>4. /\ left' = left - 1 /\ left > 1
      /\ UNCHANGED <<used, phase, unitVars, wake, stage, beatAt, verdict>>
  BY DEF Answered
<1>5. left \in 1 .. cost /\ cost \in Nat
  BY <1>1, Numbers DEF IInv, Types, Counted
<1>6. Types' /\ Synced'
  BY <1>1, <1>2, <1>3, <1>4, <1>5, GetMeans DEF IInv, Types, Synced, unitVars
<1>7. Counted' /\ Announced'
  <2>1. Over' = Over /\ cost' = cost
    BY <1>4 DEF Over, unitVars
  <2>2. cost - left' = cost - left + 1 /\ left' \in 1 .. cost
    BY <1>4, <1>5
  <2>3. Over * cost + (cost - left') = Over * cost + (cost - left) + 1
    <3>1. Over \in Nat /\ Over * cost \in Nat
      BY <1>1, <1>5, WithinTries, Numbers
    <3>2. PICK P \in Nat : P = Over * cost
      BY <3>1
    <3>3. cost - left + 1 \in Nat /\ P + (cost - left + 1) = P + (cost - left) + 1
      BY <1>5
    <3> QED BY <2>2, <3>2, <3>3
  <2> QED BY <1>1, <1>2, <1>3, <1>4, <2>1, <2>2, <2>3 DEF Counted, Announced, Sleeps
<1>8. Contract!Spend(n)
  BY <1>1, <1>2, <1>3, <1>4 DEF Contract!Spend, unitVars
<1> QED BY <1>3, <1>6, <1>7, <1>8 DEF IInv, Contract!Next

\* The end of a sleep: the next attempt makes its GETs again.
LEMMA Waking ==
  ASSUME IInv, Wake
  PROVE  IInv' /\ Contract!Next
<1>1. phase \in Sleeps /\ phase # "idle" /\ phase' = "fetching" /\ left' \in 1 .. cost
  BY DEF Wake, Sleeps
<1>2. used' = requests
  BY DEF Wake, IInv, Types, Synced, Most
<1>3. UNCHANGED <<now, requests, unitVars, wake, stage, beatAt, verdict, spent>>
  BY DEF Wake
<1>4. cost \in Nat /\ Over \in Nat
  BY Numbers DEF IInv, Types, Over
<1>5. Types' /\ Synced' /\ Announced'
  BY <1>1, <1>2, <1>3, <1>4 DEF IInv, Types, Synced, Announced, unitVars
<1>6. Counted'
  <2>1. Over' = Over /\ cost' = cost /\ spent' = spent
    BY <1>3 DEF Over, unitVars
  <2>2. spent <= PerGet * (Over * cost)
    BY <1>1 DEF IInv, Counted
  <2>3. Over * cost \in Nat /\ Over * cost + (cost - left') \in Nat
        /\ Over * cost <= Over * cost + (cost - left')
    <3>1. PICK P \in Nat : P = Over * cost
      BY <1>4
    <3>2. PICK m \in Nat : m = cost - left'
      BY <1>1, <1>4, Remains
    <3>3. P + m \in Nat /\ P <= P + m
      OBVIOUS
    <3> QED BY <3>1, <3>2, <3>3
  <2>4. PerGet * (Over * cost) <= PerGet * (Over * cost + (cost - left'))
    BY <2>3, Grows, Numbers
  <2>5. /\ PerGet * (Over * cost) \in Nat /\ PerGet * (Over * cost + (cost - left')) \in Nat
        /\ spent \in Nat
    BY <2>3, Numbers DEF IInv, Types
  <2>6. spent <= PerGet * (Over * cost + (cost - left'))
    BY <2>2, <2>4, <2>5
  <2> QED BY <1>1, <2>1, <2>6 DEF Counted, Sleeps
<1>7. Contract!Sync
  BY <1>1, <1>2, <1>3 DEF Contract!Sync, unitVars
<1> QED BY <1>5, <1>6, <1>7 DEF IInv, Contract!Next

\* What the contract sees.
Seen == <<requests, used, phase # "idle", cost, spent, verdict>>

\* Every step keeps the invariant and is a step of the contract or hidden from it.
LEMMA Step == IInv /\ [Next]_vars => IInv' /\ (Contract!Next \/ UNCHANGED Seen)
<1> SUFFICES ASSUME IInv, [Next]_vars PROVE IInv' /\ (Contract!Next \/ UNCHANGED Seen)
  OBVIOUS
<1>1. CASE UNCHANGED vars \/ Ended
  BY <1>1 DEF Ended, vars, unitVars, IInv, Types, Synced, Counted, Over, Announced, Seen
<1>2. CASE Tick
  <2>1. now' \in Nat /\ now' <= wake /\ UNCHANGED <<requests, used, phase, unitVars, left, wake,
                                                    stage, beatAt, verdict, spent>>
    BY <1>2 DEF Tick, IInv, Types
  <2> QED BY <2>1 DEF unitVars, IInv, Types, Synced, Counted, Over, Announced, Seen
<1>3. CASE Returns \/ Refused \/ Fatal
  BY <1>3, Leaving DEF Returns, Refused, Fatal, EndStatuses
<1>4. ASSUME NEW r \in RetryAfters, RateLimited(r)
      PROVE  IInv' /\ Contract!Next
  <2>1. phase = "fetching" /\ Get
    BY <1>4 DEF RateLimited
  <2>2. CASE ~SecondLimit /\ WaitsOut(RateWait(r), Remaining(now'))
    <3>1. Pause("rate_wait", RateWait(r)) /\ limited' = TRUE /\ attempt' = attempt /\ ~limited
      BY <1>4, <2>2 DEF RateLimited, SecondLimit
    <3>2. /\ attempt' \in 1 .. MaxAttempts /\ limited' \in BOOLEAN
          /\ Over' = Over + 1 /\ Over' <= MaxAttempts
      BY <3>1, Numbers DEF IInv, Types, Over
    <3> QED BY <2>1, <3>1, <3>2, Pausing, WaitIsBounded DEF Sleeps
  <2>3. CASE ~(~SecondLimit /\ WaitsOut(RateWait(r), Remaining(now')))
    BY <1>4, <2>1, <2>3, Leaving DEF RateLimited, EndStatuses
  <2> QED BY <2>2, <2>3
<1>5. ASSUME NEW down \in BOOLEAN, Transient(down)
      PROVE  IInv' /\ Contract!Next
  <2>1. phase = "fetching" /\ Get
    BY <1>5 DEF Transient
  <2>2. CASE NextDelay(attempt) # Null
    <3>1. Pause("retry", NextDelay(attempt)) /\ attempt' = attempt + 1 /\ limited' = limited
      BY <1>5, <2>2 DEF Transient, Climb
    <3>2. attempt <= Len(Ladder) /\ attempt \in 1 .. Len(Ladder)
      BY <2>2, Numbers DEF NextDelay, IInv, Types
    <3>3. NextDelay(attempt) \in Nat
      BY <3>2, Numbers DEF NextDelay
    <3>4. /\ attempt' \in 1 .. MaxAttempts /\ limited' \in BOOLEAN
          /\ Over' = Over + 1 /\ Over' <= MaxAttempts
      BY <3>1, <3>2, Numbers DEF IInv, Types, Over
    <3> QED BY <2>1, <3>1, <3>3, <3>4, Pausing DEF Sleeps
  <2>3. CASE NextDelay(attempt) = Null
    BY <1>5, <2>1, <2>3, Leaving DEF Transient, EndStatuses
  <2> QED BY <2>2, <2>3
<1> QED BY <1>1, <1>2, <1>3, <1>4, <1>5, Beginning, Answering, Waking DEF Next

\* A run begins with nothing spent.
LEMMA Start == Init => IInv /\ Contract!Init
<1> SUFFICES ASSUME Init PROVE IInv /\ Contract!Init
  OBVIOUS
<1>1. Types
  BY Numbers DEF Init, Types
<1>2. Synced /\ Counted /\ Announced
  BY DEF Init, Synced, Counted, Announced, Sleeps
<1> QED BY <1>1, <1>2 DEF Init, IInv, Contract!Init

\* The ladder implements its contract (fetch_with_ladder and sync_budget as the sweep and the
\* trees rely on them): the budget in step with the gateway between units, at most Tries
\* requests for each one planned, nothing begun without budget or after the end of the run.
THEOREM LadderKeepsContract == Spec => ImplementsContract
<1>1. Init => IInv /\ Contract!Init
  BY Start
<1>2. IInv /\ [Next]_vars => IInv' /\ [Contract!Next]_<<requests, used, phase # "idle", cost, spent, verdict>>
  BY Step DEF Seen
<1> QED BY <1>1, <1>2, PTL DEF Spec, ImplementsContract, Contract!Spec

\* While it waits out a 429 a run never looks hung to doctor (check_lock_not_stale's clauses),
\* whatever stage came before.
THEOREM WaitsLookAlive == Spec => []RateWaitsLookAlive
<1>1. Init => IInv
  BY Start
<1>2. IInv /\ [Next]_vars => IInv'
  BY Step
<1>3. IInv => RateWaitsLookAlive
  BY Numbers DEF IInv, Types, Announced, RateWaitsLookAlive, LooksAlive
<1> QED BY <1>1, <1>2, <1>3, PTL DEF Spec

-----------------------------------------------------------------------------
(* The rungs, added up.                                                     *)

\* Induction on the natural numbers, for a set of them.
LEMMA Induction ==
  ASSUME NEW S, 0 \in S, \A n \in Nat : n \in S => n + 1 \in S
  PROVE  Nat \subseteq S
<1> SUFFICES ASSUME NEW k \in Nat, k \notin S PROVE FALSE
  OBVIOUS
<1> DEFINE Below == {0 .. m : m \in Nat \ S}
<1>1. Below # {} /\ Below \subseteq FiniteSubsetsOf(Nat)
  <2>1. 0 .. k \in Below
    OBVIOUS
  <2>2. ASSUME NEW m \in Nat PROVE 0 .. m \in FiniteSubsetsOf(Nat)
    BY FS_Interval DEF FiniteSubsetsOf
  <2> QED BY <2>1, <2>2
<1>2. IsWellFoundedOn(StrictSubsetOrdering(Nat), FiniteSubsetsOf(Nat))
  BY FS_StrictSubsetOrderingWellFounded
<1>3. PICK X \in Below : \A Y \in Below : <<Y, X>> \notin StrictSubsetOrdering(Nat)
  BY <1>1, <1>2, WFMin
<1>4. PICK m \in Nat \ S : X = 0 .. m
  BY <1>3
<1>5. m # 0 /\ m - 1 \in Nat \ S
  BY <1>4
<1>6. <<0 .. m - 1, 0 .. m>> \in StrictSubsetOrdering(Nat)
  <2>1. 0 .. m - 1 \in SUBSET Nat /\ 0 .. m \in SUBSET Nat
    OBVIOUS
  <2>2. 0 .. m - 1 \subseteq 0 .. m /\ m \in 0 .. m /\ m \notin 0 .. m - 1
    BY <1>4
  <2> QED BY <2>1, <2>2 DEF StrictSubsetOrdering
<1> QED BY <1>3, <1>4, <1>5, <1>6

\* Climbed is what its definition says.
LEMMA ClimbedIs ==
  \A n \in 0 .. Len(Ladder) : Climbed[n] = IF n = 0 THEN 0 ELSE Climbed[n - 1] + Ladder[n]
<1> DEFINE Sums(f, n) == \A i \in 0 .. n : f[i] = IF i = 0 THEN 0 ELSE f[i - 1] + Ladder[i]
           Reached == {n \in Nat : \E f : f \in [0 .. n -> Nat] /\ (n <= Len(Ladder) => Sums(f, n))}
<1>1. 0 \in Reached
  <2>1. [i \in 0 .. 0 |-> 0] \in [0 .. 0 -> Nat] /\ Sums([i \in 0 .. 0 |-> 0], 0)
    OBVIOUS
  <2> QED BY <2>1
<1>2. ASSUME NEW n \in Nat, n \in Reached PROVE n + 1 \in Reached
  <2>1. PICK f : f \in [0 .. n -> Nat] /\ (n <= Len(Ladder) => Sums(f, n))
    BY <1>2
  <2>2. CASE n + 1 <= Len(Ladder)
    <3> DEFINE g == [i \in 0 .. n + 1 |-> IF i <= n THEN f[i] ELSE f[n] + Ladder[n + 1]]
    <3>1. Ladder[n + 1] \in Nat /\ f[n] \in Nat /\ n <= Len(Ladder) /\ Sums(f, n)
      BY <2>1, <2>2, Numbers
    <3>2. g \in [0 .. n + 1 -> Nat]
      BY <2>1, <3>1
    <3>3. \A i \in 0 .. n : g[i] = f[i] /\ (i # 0 => g[i - 1] = f[i - 1])
      OBVIOUS
    <3>4. g[n + 1] = g[n] + Ladder[n + 1]
      OBVIOUS
    <3>5. Sums(g, n + 1)
      BY <3>1, <3>3, <3>4
    <3> HIDE DEF g, Sums
    <3>6. \E h : h \in [0 .. n + 1 -> Nat] /\ (n + 1 <= Len(Ladder) => Sums(h, n + 1))
      BY <3>2, <3>5
    <3> QED BY <3>6
  <2>3. CASE ~(n + 1 <= Len(Ladder))
    <3>1. [i \in 0 .. n + 1 |-> 0] \in [0 .. n + 1 -> Nat]
      OBVIOUS
    <3> HIDE DEF Sums
    <3>2. \E h : h \in [0 .. n + 1 -> Nat] /\ (n + 1 <= Len(Ladder) => Sums(h, n + 1))
      BY <2>3, <3>1
    <3> QED BY <3>2
  <2> QED BY <2>2, <2>3
<1>3. Len(Ladder) \in Reached
  <2> HIDE DEF Reached
  <2> QED BY <1>1, <1>2, Induction, Numbers
<1>4. PICK f : f \in [0 .. Len(Ladder) -> Nat] /\ Sums(f, Len(Ladder))
  BY <1>3, Numbers
<1>5. f = [n \in 0 .. Len(Ladder) |-> IF n = 0 THEN 0 ELSE f[n - 1] + Ladder[n]]
  BY <1>4
<1>6. Climbed = CHOOSE g : g = [n \in 0 .. Len(Ladder) |-> IF n = 0 THEN 0 ELSE g[n - 1] + Ladder[n]]
  BY DEF Climbed
<1>7. Climbed = [n \in 0 .. Len(Ladder) |-> IF n = 0 THEN 0 ELSE Climbed[n - 1] + Ladder[n]]
  BY <1>5, <1>6
<1> QED BY <1>7

\* The more rungs, the longer.
LEMMA ClimbedGrows ==
  \A n \in 0 .. Len(Ladder) : Climbed[n] \in Nat /\ Climbed[n] <= TotalDelay
<1> DEFINE Sum == {n \in Nat : n <= Len(Ladder) => Climbed[n] \in Nat}
           Rest == {n \in Nat : n <= Len(Ladder) => Climbed[Len(Ladder) - n] <= TotalDelay}
<1>1. Nat \subseteq Sum
  <2>1. 0 \in Sum
    BY ClimbedIs, Numbers
  <2>2. ASSUME NEW n \in Nat, n \in Sum PROVE n + 1 \in Sum
    <3>1. n + 1 <= Len(Ladder) => /\ Climbed[n + 1] = Climbed[n] + Ladder[n + 1]
                                  /\ Ladder[n + 1] \in Nat /\ Climbed[n] \in Nat
      BY <2>2, ClimbedIs, Numbers
    <3> QED BY <3>1
  <2> HIDE DEF Sum
  <2> QED BY <2>1, <2>2, Induction
<1>2. \A n \in 0 .. Len(Ladder) : Climbed[n] \in Nat
  BY <1>1, Numbers
<1>3. Nat \subseteq Rest
  <2>1. 0 \in Rest
    BY <1>2, Numbers DEF TotalDelay
  <2>2. ASSUME NEW n \in Nat, n \in Rest PROVE n + 1 \in Rest
    <3> SUFFICES ASSUME n + 1 <= Len(Ladder) PROVE Climbed[Len(Ladder) - (n + 1)] <= TotalDelay
      OBVIOUS
    <3> DEFINE m == Len(Ladder) - n
    <3>1. m \in 1 .. Len(Ladder) /\ Len(Ladder) - (n + 1) = m - 1 /\ Climbed[m] <= TotalDelay
      BY <2>2, Numbers
    <3> HIDE DEF m
    <3>2. Climbed[m] = Climbed[m - 1] + Ladder[m] /\ Ladder[m] \in Nat /\ Climbed[m - 1] \in Nat /\ TotalDelay \in Nat
      BY <1>2, <3>1, ClimbedIs, Numbers DEF TotalDelay
    <3> QED BY <3>1, <3>2
  <2> HIDE DEF Rest
  <2> QED BY <2>1, <2>2, Induction
<1>4. ASSUME NEW n \in 0 .. Len(Ladder) PROVE Climbed[n] <= TotalDelay
  <2>1. Len(Ladder) - n \in Nat /\ Len(Ladder) - n <= Len(Ladder) /\ Len(Ladder) - (Len(Ladder) - n) = n
    BY <1>4, Numbers
  <2> QED BY <1>3, <2>1
<1> QED BY <1>2, <1>4

-----------------------------------------------------------------------------
(* The time a unit takes.                                                   *)

\* It has slept the rungs it climbed and at most one wait for a 429, which ends in time.
Patience ==
  /\ paused \in Nat /\ paused <= Climbed[attempt - 1] + (IF limited THEN MaxWait ELSE 0)
  /\ stage \in ({"work"} \cup Sleeps) \X Nat
  /\ RateWaitsFitTheCeiling

\* A run begins rested.
LEMMA PatienceStarts == Init => Patience
<1> SUFFICES ASSUME Init PROVE Patience
  OBVIOUS
<1>1. Climbed[attempt - 1] = 0
  BY ClimbedIs, Numbers DEF Init
<1> QED BY <1>1 DEF Init, Patience, Working, RateWaitsFitTheCeiling

\* The last beat names what the unit does.
LEMMA BeatType ==
  ASSUME Patience, NEW s \in ({"work"} \cup Sleeps) \X Nat, Beat(s)
  PROVE  stage' \in ({"work"} \cup Sleeps) \X Nat
  BY DEF Patience, Beat

\* Every step keeps it.
LEMMA PatienceStays == IInv /\ Patience /\ [Next]_vars => Patience'
<1> SUFFICES ASSUME IInv, Patience, [Next]_vars PROVE Patience'
  OBVIOUS
<1>1. attempt - 1 \in 0 .. Len(Ladder) /\ Climbed[attempt - 1] \in Nat /\ attempt \in Nat
  BY ClimbedGrows, Numbers DEF IInv, Types
<1>2. CASE UNCHANGED <<attempt, limited, stage, paused>> /\ phase' # "rate_wait"
  BY <1>2 DEF Patience, RateWaitsFitTheCeiling
<1>3. CASE UNCHANGED vars \/ Ended \/ Tick
  BY <1>3 DEF Ended, Tick, vars, unitVars, Patience, RateWaitsFitTheCeiling
<1>4. CASE Begin
  <2>1. attempt' = 1 /\ limited' = FALSE /\ paused' = 0 /\ stage' = Working /\ phase' = "fetching"
    BY <1>4 DEF Begin
  <2>2. Climbed[attempt' - 1] = 0
    BY <2>1, ClimbedIs, Numbers
  <2> QED BY <2>1, <2>2 DEF Patience, Working, RateWaitsFitTheCeiling
<1>5. CASE Answered \/ Returns \/ Refused \/ Fatal \/ Wake
  BY <1>2, <1>5 DEF Answered, Returns, Refused, Fatal, Leave, Wake, unitVars
<1>6. ASSUME NEW r \in RetryAfters, RateLimited(r) PROVE Patience'
  <2>1. CASE ~SecondLimit /\ WaitsOut(RateWait(r), Remaining(now'))
    <3>1. /\ Pause("rate_wait", RateWait(r)) /\ limited' = TRUE /\ attempt' = attempt /\ ~limited /\ Get
          /\ RateWait(r) <= Remaining(now')
      BY <1>6, <2>1 DEF RateLimited, SecondLimit, WaitsOut
    <3>2. RateWait(r) \in Nat /\ RateWait(r) <= MaxWait /\ RateWait(r) > 0 /\ MaxWait \in Nat
      BY WaitIsBounded, Numbers, LadderAssumption DEF RateWait, Least
    <3>3. paused' = paused + RateWait(r) /\ wake' = now' + RateWait(r)
      BY <3>1 DEF Pause
    <3>4. PICK t \in Nat : t = now'
      BY <3>1, GetMeans
    <3>5. t + RateWait(r) <= Ceiling
      BY <3>1, <3>2, <3>4, LadderAssumption DEF Remaining, Most
    <3>6. stage' \in ({"work"} \cup Sleeps) \X Nat
      BY <3>1, <3>2, BeatType DEF Pause, Sleeps
    <3>7. paused' \in Nat /\ paused' <= Climbed[attempt' - 1] + MaxWait
      BY <1>1, <3>1, <3>2, <3>3 DEF Patience
    <3> QED BY <3>1, <3>3, <3>4, <3>5, <3>6, <3>7 DEF Patience, RateWaitsFitTheCeiling
  <2>2. CASE ~(~SecondLimit /\ WaitsOut(RateWait(r), Remaining(now')))
    BY <1>2, <1>6, <2>2 DEF RateLimited, Leave, unitVars
  <2> QED BY <2>1, <2>2
<1>7. ASSUME NEW down \in BOOLEAN, Transient(down) PROVE Patience'
  <2>1. CASE NextDelay(attempt) # Null
    <3>1. Pause("retry", NextDelay(attempt)) /\ attempt' = attempt + 1 /\ limited' = limited
      BY <1>7, <2>1 DEF Transient, Climb
    <3>2. attempt \in 1 .. Len(Ladder) /\ NextDelay(attempt) = Ladder[attempt] /\ Ladder[attempt] \in Nat
      BY <2>1, <1>1, Numbers DEF NextDelay, IInv, Types
    <3>3. Climbed[attempt' - 1] = Climbed[attempt - 1] + Ladder[attempt]
      BY <1>1, <3>1, <3>2, ClimbedIs
    <3>4. paused' = paused + Ladder[attempt] /\ phase' = "retry"
      BY <3>1, <3>2 DEF Pause
    <3>5. paused' \in Nat /\ paused' <= Climbed[attempt' - 1] + (IF limited THEN MaxWait ELSE 0)
      <4> DEFINE b == IF limited THEN MaxWait ELSE 0
      <4>1. paused \in Nat /\ paused <= Climbed[attempt - 1] + b /\ b \in Nat
        BY Numbers DEF Patience
      <4> HIDE DEF b
      <4>2. paused' <= Climbed[attempt' - 1] + b /\ paused' \in Nat
        BY <1>1, <3>2, <3>3, <3>4, <4>1
      <4> QED BY <4>2 DEF b
    <3>6. stage' \in ({"work"} \cup Sleeps) \X Nat
      BY <3>1, <3>2, BeatType DEF Pause, Sleeps
    <3> QED BY <3>1, <3>4, <3>5, <3>6 DEF Patience, RateWaitsFitTheCeiling
  <2>2. CASE NextDelay(attempt) = Null
    BY <1>2, <1>7, <2>2 DEF Transient, Leave, unitVars
  <2> QED BY <2>1, <2>2
<1> QED BY <1>3, <1>4, <1>5, <1>6, <1>7 DEF Next

\* What a unit of work may cost in time (fetch_with_ladder): it sleeps its ladder and one wait
\* for a 429 at most, however many of both it meets, and no such wait ends past the run's ceiling.
THEOREM UnitsArePatient == Spec => []LadderIsBounded
<1>1. Init => IInv /\ Patience
  BY Start, PatienceStarts
<1>2. IInv /\ Patience /\ [Next]_vars => IInv' /\ Patience'
  BY Step, PatienceStays
<1>3. ASSUME IInv, Patience PROVE LadderIsBounded
  <2>1. attempt - 1 \in 0 .. Len(Ladder)
    BY <1>3, Numbers DEF IInv, Types
  <2>2. Climbed[attempt - 1] \in Nat /\ Climbed[attempt - 1] <= TotalDelay /\ TotalDelay \in Nat
    BY <2>1, ClimbedGrows, Numbers DEF TotalDelay
  <2>3. PausesAreBounded
    BY <1>3, <2>2, Numbers DEF Patience, PausesAreBounded
  <2>4. TypeOK
    BY <1>3, Numbers DEF IInv, Types, Patience, TypeOK
  <2> QED BY <1>3, <2>3, <2>4 DEF Patience, LadderIsBounded
<1> QED BY <1>1, <1>2, <1>3, PTL DEF Spec
=============================================================================
