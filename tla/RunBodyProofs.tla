---------------------------- MODULE RunBodyProofs ----------------------------
(***************************************************************************)
(* Of the body of `run`, for any sources, limits, number of runs and       *)
(* faults: exit code 0 means that all there was to collect is collected,   *)
(* what ends badly is told, and the doctor is red when somebody must act   *)
(* and then alone.  None of these is inductive.  "Nothing missing" at the  *)
(* exit rests on the freshness window looking far enough back, and that on *)
(* a source's failures being entered in the rows of the runs one by one.   *)
(***************************************************************************)
EXTENDS RunBody, FiniteSetTheorems, SequenceTheorems, WellFoundedInduction, TLAPS

-----------------------------------------------------------------------------
(* The invariant.                                                           *)

\* The stages of a process that has its row, or of a dry run.
Body    == {"sources", "preflight", "sweep", "say", "judge", "close", "tell"}
\* The stages in which a list of sources is swept.
Sweeps  == {"preflight", "sweep", "say"}
\* What a terminal transaction has earned.
Announcement == [source : Sources \cup {0}, disabled : BOOLEAN, gap : BOOLEAN]
\* How a run ends that somebody should hear of.
IsRed(status) == status \in {"failed", "rate_limited", "network", "crashed"}

\* The variables that TypeOK leaves to the history.
Types ==
  /\ TypeOK
  /\ unsaid \in Announcement
  /\ owed \subseteq Sources /\ done \subseteq Sources
  /\ left \subseteq Sources /\ refused \subseteq Sources /\ silenced \in BOOLEAN

\* A process has its row, open until the run is judged; then the row says how it was judged.
Placed ==
  /\ stage \in {"idle", "locked"} => me = 0 /\ ~dry
  /\ dry => me = 0
  /\ stage \in Body /\ ~dry => me > 0
  /\ stage \in Body \ {"tell"} /\ ~dry => runs[me].status = "running"
  /\ stage = "tell" /\ ~dry => runs[me].status = Resolve(warned)
  /\ stage # "say" => unsaid = Nothing
  /\ stage = "say" => ~dry /\ unsaid.source \in Sources
  /\ override => terminal = "failed"

\* A run begins without warnings, and its sweep without an end.
Fresh ==
  /\ stage \in {"idle", "locked", "sources"} =>
       ~warned /\ complaints = {} /\ queue = {} /\ owed = {} /\ done = {}
  /\ stage \in {"idle", "locked", "sources"} \cup Sweeps => terminal = "none" /\ ~override

\* Whatever ended badly is told, or about to be.
Told ==
  ~silenced =>
    /\ \A i \in 1 .. Len(runs) : IsRed(runs[i].status) =>
         [row |-> i] \in told \/ (stage = "tell" /\ ~dry /\ i = me)
    /\ \A s \in left : [source |-> s] \in told \/ (unsaid.disabled /\ s = unsaid.source)

\* A run without a warning owes what it has not swept, and has swept all of it at its end.
Progress ==
  ~warned /\ terminal = "none" =>
    /\ stage \in {"preflight", "sweep"} \/ (stage = "say" /\ ~unsaid.gap) => owed = done \cup queue
    /\ stage \in {"judge", "close", "tell"} => owed = done
    /\ stage \in Body \ {"sources"} => owed # {}

\* The run's own row: nothing of the sources still queued, and of the others what became of them.
ThisRow ==
  /\ stage \in Sweeps => \A s \in queue : src[s].enabled /\ s \in owed
  /\ ~dry /\ stage \in Body => \A s \in Sources :
       /\ runs[me].stops[s] # "none" => s \in owed /\ ~(stage \in Sweeps /\ s \in queue)
       /\ s \in done => runs[me].stops[s] = "read"
       /\ runs[me].stops[s] = "read" => s \notin left

\* Rows before it are closed; rows after it, and rows of refused commands, have swept nothing.
Rows ==
  \A i \in 1 .. Len(runs) :
    /\ i < me => runs[i].status # "running"
    /\ (stage \in Body /\ ~dry /\ i > me) \/ runs[i].status = "skipped_locked" =>
         \A s \in Sources : runs[i].stops[s] = "none"

\* The rows in which a source fell short since it was last read: as many as its failures.
Short(s) == {i \in 1 .. Len(runs) : runs[i].stops[s] = "short"
                                    /\ \A j \in 1 .. Len(runs) :
                                         j >= i => runs[j].stops[s] # "read"}
\* The counter of a source is backed by that many rows: every failure is entered in its run's
\* row, and a sweep that reads the source resets the counter and cuts the streak.
Streak == \A s \in Sources : Cardinality(Short(s)) >= src[s].failures

\* A source that failures drove out failed often enough to fill the freshness window, and its
\* last status was never put right; one that is refused still says so.
Gone ==
  /\ \A s \in left : ~src[s].enabled /\ src[s].status # "ok" /\ src[s].failures + 1 >= Window
  /\ \A s \in refused : src[s].status = "not_found"

\* A run that is judged clean has no source behind it that failures took away.
Complete ==
  stage \in {"close", "tell"} /\ ~dry /\ ~warned /\ terminal = "none"
    /\ complaints = {} => left = {}

\* Where nothing has gone wrong yet, the file and the sources are as they began.
Unharmed ==
  faults = 0 => disk \in {"ok", "missing"} /\ \A s \in Sources : src[s].enabled
    /\ src[s].status = "ok"

\* What the doctor has read is red if it must be, and if nothing happened only by age.
Viewed ==
  view.open =>
    /\ view.dead => \E c \in view.said : c.severity = "error"
    /\ faults = 0 => \A c \in view.said : c.severity = "error"
         => c \in Complaint("last_run_age", "error")

\* The invariant of runs and doctor.
IInv == Types /\ Placed /\ Fresh /\ Told /\ Progress /\ ThisRow /\ Rows /\ Streak /\ Gone
        /\ Complete /\ Unharmed /\ Viewed

-----------------------------------------------------------------------------
(* The rows.                                                                *)

\* The table of runs is a sequence of rows.
LEMMA RunsAre ==
  ASSUME Types
  PROVE  /\ runs \in Seq(RunRow) /\ Len(runs) \in Nat /\ DOMAIN runs = 1 .. Len(runs)
         /\ \A i \in 1 .. Len(runs) : runs[i] \in RunRow
              /\ runs[i].status \in Closed \cup {"running"}
                                      /\ runs[i].stops \in [Sources -> Stops]
<1>1. runs \in Seq(RunRow)
  BY DEF Types, TypeOK
<1>2. \A i \in 1 .. Len(runs) : runs[i] \in RunRow
  BY <1>1
<1> QED BY <1>1, <1>2 DEF RunRow

\* The records and the constants among them.
LEMMA Shapes ==
  /\ Nothing \in Announcement /\ ~Nothing.disabled /\ ~Nothing.gap /\ Nothing.source = 0
  /\ "none" \in Terminals /\ "failed" \in Terminals /\ {0, 130, 137} \subseteq ExitCodes
  /\ \A a \in Announcement : a.disabled \in BOOLEAN /\ a.gap \in BOOLEAN
  /\ \A r \in RunRow : r.status \in Closed \cup {"running"} /\ r.stops \in [Sources -> Stops]
  /\ \A r \in SourceRow : r.enabled \in BOOLEAN /\ r.failures \in Nat
  BY DEF Nothing, Announcement, Terminals, ExitCodes, RunRow, SourceRow

\* One row replaced.
LEMMA RowSet ==
  ASSUME Types, me \in 1 .. Len(runs), NEW r \in RunRow
  PROVE  /\ [runs EXCEPT ![me] = r] \in Seq(RunRow) /\ Len([runs EXCEPT ![me] = r]) = Len(runs)
         /\ \A i \in 1 .. Len(runs) : [runs EXCEPT ![me] = r][i] = IF i = me THEN r ELSE runs[i]
  BY RunsAre

\* What the row of this run says of one source changes, and nothing else.
Entered(s, stop) ==
  /\ runs' \in Seq(RunRow) /\ Len(runs') = Len(runs)
  /\ \A i \in 1 .. Len(runs) :
       /\ runs'[i].status = runs[i].status
       /\ \A t \in Sources : runs'[i].stops[t] = IF ~dry /\ i = me /\ t = s THEN stop
            ELSE runs[i].stops[t]

\* `Recorded` enters one source's outcome, and for a dry run nothing.
LEMMA RecordedRow ==
  ASSUME Types, Placed, stage \in Body, NEW s \in Sources, NEW stop \in Stops,
           runs' = Recorded(s, stop)
  PROVE  Entered(s, stop)
<1>1. CASE dry
  BY <1>1, RunsAre DEF Recorded, Entered
<1>2. CASE ~dry
  <2> DEFINE r == [runs[me] EXCEPT !.stops = [runs[me].stops EXCEPT ![s] = stop]]
  <2>1. me \in 1 .. Len(runs) /\ runs[me] \in RunRow
    BY <1>2 DEF Types, TypeOK, Placed
  <2>2. runs' = [runs EXCEPT ![me] = r]
    BY <1>2 DEF Recorded
  <2>3. r \in RunRow /\ r.status = runs[me].status /\ \A t \in Sources :
          r.stops[t] = IF t = s THEN stop ELSE runs[me].stops[t]
    BY <2>1 DEF RunRow
  <2> HIDE DEF r
  <2> QED BY <1>2, <2>1, <2>2, <2>3, RowSet DEF Entered
<1> QED BY <1>1, <1>2

\* The row of this run gets a status, and nothing else changes.
ClosedAs(status) ==
  /\ runs' \in Seq(RunRow) /\ Len(runs') = Len(runs)
  /\ \A i \in 1 .. Len(runs) : runs'[i].stops = runs[i].stops
                               /\ runs'[i].status = IF i = me THEN status ELSE runs[i].status

\* Closing changes the status of this run's row.
LEMMA ClosedRow ==
  ASSUME Types, me \in 1 .. Len(runs), NEW status \in Closed, runs' = RowClosed(status)
  PROVE  ClosedAs(status)
<1> DEFINE r == [runs[me] EXCEPT !.status = status]
<1>1. runs[me] \in RunRow
  BY RunsAre
<1>2. r \in RunRow /\ r.status = status /\ r.stops = runs[me].stops
  BY <1>1 DEF RunRow
<1>3. runs' = [runs EXCEPT ![me] = r]
  BY DEF RowClosed
<1> HIDE DEF r
<1> QED BY <1>2, <1>3, RowSet DEF ClosedAs

\* A run always resolves to a closed status.
LEMMA StatusIsClosed ==
  ASSUME NEW w \in BOOLEAN, Types PROVE Resolve(w) \in Closed
  BY RunBodyAssumption DEF Resolve, Types, TypeOK, Terminals, Closed

\* Faults only grow.
LEMMA FaultSteps ==
  ASSUME Types
  PROVE  /\ faults \in Nat
         /\ Fault => faults' \in 0 .. MaxFaults /\ faults' > 0
         /\ Fine => faults' = faults /\ faults' \in 0 .. MaxFaults
  BY RunBodyAssumption DEF Types, TypeOK, Fault, Fine

\* When the process is gone the state keeps its types.
LEMMA IdleTypes ==
  ASSUME Types, Idle, runs' \in Seq(RunRow), exit' \in ExitCodes, faults' \in 0 .. MaxFaults,
         silenced' \in BOOLEAN, UNCHANGED <<disk, src, left, refused, report>>
  PROVE  Types'
<1>1. 0 \in 0 .. Len(runs')
  OBVIOUS
<1> QED BY <1>1, Shapes DEF Types, TypeOK, Idle

-----------------------------------------------------------------------------
(* The streaks.                                                             *)

\* A streak is a finite set of rows.
LEMMA ShortIsFinite ==
  ASSUME Types, NEW s \in Sources
  PROVE  IsFiniteSet(Short(s)) /\ Cardinality(Short(s)) \in Nat
<1>1. IsFiniteSet(1 .. Len(runs)) /\ Short(s) \in SUBSET (1 .. Len(runs))
  BY FS_Interval DEF Short
<1> QED BY <1>1, FS_Subset, FS_CardinalityType

\* Rows in which the source has no outcome leave its streak as it is.
LEMMA ShortStays ==
  ASSUME Types, Types', NEW s \in Sources, Len(runs') >= Len(runs),
         \A i \in 1 .. Len(runs) : runs'[i].stops[s] = runs[i].stops[s],
         \A i \in 1 .. Len(runs') : i > Len(runs) => runs'[i].stops[s] = "none"
  PROVE  Short(s)' = Short(s)
<1>1. Len(runs) \in Nat /\ Len(runs') \in Nat
  BY RunsAre
<1>2. ASSUME NEW i \in Short(s) PROVE i \in Short(s)'
  BY <1>1 DEF Short
<1>3. ASSUME NEW i \in Short(s)' PROVE i \in Short(s)
  <2>1. i \in 1 .. Len(runs') /\ runs'[i].stops[s] = "short"
    BY DEF Short
  <2>2. i \in 1 .. Len(runs)
    BY <1>1, <2>1
  <2> QED BY <1>1, <2>1, <2>2 DEF Short
<1> QED BY <1>2, <1>3

\* A failure entered in the row of this run makes the streak longer by one.
LEMMA ShortGrows ==
  ASSUME Types, Types', Rows, NEW s \in Sources, Entered(s, "short"), ~dry, stage \in Body,
           me \in 1 .. Len(runs),
         runs[me].stops[s] = "none"
  PROVE  Cardinality(Short(s)') = Cardinality(Short(s)) + 1
<1>1. Len(runs) \in Nat /\ Len(runs') = Len(runs)
  BY DEF Entered
<1>2. \A i \in 1 .. Len(runs) : i > me => runs[i].stops[s] = "none"
  BY DEF Rows
<1>3. \A i \in 1 .. Len(runs) : runs'[i].stops[s] = IF i = me THEN "short" ELSE runs[i].stops[s]
  BY DEF Entered
<1>4. Short(s)' = Short(s) \cup {me} /\ me \notin Short(s)
  BY <1>1, <1>2, <1>3 DEF Short
<1> QED BY <1>4, ShortIsFinite, FS_AddElement

\* A step that writes one source's outcome leaves the streaks of the others.
LEMMA StreakOfEntry ==
  ASSUME Types, Types', Rows, Streak, NEW s \in Sources, stage \in Body,
           ~dry => me \in 1 .. Len(runs) /\ runs[me].stops[s] = "none",
         Entered(s, "short"), \A t \in Sources : src'[t].failures = src[t].failures
           \/ (t = s /\ ~dry /\ src'[t].failures = src[t].failures + 1)
  PROVE  Streak'
<1>1. ASSUME NEW t \in Sources, t # s \/ dry PROVE Short(t)' = Short(t)
  <2>1. Len(runs') = Len(runs) /\ \A i \in 1 .. Len(runs) : runs'[i].stops[t] = runs[i].stops[t]
    BY <1>1 DEF Entered
  <2> QED BY <2>1, ShortStays
<1>2. CASE dry
  BY <1>1, <1>2 DEF Streak
<1>3. CASE ~dry
  <2>1. Cardinality(Short(s)') = Cardinality(Short(s)) + 1
    BY <1>3, ShortGrows
  <2>2. Cardinality(Short(s)) \in Nat /\ Cardinality(Short(s)) >= src[s].failures
          /\ src[s].failures \in Nat
    BY ShortIsFinite, Shapes DEF Streak, Types, TypeOK
  <2>3. Cardinality(Short(s)') >= src'[s].failures
    BY <2>1, <2>2
  <2> QED BY <1>1, <2>3 DEF Streak
<1> QED BY <1>2, <1>3

\* The window is all of the sweeping rows, or as long as it should be.
LEMMA WindowIsFull ==
  ASSUME NEW D, IsFiniteSet(D), D \subseteq Nat, NEW n \in Nat \ {0}
  PROVE  Newest(n, D) = D \/ Cardinality(Newest(n, D)) >= n
<1> DEFINE After(p) == {q \in D : q > p}
           Out == {After(p) : p \in D \ Newest(n, D)}
<1> SUFFICES ASSUME Newest(n, D) # D PROVE Cardinality(Newest(n, D)) >= n
  OBVIOUS
<1>1. Newest(n, D) \in SUBSET D /\ \A p \in D : p \in Newest(n, D) <=> Cardinality(After(p)) < n
  BY DEF Newest
<1>2. \A p : After(p) \in SUBSET D /\ IsFiniteSet(After(p)) /\ Cardinality(After(p)) \in Nat
  BY FS_Subset, FS_CardinalityType
<1>3. Out # {} /\ Out \subseteq FiniteSubsetsOf(D)
  BY <1>1, <1>2 DEF FiniteSubsetsOf
<1>4. IsWellFoundedOn(StrictSubsetOrdering(D), FiniteSubsetsOf(D))
  BY FS_StrictSubsetOrderingWellFounded
<1>5. PICK X \in Out : \A Y \in Out : <<Y, X>> \notin StrictSubsetOrdering(D)
  BY <1>3, <1>4, WFMin
<1>6. PICK p \in D \ Newest(n, D) : X = After(p)
  OBVIOUS
<1>7. ASSUME NEW q \in After(p) PROVE q \in Newest(n, D)
  <2>1. (\A r \in D : r > q => r > p) /\ ~(q > q)
    OBVIOUS
  <2>2. After(q) \subseteq After(p) /\ q \notin After(q)
    BY <2>1
  <2>3. <<After(q), After(p)>> \in StrictSubsetOrdering(D)
    BY <2>2 DEF StrictSubsetOrdering
  <2>4. After(q) \notin Out
    BY <1>5, <1>6, <2>3
  <2> QED BY <2>4
<1>8. IsFiniteSet(Newest(n, D)) /\ After(p) \in SUBSET Newest(n, D)
  BY <1>1, <1>7, FS_Subset
<1>9. Cardinality(After(p)) <= Cardinality(Newest(n, D)) /\ Cardinality(Newest(n, D)) \in Nat
  BY <1>8, FS_Subset, FS_CardinalityType
<1>10. ~(Cardinality(After(p)) < n)
  BY <1>1
<1> QED BY <1>2, <1>9, <1>10

\* `db init` makes the file.
LEMMA DbInitStep ==
  ASSUME IInv, DbInit PROVE IInv'
<1>1. stage = "idle" /\ disk' \in {"ok", "empty"} /\ (disk' = "empty" => faults' > 0)
  BY DEF IInv, Types, TypeOK, Placed, Body, Sweeps, DbInit, world, run, hist, doctor, Idle, Fault,
       Fine, Warn, Quiet, CanLaunch, EndsWith, IsNext
<1>2. UNCHANGED <<src, runs, stage, me, dry, queue, warned, terminal, override, complaints, unsaid,
        exit, told, owed, done, left, refused, silenced, view, report>>
  BY DEF DbInit, run, hist, doctor, Idle, Fault, Fine, Warn, Quiet, CanLaunch, EndsWith, IsNext
<1>3. faults \in Nat /\ faults' \in 0 .. MaxFaults /\ (faults' = 0 => faults = 0)
  BY FaultSteps DEF IInv, DbInit
<1>4. Types'
  BY <1>1, <1>2, <1>3, Shapes DEF IInv, Types, TypeOK
<1>5. Placed' /\ Fresh'
  BY <1>1, <1>2, Shapes DEF IInv, Types, TypeOK, Placed, Body, Fresh, Sweeps
<1>6. Told'
  BY <1>2, Shapes DEF IInv, Types, TypeOK, Placed, Told
<1>7. Progress'
  BY <1>2, Shapes DEF IInv, Types, TypeOK, Placed, Fresh, Progress, Body, Sweeps, ThisRow
<1>8. ThisRow'
  BY <1>2, Shapes DEF IInv, Types, TypeOK, Placed, Fresh, ThisRow, Rows, Body, Sweeps, Enabled, Gone
<1>9. Rows'
  BY <1>2, Shapes DEF IInv, Types, TypeOK, Placed, Rows, Body
<1>10. Streak'
  BY <1>2 DEF IInv, Streak, Short
<1>11. Gone'
  BY <1>2, Shapes DEF IInv, Types, TypeOK, Placed, Gone, ThisRow, Sweeps, Enabled
<1>12. Complete'
  BY <1>2, Shapes DEF IInv, Types, TypeOK, Placed, Complete
<1>13. Unharmed' /\ Viewed'
  BY <1>1, <1>2, <1>3, Shapes DEF IInv, Types, TypeOK, Unharmed, SourceRow, Viewed
<1> QED BY <1>4, <1>5, <1>6, <1>7, <1>8, <1>9, <1>10, <1>11, <1>12, <1>13 DEF IInv

\* The file is damaged, which is a fault.
LEMMA DamageStep ==
  ASSUME IInv, Damage PROVE IInv'
<1>1. stage = "idle" /\ disk' \in {"damaged", "sealed", "missing", "behind"}
  BY DEF TypeOK, Placed, Body, Sweeps, Damage, world, run, hist, doctor, Idle, Fault, Fine, Warn,
       Quiet, CanLaunch, EndsWith, IsNext
<1>2. UNCHANGED <<src, runs, stage, me, dry, queue, warned, terminal, override, complaints, unsaid,
        exit, told, owed, done, left, refused, silenced, view, report>>
  BY DEF Damage, run, hist, doctor, Idle, Fault, Fine, Warn, Quiet, CanLaunch, EndsWith, IsNext
<1>3. faults' > 0 /\ faults \in Nat /\ faults' \in 0 .. MaxFaults /\ (faults' = 0 => faults = 0)
  BY FaultSteps DEF IInv, Damage
<1>4. Types'
  BY <1>1, <1>2, <1>3, Shapes DEF IInv, Types, TypeOK
<1>5. Placed' /\ Fresh'
  BY <1>1, <1>2, Shapes DEF IInv, Types, TypeOK, Placed, Body, Fresh, Sweeps
<1>6. Told'
  BY <1>2, Shapes DEF IInv, Types, TypeOK, Placed, Told
<1>7. Progress'
  BY <1>2, Shapes DEF IInv, Types, TypeOK, Placed, Fresh, Progress, Body, Sweeps, ThisRow
<1>8. ThisRow'
  BY <1>2, Shapes DEF IInv, Types, TypeOK, Placed, Fresh, ThisRow, Rows, Body, Sweeps, Enabled, Gone
<1>9. Rows'
  BY <1>2, Shapes DEF IInv, Types, TypeOK, Placed, Rows, Body
<1>10. Streak'
  BY <1>2 DEF IInv, Streak, Short
<1>11. Gone'
  BY <1>2, Shapes DEF IInv, Types, TypeOK, Placed, Gone, ThisRow, Sweeps, Enabled
<1>12. Complete'
  BY <1>2, Shapes DEF IInv, Types, TypeOK, Placed, Complete
<1>13. Unharmed' /\ Viewed'
  BY <1>2, <1>3, Shapes DEF IInv, Types, TypeOK, Unharmed, SourceRow, Viewed
<1> QED BY <1>4, <1>5, <1>6, <1>7, <1>8, <1>9, <1>10, <1>11, <1>12, <1>13 DEF IInv

\* A source is muted or taken in again by hand.
LEMMA ByHandStep ==
  ASSUME IInv, NEW s \in Sources, ByHand(s) PROVE IInv'
<1>1. stage = "idle"
  BY DEF TypeOK, Placed, Body, Sweeps, ByHand, world, run, hist, doctor, Idle, Fault, Fine, Warn,
       Quiet, CanLaunch, EndsWith, IsNext
<1>2. src' = [src EXCEPT ![s].enabled = ~@] /\ left' = left \ {s}
  BY DEF ByHand, doctor, Idle, Fault, Fine, Warn, Quiet, CanLaunch, EndsWith, IsNext
<1>3. src' \in [Sources -> SourceRow] /\ \A t \in Sources : src'[t].status = src[t].status
        /\ src'[t].failures = src[t].failures
                                      /\ (t # s => src'[t] = src[t])
  BY <1>2 DEF IInv, Types, TypeOK, SourceRow
<1>4. UNCHANGED <<disk, runs, stage, me, dry, queue, warned, terminal, override, complaints, unsaid,
        exit, told, owed, done, refused, silenced, view, report>>
  BY DEF ByHand, run, doctor, Idle, Fault, Fine, Warn, Quiet, CanLaunch, EndsWith, IsNext
<1>5. faults' > 0 /\ faults \in Nat /\ faults' \in 0 .. MaxFaults /\ (faults' = 0 => faults = 0)
  BY FaultSteps DEF IInv, ByHand
<1>6. Types'
  BY <1>2, <1>3, <1>4, <1>5, Shapes DEF IInv, Types, TypeOK
<1>7. Placed' /\ Fresh'
  BY <1>1, <1>4, <1>5, Shapes DEF IInv, Types, TypeOK, Placed, Body, Fresh, Sweeps
<1>8. Told'
  BY <1>2, <1>4, <1>5, Shapes DEF IInv, Types, TypeOK, Placed, Told
<1>9. Progress'
  BY <1>4, <1>5, Shapes DEF IInv, Types, TypeOK, Placed, Fresh, Progress, Body, Sweeps, ThisRow
<1>10. ThisRow'
  BY <1>1, <1>4, <1>5, Shapes DEF IInv, Types, TypeOK, Placed, Fresh, ThisRow, Rows, Body, Sweeps,
       Enabled, Gone
<1>11. Rows'
  BY <1>4, <1>5, Shapes DEF IInv, Types, TypeOK, Placed, Rows, Body
<1>12. Streak'
  BY <1>3, <1>4, <1>5 DEF IInv, Streak, Short
<1>13. Gone'
  BY <1>2, <1>4, <1>5, Shapes DEF IInv, Types, TypeOK, Placed, Gone, ThisRow, Sweeps, Enabled
<1>14. Complete'
  BY <1>2, <1>4, <1>5, Shapes DEF IInv, Types, TypeOK, Placed, Complete
<1>15. Unharmed' /\ Viewed'
  BY <1>4, <1>5, Shapes DEF IInv, Types, TypeOK, Unharmed, SourceRow, Viewed
<1> QED BY <1>6, <1>7, <1>8, <1>9, <1>10, <1>11, <1>12, <1>13, <1>14, <1>15 DEF IInv

\* A run takes the lock.
LEMMA LaunchStep ==
  ASSUME IInv, Launch PROVE IInv'
<1>1. stage = "idle" /\ stage' = "locked"
  BY DEF Launch, doctor, Idle, Fault, Fine, Warn, Quiet, CanLaunch, EndsWith, IsNext
<1>2. UNCHANGED <<disk, src, runs, me, dry, queue, warned, terminal, override, complaints, unsaid,
        exit, told, owed, done, left, refused, silenced, view, report, faults>>
  BY DEF Launch, world, hist, doctor, Idle, Fault, Fine, Warn, Quiet, CanLaunch, EndsWith, IsNext
<1>3. Types'
  BY <1>1, <1>2 DEF IInv, Types, TypeOK
<1>4. Placed' /\ Fresh'
  BY <1>1, <1>2 DEF IInv, Types, TypeOK, Placed, Body, Fresh, Sweeps
<1>5. Told'
  BY <1>1, <1>2 DEF IInv, Types, TypeOK, Placed, Told
<1>6. Progress'
  BY <1>1 DEF IInv, Types, TypeOK, Placed, Fresh, Progress, Body, Sweeps, ThisRow
<1>7. ThisRow'
  BY <1>1 DEF IInv, Types, TypeOK, Placed, Fresh, ThisRow, Rows, Body, Sweeps, Enabled, Gone
<1>8. Rows'
  BY <1>1, <1>2 DEF IInv, Types, TypeOK, Placed, Rows, Body
<1>9. Streak'
  BY <1>2 DEF IInv, Streak, Short
<1>10. Gone'
  BY <1>2 DEF IInv, Types, TypeOK, Placed, Gone, ThisRow, Sweeps, Enabled
<1>11. Complete'
  BY <1>1 DEF IInv, Types, TypeOK, Placed, Complete
<1>12. Unharmed' /\ Viewed'
  BY <1>2 DEF IInv, Types, TypeOK, Unharmed, SourceRow, Viewed
<1> QED BY <1>3, <1>4, <1>5, <1>6, <1>7, <1>8, <1>9, <1>10, <1>11, <1>12 DEF IInv

\* A dry run takes none.
LEMMA LaunchDryStep ==
  ASSUME IInv, LaunchDry PROVE IInv'
<1>1. stage = "idle" /\ stage' = "sources" /\ dry' = TRUE
  BY DEF LaunchDry, doctor, Idle, Fault, Fine, Warn, Quiet, CanLaunch, EndsWith, IsNext
<1>2. UNCHANGED <<disk, src, runs, me, queue, warned, terminal, override, complaints, unsaid, exit,
        told, owed, done, left, refused, silenced, view, report, faults>>
  BY DEF LaunchDry, world, hist, doctor, Idle, Fault, Fine, Warn, Quiet, CanLaunch, EndsWith, IsNext
<1>3. Types'
  BY <1>1, <1>2 DEF IInv, Types, TypeOK
<1>4. Placed' /\ Fresh'
  BY <1>1, <1>2 DEF IInv, Types, TypeOK, Placed, Body, Fresh, Sweeps
<1>5. Told'
  BY <1>1, <1>2 DEF IInv, Types, TypeOK, Placed, Told
<1>6. Progress'
  BY <1>1 DEF IInv, Types, TypeOK, Placed, Fresh, Progress, Body, Sweeps, ThisRow
<1>7. ThisRow'
  BY <1>1 DEF IInv, Types, TypeOK, Placed, Fresh, ThisRow, Rows, Body, Sweeps, Enabled, Gone
<1>8. Rows'
  BY <1>1, <1>2 DEF IInv, Types, TypeOK, Placed, Rows, Body
<1>9. Streak'
  BY <1>2 DEF IInv, Streak, Short
<1>10. Gone'
  BY <1>2 DEF IInv, Types, TypeOK, Placed, Gone, ThisRow, Sweeps, Enabled
<1>11. Complete'
  BY <1>1 DEF IInv, Types, TypeOK, Placed, Complete
<1>12. Unharmed' /\ Viewed'
  BY <1>2 DEF IInv, Types, TypeOK, Unharmed, SourceRow, Viewed
<1> QED BY <1>3, <1>4, <1>5, <1>6, <1>7, <1>8, <1>9, <1>10, <1>11, <1>12 DEF IInv

\* Another `run` is refused: its row sweeps nothing and is no part of any streak.
LEMMA SkippedLockedStep ==
  ASSUME IInv, SkippedLocked PROVE IInv'
<1>1. runs \in Seq(RunRow) /\ Len(runs) \in Nat /\ me \in 0 .. Len(runs)
        /\ DOMAIN runs = 1 .. Len(runs)
  BY DEF IInv, Types, TypeOK
<1>2. /\ runs' \in Seq(RunRow) /\ Len(runs') = Len(runs) + 1 /\ Len(runs) \in Nat
      /\ \A i \in 1 .. Len(runs) : runs'[i] = runs[i]
      /\ runs'[Len(runs) + 1].status = "skipped_locked" /\ \A s \in Sources :
           runs'[Len(runs) + 1].stops[s] = "none"
  <2> DEFINE r == [status |-> "skipped_locked", stops |-> NoRows]
  <2>1. r \in RunRow /\ r.status = "skipped_locked" /\ \A s \in Sources : r.stops[s] = "none"
    BY DEF RunRow, Closed, NoRows, Stops
  <2>2. runs' = Append(runs, r)
    BY DEF SkippedLocked
  <2> HIDE DEF r
  <2> QED BY <2>1, <2>2, RunsAre DEF IInv
<1>3. UNCHANGED <<disk, src, stage, me, dry, queue, warned, terminal, override, complaints, unsaid,
        exit, told, owed, done, left, refused, silenced, view, report>>
  BY DEF SkippedLocked, run, hist, doctor, Idle, Fault, Fine, Warn, Quiet, CanLaunch, EndsWith,
       IsNext
<1>4. faults' > 0 /\ faults \in Nat /\ faults' \in 0 .. MaxFaults /\ (faults' = 0 => faults = 0)
  BY FaultSteps DEF IInv, SkippedLocked
<1>5. Types'
  BY <1>2, <1>3, <1>4, Shapes DEF IInv, Types, TypeOK
<1>6. Placed' /\ Fresh'
  BY <1>2, <1>3, <1>4, Shapes DEF IInv, Types, TypeOK, Placed, Body, Resolve, Fresh, Sweeps
<1>7. Told'
  <2> SUFFICES ASSUME ~silenced PROVE Told'
    BY <1>3 DEF IInv, Told
  <2>1. ASSUME NEW i \in 1 .. Len(runs'), IsRed(runs'[i].status) PROVE [row |-> i] \in told'
                 \/ (stage' = "tell" /\ ~dry' /\ i = me')
    <3>1. i \in 1 .. Len(runs) /\ runs'[i] = runs[i]
      BY <2>1, <1>2, <1>4 DEF IsRed
    <3> QED BY <2>1, <3>1, <1>3, <1>4 DEF IInv, Told
  <2> QED BY <2>1, <1>3, <1>4 DEF IInv, Told
<1>8. Progress'
  BY <1>3, <1>4, Shapes DEF IInv, Types, TypeOK, Placed, Fresh, Progress, Body, Sweeps, ThisRow
<1>9. ThisRow'
  BY <1>2, <1>3, <1>4, Shapes DEF IInv, Types, TypeOK, Placed, Fresh, ThisRow, Rows, Body, Sweeps,
       Enabled, Gone
<1>10. Rows'
  BY <1>1, <1>2, <1>3, <1>4, Shapes DEF IInv, Types, TypeOK, Placed, Rows, Body
<1>11. Streak'
  <2>1. \A t \in Sources : Short(t)' = Short(t)
    BY <1>2, <1>5, ShortStays, RunsAre DEF IInv, Entered, ClosedAs
  <2> QED BY <2>1, <1>3, <1>4 DEF IInv, Streak
<1>12. Gone'
  BY <1>3, <1>4, Shapes DEF IInv, Types, TypeOK, Placed, Gone, ThisRow, Sweeps, Enabled
<1>13. Complete'
  BY <1>3, <1>4, Shapes DEF IInv, Types, TypeOK, Placed, Complete
<1>14. Unharmed' /\ Viewed'
  BY <1>3, <1>4, Shapes DEF IInv, Types, TypeOK, Unharmed, SourceRow, Viewed
<1> QED BY <1>5, <1>6, <1>7, <1>8, <1>9, <1>10, <1>11, <1>12, <1>13, <1>14 DEF IInv

\* The rows of dead processes are closed and told, and a row without outcomes is added.
LEMMA StartRunStep ==
  ASSUME IInv, StartRun PROVE IInv'
<1>1. runs \in Seq(RunRow) /\ Len(runs) \in Nat /\ me \in 0 .. Len(runs)
        /\ DOMAIN runs = 1 .. Len(runs)
  BY DEF IInv, Types, TypeOK
<1>2. stage = "locked" /\ stage' = "sources" /\ me' = Len(runs) + 1 /\ ~dry
  BY DEF IInv, TypeOK, Placed, Body, Sweeps, StartRun, world, run, hist, doctor, Idle, Fault, Fine,
       Warn, Quiet, CanLaunch, EndsWith, IsNext
<1>3. /\ runs' \in Seq(RunRow) /\ Len(runs') = Len(runs) + 1 /\ Len(runs) \in Nat
      /\ \A i \in 1 .. Len(runs) : runs'[i].stops = runs[i].stops
                                   /\ runs'[i].status = IF runs[i].status = "running" THEN "crashed"
                                        ELSE runs[i].status
      /\ runs'[Len(runs) + 1].status = "running" /\ \A s \in Sources :
           runs'[Len(runs) + 1].stops[s] = "none"
  <2> DEFINE r == [status |-> "running", stops |-> NoRows]
             dead == {i \in DOMAIN runs : runs[i].status = "running"}
             old == [i \in DOMAIN runs |-> IF i \in dead THEN [runs[i] EXCEPT !.status = "crashed"]
               ELSE runs[i]]
  <2>1. r \in RunRow /\ r.status = "running" /\ \A s \in Sources : r.stops[s] = "none"
    BY DEF RunRow, NoRows, Stops
  <2>2. runs' = Append(old, r)
    BY DEF StartRun
  <2>3. \A i \in 1 .. Len(runs) :
          /\ old[i] \in RunRow /\ old[i].stops = runs[i].stops
          /\ old[i].status = IF runs[i].status = "running" THEN "crashed" ELSE runs[i].status
    BY RunsAre DEF IInv, RunRow, Closed
  <2>4. old \in Seq(RunRow) /\ Len(old) = Len(runs)
    <3>1. old \in [1 .. Len(runs) -> RunRow] /\ Len(runs) \in Nat
      BY <2>3, RunsAre DEF IInv
    <3> QED BY <3>1
  <2> HIDE DEF r, old
  <2> QED BY <2>1, <2>2, <2>3, <2>4, RunsAre, AppendProperties DEF IInv
<1>4. told' = told \cup {[row |-> i] : i \in {j \in DOMAIN runs : runs[j].status = "running"}}
  BY DEF StartRun, doctor, Idle, Fault, Fine, Warn, Quiet, CanLaunch, EndsWith, IsNext
<1>5. UNCHANGED <<disk, src, dry, queue, warned, terminal, override, complaints, unsaid, exit, owed,
        done, left, refused, silenced, view, report, faults>>
  BY DEF StartRun, doctor, Idle, Fault, Fine, Warn, Quiet, CanLaunch, EndsWith, IsNext
<1>6. Types'
  BY <1>2, <1>3, <1>5, Shapes DEF IInv, Types, TypeOK
<1>7. Placed' /\ Fresh'
  BY <1>2, <1>3, <1>5, Shapes DEF IInv, Types, TypeOK, Placed, Body, Fresh, Sweeps
<1>8. Told'
  <2> SUFFICES ASSUME ~silenced PROVE (\A i \in 1 .. Len(runs) :
                 IsRed(runs[i].status) => [row |-> i] \in told)'
    BY <1>2, <1>3, <1>4, <1>5, Shapes DEF IInv, Told, Placed
  <2>1. \A t \in left : [source |-> t] \in told'
    BY <1>2, <1>3, <1>4, <1>5, Shapes DEF IInv, Told, Placed
  <2>2. ASSUME NEW i \in 1 .. Len(runs'), IsRed(runs'[i].status) PROVE [row |-> i] \in told'
    <3>1. i \in 1 .. Len(runs)
      BY <2>2, <1>3, <1>5 DEF IsRed
    <3>2. CASE runs[i].status = "running"
      BY <3>1, <3>2, <1>3, <1>4, <1>5
    <3>3. CASE runs[i].status # "running"
      BY <2>2, <3>1, <1>2, <1>3, <1>4, <1>5 DEF IInv, Told
    <3> QED BY <3>2, <3>3
  <2> QED BY <2>1, <2>2, <1>2, <1>3, <1>4, <1>5 DEF Told
<1>9. Progress'
  BY <1>2, <1>5, Shapes DEF IInv, Types, TypeOK, Placed, Fresh, Progress, Body, Sweeps, ThisRow
<1>10. ThisRow'
  BY <1>2, <1>3, <1>5, Shapes DEF IInv, Types, TypeOK, Placed, Fresh, ThisRow, Rows, Body, Sweeps,
       Enabled, Gone
<1>11. Rows'
  BY <1>1, <1>2, <1>3, <1>4, <1>5, Shapes DEF IInv, Types, TypeOK, Placed, Rows, Body
<1>12. Streak'
  <2>1. \A t \in Sources : Short(t)' = Short(t)
    BY <1>3, <1>6, ShortStays, RunsAre DEF IInv, Entered, ClosedAs
  <2> QED BY <2>1, <1>5 DEF IInv, Streak
<1>13. Gone'
  BY <1>5, Shapes DEF IInv, Types, TypeOK, Placed, Gone, ThisRow, Sweeps, Enabled
<1>14. Complete'
  BY <1>2, <1>5, Shapes DEF IInv, Types, TypeOK, Placed, Complete
<1>15. Unharmed' /\ Viewed'
  BY <1>5, Shapes DEF IInv, Types, TypeOK, Unharmed, SourceRow, Viewed
<1> QED BY <1>6, <1>7, <1>8, <1>9, <1>10, <1>11, <1>12, <1>13, <1>14, <1>15 DEF IInv

\* The list is read: what is owed is what is queued.
LEMMA ReadSourcesStep ==
  ASSUME IInv, ReadSources PROVE IInv'
<1>1. runs \in Seq(RunRow) /\ Len(runs) \in Nat /\ me \in 0 .. Len(runs)
        /\ DOMAIN runs = 1 .. Len(runs)
  BY DEF IInv, Types, TypeOK
<1>2. stage = "sources" /\ queue' = Enabled /\ owed' = Enabled /\ Enabled \subseteq Sources
  BY DEF ReadSources, doctor, Idle, Fault, Fine, Warn, Quiet, CanLaunch, EndsWith, IsNext, Enabled
<1>3. \/ Enabled = {} /\ warned' = TRUE /\ stage' = "judge"
      \/ Enabled # {} /\ warned' = warned /\ stage' = "preflight"
  BY DEF ReadSources, doctor, Idle, Fault, Fine, Warn, Quiet, CanLaunch, EndsWith, IsNext
<1>4. UNCHANGED <<disk, src, runs, me, dry, terminal, override, complaints, unsaid, exit, told,
        done, left, refused, silenced, view, report, faults>>
  BY DEF ReadSources, world, doctor, Idle, Fault, Fine, Warn, Quiet, CanLaunch, EndsWith, IsNext
<1>5. Types'
  BY <1>1, <1>2, <1>3, <1>4, Shapes DEF IInv, Types, TypeOK
<1>6. Placed' /\ Fresh'
  BY <1>2, <1>3, <1>4, Shapes DEF IInv, Types, TypeOK, Placed, Body, Fresh, Sweeps
<1>7. Told'
  BY <1>2, <1>4, Shapes DEF IInv, Types, TypeOK, Placed, Told
<1>8. Progress'
  BY <1>2, <1>3, <1>4, Shapes DEF IInv, Types, TypeOK, Placed, Fresh, Progress, Body, Sweeps,
       ThisRow
<1>9. ThisRow'
  BY <1>2, <1>4, Shapes DEF IInv, Types, TypeOK, Placed, Fresh, ThisRow, Rows, Body, Sweeps,
       Enabled, Gone
<1>10. Rows'
  BY <1>2, <1>4, Shapes DEF IInv, Types, TypeOK, Placed, Rows, Body
<1>11. Streak'
  BY <1>4 DEF IInv, Streak, Short
<1>12. Gone'
  BY <1>4, Shapes DEF IInv, Types, TypeOK, Placed, Gone, ThisRow, Sweeps, Enabled
<1>13. Complete'
  BY <1>3, Shapes DEF IInv, Types, TypeOK, Placed, Complete
<1>14. Unharmed' /\ Viewed'
  BY <1>4, Shapes DEF IInv, Types, TypeOK, Unharmed, SourceRow, Viewed
<1> QED BY <1>5, <1>6, <1>7, <1>8, <1>9, <1>10, <1>11, <1>12, <1>13, <1>14 DEF IInv

\* The list cannot be read.
LEMMA SourcesUnreadableStep ==
  ASSUME IInv, SourcesUnreadable PROVE IInv'
<1>1. stage = "sources" /\ stage' = "judge" /\ terminal' = "failed"
  BY DEF TypeOK, Placed, Body, Sweeps, SourcesUnreadable, world, run, hist, doctor, Idle, Fault,
       Fine, Warn, Quiet, CanLaunch, EndsWith, IsNext
<1>2. UNCHANGED <<runs, override>>
  BY DEF SourcesUnreadable, doctor, Idle, Fault, Fine, Warn, Quiet, CanLaunch, EndsWith, IsNext
<1>3. UNCHANGED <<disk, src, me, dry, queue, warned, complaints, unsaid, exit, told, owed, done,
        left, refused, silenced, view, report>>
  BY DEF SourcesUnreadable, doctor, Idle, Fault, Fine, Warn, Quiet, CanLaunch, EndsWith, IsNext
<1>4. faults' > 0 /\ faults \in Nat /\ faults' \in 0 .. MaxFaults /\ (faults' = 0 => faults = 0)
  BY FaultSteps DEF IInv, SourcesUnreadable
<1>5. Types'
  BY <1>1, <1>2, <1>3, <1>4, Shapes DEF IInv, Types, TypeOK
<1>6. Placed' /\ Fresh'
  BY <1>1, <1>2, <1>3, <1>4, Shapes DEF IInv, Types, TypeOK, Placed, Body, Fresh, Sweeps
<1>7. Told'
  BY <1>1, <1>2, <1>3, <1>4, Shapes DEF IInv, Types, TypeOK, Placed, Told
<1>8. Progress'
  BY <1>1, <1>4, Shapes DEF IInv, Types, TypeOK, Placed, Fresh, Progress, Body, Sweeps, ThisRow
<1>9. ThisRow'
  BY <1>1, <1>2, <1>3, <1>4, Shapes DEF IInv, Types, TypeOK, Placed, Fresh, ThisRow, Rows, Body,
       Sweeps, Enabled, Gone
<1>10. Rows'
  BY <1>1, <1>2, <1>3, <1>4, Shapes DEF IInv, Types, TypeOK, Placed, Rows, Body
<1>11. Streak'
  BY <1>1, <1>2, <1>3 DEF IInv, Streak, Short
<1>12. Gone'
  BY <1>3, <1>4, Shapes DEF IInv, Types, TypeOK, Placed, Gone, ThisRow, Sweeps, Enabled
<1>13. Complete'
  BY <1>1, <1>4, Shapes DEF IInv, Types, TypeOK, Placed, Complete
<1>14. Unharmed' /\ Viewed'
  BY <1>3, <1>4, Shapes DEF IInv, Types, TypeOK, Unharmed, SourceRow, Viewed
<1> QED BY <1>5, <1>6, <1>7, <1>8, <1>9, <1>10, <1>11, <1>12, <1>13, <1>14 DEF IInv

\* The ping succeeds, or warns.
LEMMA PreflightStep ==
  ASSUME IInv, Preflight PROVE IInv'
<1>1. runs \in Seq(RunRow) /\ Len(runs) \in Nat /\ me \in 0 .. Len(runs)
        /\ DOMAIN runs = 1 .. Len(runs)
  BY DEF IInv, Types, TypeOK
<1>2. stage = "preflight" /\ stage' = "sweep" /\ warned' \in {warned, TRUE}
  BY <1>1, Shapes DEF IInv, Types, TypeOK, Placed, Body, Sweeps, Preflight, world, run, hist,
       doctor, Idle, Fault, Fine, Warn, Quiet, CanLaunch, EndsWith, IsNext
<1>3. UNCHANGED <<disk, src, runs, me, dry, queue, terminal, override, complaints, unsaid, exit,
        told, owed, done, left, refused, silenced, view, report>>
  BY DEF Preflight, world, hist, doctor, Idle, Fault, Fine, Warn, Quiet, CanLaunch, EndsWith, IsNext
<1>4. faults \in Nat /\ faults' \in 0 .. MaxFaults /\ (faults' = 0 => faults = 0)
  BY FaultSteps DEF IInv, Preflight
<1>5. Types'
  BY <1>1, <1>2, <1>3, <1>4, Shapes DEF IInv, Types, TypeOK
<1>6. Placed' /\ Fresh'
  BY <1>2, <1>3, Shapes DEF IInv, Types, TypeOK, Placed, Body, Fresh, Sweeps
<1>7. Told'
  BY <1>2, <1>3, Shapes DEF IInv, Types, TypeOK, Placed, Told
<1>8. Progress'
  BY <1>1, <1>2, <1>3, <1>4, Shapes DEF IInv, Types, TypeOK, Placed, Fresh, Progress, Body, Sweeps,
       ThisRow
<1>9. ThisRow'
  BY <1>2, <1>3, Shapes DEF IInv, Types, TypeOK, Placed, Fresh, ThisRow, Rows, Body, Sweeps,
       Enabled, Gone
<1>10. Rows'
  BY <1>2, <1>3, Shapes DEF IInv, Types, TypeOK, Placed, Rows, Body
<1>11. Streak'
  BY <1>3 DEF IInv, Streak, Short
<1>12. Gone'
  BY <1>3, Shapes DEF IInv, Types, TypeOK, Placed, Gone, ThisRow, Sweeps, Enabled
<1>13. Complete'
  BY <1>2, Shapes DEF IInv, Types, TypeOK, Placed, Complete
<1>14. Unharmed' /\ Viewed'
  BY <1>3, <1>4, Shapes DEF IInv, Types, TypeOK, Unharmed, SourceRow, Viewed
<1> QED BY <1>5, <1>6, <1>7, <1>8, <1>9, <1>10, <1>11, <1>12, <1>13, <1>14 DEF IInv

\* The ping ends the run.
LEMMA PreflightEndsStep ==
  ASSUME IInv, PreflightEnds PROVE IInv'
<1>1. runs \in Seq(RunRow) /\ Len(runs) \in Nat /\ me \in 0 .. Len(runs)
        /\ DOMAIN runs = 1 .. Len(runs)
  BY DEF IInv, Types, TypeOK
<1>2. stage = "preflight" /\ stage' = "judge"
  BY DEF TypeOK, Placed, Body, Sweeps, PreflightEnds, world, run, hist, doctor, Idle, Fault, Fine,
       Warn, Quiet, CanLaunch, EndsWith, IsNext, AuthFailed
<1>3. terminal' \in Terminals \ {"none"} /\ override' \in {override, TRUE}
        /\ (override' # override => terminal' = "failed") /\ override \in BOOLEAN
  BY <1>1, Shapes DEF IInv, Types, TypeOK, Placed, Body, Sweeps, PreflightEnds, world, run, hist,
       doctor, Idle, Fault, Fine, Warn, Quiet, CanLaunch, EndsWith, IsNext, AuthFailed, Terminals
<1>4. UNCHANGED <<runs>>
  BY DEF PreflightEnds, doctor, Idle, Fault, Fine, Warn, Quiet, CanLaunch, EndsWith, IsNext
<1>5. UNCHANGED <<disk, src, me, dry, queue, warned, complaints, unsaid, exit, told, owed, done,
        left, refused, silenced, view, report>>
  BY DEF PreflightEnds, doctor, Idle, Fault, Fine, Warn, Quiet, CanLaunch, EndsWith, IsNext,
       AuthFailed
<1>6. faults' > 0 /\ faults \in Nat /\ faults' \in 0 .. MaxFaults /\ (faults' = 0 => faults = 0)
  BY FaultSteps DEF IInv, PreflightEnds
<1>7. Types'
  BY <1>1, <1>2, <1>3, <1>4, <1>5, <1>6, Shapes DEF IInv, Types, TypeOK
<1>8. Placed' /\ Fresh'
  BY <1>2, <1>3, <1>4, <1>5, <1>6, Shapes DEF IInv, Types, TypeOK, Placed, Body, Fresh, Sweeps
<1>9. Told'
  BY <1>2, <1>4, <1>5, <1>6, Shapes DEF IInv, Types, TypeOK, Placed, Told
<1>10. Progress'
  BY <1>3, <1>5, <1>6, Shapes DEF IInv, Types, TypeOK, Placed, Fresh, Progress, Body, Sweeps,
       ThisRow
<1>11. ThisRow'
  BY <1>2, <1>4, <1>5, <1>6, Shapes DEF IInv, Types, TypeOK, Placed, Fresh, ThisRow, Rows, Body,
       Sweeps, Enabled, Gone
<1>12. Rows'
  BY <1>2, <1>4, <1>5, <1>6, Shapes DEF IInv, Types, TypeOK, Placed, Rows, Body
<1>13. Streak'
  BY <1>2, <1>4, <1>5, <1>6 DEF IInv, Streak, Short
<1>14. Gone'
  BY <1>5, <1>6, Shapes DEF IInv, Types, TypeOK, Placed, Gone, ThisRow, Sweeps, Enabled
<1>15. Complete'
  BY <1>3, <1>5, <1>6, Shapes DEF IInv, Types, TypeOK, Placed, Complete
<1>16. Unharmed' /\ Viewed'
  BY <1>5, <1>6, Shapes DEF IInv, Types, TypeOK, Unharmed, SourceRow, Viewed
<1> QED BY <1>7, <1>8, <1>9, <1>10, <1>11, <1>12, <1>13, <1>14, <1>15, <1>16 DEF IInv

\* The queue is empty: what was owed is done, or there was a warning.
LEMMA SweptStep ==
  ASSUME IInv, Swept PROVE IInv'
<1>1. stage = "sweep" /\ stage' = "judge" /\ queue = {}
  BY DEF Swept, doctor, Idle, Fault, Fine, Warn, Quiet, CanLaunch, EndsWith, IsNext
<1>2. UNCHANGED <<disk, src, runs, me, dry, queue, warned, terminal, override, complaints, unsaid,
        exit, told, owed, done, left, refused, silenced, view, report, faults>>
  BY DEF Swept, world, hist, doctor, Idle, Fault, Fine, Warn, Quiet, CanLaunch, EndsWith, IsNext
<1>3. Types'
  BY <1>1, <1>2 DEF IInv, Types, TypeOK
<1>4. Placed' /\ Fresh'
  BY <1>1, <1>2 DEF IInv, Types, TypeOK, Placed, Body, Fresh, Sweeps
<1>5. Told'
  BY <1>1, <1>2 DEF IInv, Types, TypeOK, Placed, Told
<1>6. Progress'
  BY <1>1, <1>2 DEF IInv, Types, TypeOK, Placed, Fresh, Progress, Body, Sweeps, ThisRow
<1>7. ThisRow'
  BY <1>1, <1>2 DEF IInv, Types, TypeOK, Placed, Fresh, ThisRow, Rows, Body, Sweeps, Enabled, Gone
<1>8. Rows'
  BY <1>1, <1>2 DEF IInv, Types, TypeOK, Placed, Rows, Body
<1>9. Streak'
  BY <1>2 DEF IInv, Streak, Short
<1>10. Gone'
  BY <1>2 DEF IInv, Types, TypeOK, Placed, Gone, ThisRow, Sweeps, Enabled
<1>11. Complete'
  BY <1>1 DEF IInv, Types, TypeOK, Placed, Complete
<1>12. Unharmed' /\ Viewed'
  BY <1>2 DEF IInv, Types, TypeOK, Unharmed, SourceRow, Viewed
<1> QED BY <1>3, <1>4, <1>5, <1>6, <1>7, <1>8, <1>9, <1>10, <1>11, <1>12 DEF IInv

\* The ceiling or the budget, before a source.
LEMMA StopsShortStep ==
  ASSUME IInv, NEW s \in Sources, StopsShort(s) PROVE IInv'
<1>1. stage = "sweep" /\ stage' = "judge" /\ warned' = TRUE
  BY DEF TypeOK, Placed, Body, Sweeps, StopsShort, world, run, hist, doctor, Idle, Fault, Fine,
       Warn, Quiet, CanLaunch, EndsWith, IsNext
<1>2. UNCHANGED <<disk, src, runs, me, dry, queue, terminal, override, complaints, unsaid, exit,
        told, owed, done, left, refused, silenced, view, report>>
  BY DEF StopsShort, world, hist, doctor, Idle, Fault, Fine, Warn, Quiet, CanLaunch, EndsWith,
       IsNext
<1>3. faults' > 0 /\ faults \in Nat /\ faults' \in 0 .. MaxFaults /\ (faults' = 0 => faults = 0)
  BY FaultSteps DEF IInv, StopsShort
<1>4. Types'
  BY <1>1, <1>2, <1>3, Shapes DEF IInv, Types, TypeOK
<1>5. Placed' /\ Fresh'
  BY <1>1, <1>2, Shapes DEF IInv, Types, TypeOK, Placed, Body, Fresh, Sweeps
<1>6. Told'
  BY <1>1, <1>2, Shapes DEF IInv, Types, TypeOK, Placed, Told
<1>7. Progress'
  BY <1>1, Shapes DEF IInv, Types, TypeOK, Placed, Fresh, Progress, Body, Sweeps, ThisRow
<1>8. ThisRow'
  BY <1>1, <1>2, Shapes DEF IInv, Types, TypeOK, Placed, Fresh, ThisRow, Rows, Body, Sweeps,
       Enabled, Gone
<1>9. Rows'
  BY <1>1, <1>2, Shapes DEF IInv, Types, TypeOK, Placed, Rows, Body
<1>10. Streak'
  BY <1>2 DEF IInv, Streak, Short
<1>11. Gone'
  BY <1>2, Shapes DEF IInv, Types, TypeOK, Placed, Gone, ThisRow, Sweeps, Enabled
<1>12. Complete'
  BY <1>1, Shapes DEF IInv, Types, TypeOK, Placed, Complete
<1>13. Unharmed' /\ Viewed'
  BY <1>2, <1>3, Shapes DEF IInv, Types, TypeOK, Unharmed, SourceRow, Viewed
<1> QED BY <1>4, <1>5, <1>6, <1>7, <1>8, <1>9, <1>10, <1>11, <1>12, <1>13 DEF IInv

\* The ceiling or the budget, inside a source.
LEMMA InterruptedStep ==
  ASSUME IInv, NEW s \in Sources, Interrupted(s) PROVE IInv'
<1>1. runs \in Seq(RunRow) /\ Len(runs) \in Nat /\ me \in 0 .. Len(runs)
        /\ DOMAIN runs = 1 .. Len(runs)
  BY DEF IInv, Types, TypeOK
<1>2. stage = "sweep" /\ stage \in Body /\ s \in queue /\ warned' = TRUE /\ queue' = queue \ {s}
  BY DEF TypeOK, Placed, Body, Sweeps, Interrupted, world, run, hist, doctor, Idle, Fault, Fine,
       Warn, Quiet, CanLaunch, EndsWith, IsNext
<1>3. Entered(s, "short")
  BY <1>2, RecordedRow DEF Interrupted, IInv, Stops
<1>4. UNCHANGED <<disk, src, stage, me, dry, terminal, override, complaints, unsaid, exit, told,
        owed, done, left, refused, silenced, view, report>>
  BY DEF Interrupted, hist, doctor, Idle, Fault, Fine, Warn, Quiet, CanLaunch, EndsWith, IsNext
<1>5. faults' > 0 /\ faults \in Nat /\ faults' \in 0 .. MaxFaults /\ (faults' = 0 => faults = 0)
  BY FaultSteps DEF IInv, Interrupted
<1>6. Types'
  BY <1>2, <1>3, <1>4, <1>5, Shapes DEF IInv, Types, TypeOK, Entered
<1>7. Placed' /\ Fresh'
  BY <1>2, <1>3, <1>4, <1>5, Shapes DEF IInv, Types, TypeOK, Placed, Body, Entered, Fresh, Sweeps
<1>8. Told'
  <2>1. Len(runs') = Len(runs) /\ stage # "tell" /\ stage' # "tell"
          /\ \A i \in 1 .. Len(runs) : runs'[i].status = runs[i].status
    BY <1>1, <1>2, <1>3, <1>4 DEF Entered
  <2> QED BY <1>4, <2>1 DEF IInv, Told
<1>9. Progress'
  BY <1>2, <1>5, Shapes DEF IInv, Types, TypeOK, Placed, Fresh, Progress, Body, Sweeps, ThisRow
<1>10. ThisRow'
  BY <1>2, <1>3, <1>4, <1>5, Shapes DEF IInv, Types, TypeOK, Placed, Fresh, ThisRow, Rows, Body,
       Sweeps, Entered, Enabled, Gone
<1>11. Rows'
  BY <1>1, <1>2, <1>3, <1>4, <1>5, Shapes DEF IInv, Types, TypeOK, Placed, Rows, Body, Entered
<1>12. Streak'
  <2>1. (~dry => me \in 1 .. Len(runs)) /\ Types /\ Types' /\ Rows /\ Streak
    BY <1>1, <1>6, <1>2, <1>4, <1>5 DEF IInv, Placed, Body
  <2>2. ~dry => runs[me].stops[s] = "none"
    BY <1>2 DEF IInv, ThisRow, Sweeps
  <2> QED BY <2>1, <2>2, <1>2, <1>3, <1>4, <1>5, StreakOfEntry
<1>13. Gone'
  BY <1>4, <1>5, Shapes DEF IInv, Types, TypeOK, Placed, Gone, ThisRow, Sweeps, Enabled
<1>14. Complete'
  BY <1>2, <1>5, Shapes DEF IInv, Types, TypeOK, Placed, Complete
<1>15. Unharmed' /\ Viewed'
  BY <1>4, <1>5, Shapes DEF IInv, Types, TypeOK, Unharmed, SourceRow, Viewed
<1> QED BY <1>6, <1>7, <1>8, <1>9, <1>10, <1>11, <1>12, <1>13, <1>14, <1>15 DEF IInv

\* A failure of the run inside a source.
LEMMA SweepEndsStep ==
  ASSUME IInv, NEW s \in Sources, SweepEnds(s) PROVE IInv'
<1>1. runs \in Seq(RunRow) /\ Len(runs) \in Nat /\ me \in 0 .. Len(runs)
        /\ DOMAIN runs = 1 .. Len(runs)
  BY DEF IInv, Types, TypeOK
<1>2. stage = "sweep" /\ stage \in Body /\ s \in queue /\ stage' = "judge"
  BY DEF TypeOK, Placed, Body, Sweeps, SweepEnds, world, run, hist, doctor, Idle, Fault, Fine, Warn,
       Quiet, CanLaunch, EndsWith, IsNext, AuthFailed
<1>3. terminal' \in Terminals \ {"none"} /\ override' \in {override, TRUE}
        /\ (override' # override => terminal' = "failed") /\ override \in BOOLEAN
  BY <1>1, Shapes DEF IInv, Types, TypeOK, Placed, Body, Sweeps, SweepEnds, world, run, hist,
       doctor, Idle, Fault, Fine, Warn, Quiet, CanLaunch, EndsWith, IsNext, AuthFailed, Terminals
<1>4. runs' = runs \/ Entered(s, "short")
  BY <1>2, RecordedRow DEF SweepEnds, IInv, Stops
<1>5. UNCHANGED <<disk, src, me, dry, queue, warned, complaints, unsaid, exit, told, owed, done,
        left, refused, silenced, view, report>>
  BY DEF SweepEnds, doctor, Idle, Fault, Fine, Warn, Quiet, CanLaunch, EndsWith, IsNext, AuthFailed
<1>6. faults' > 0 /\ faults \in Nat /\ faults' \in 0 .. MaxFaults /\ (faults' = 0 => faults = 0)
  BY FaultSteps DEF IInv, SweepEnds
<1>7. Types'
  <2>1. runs' \in Seq(RunRow) /\ Len(runs') = Len(runs)
    BY <1>1, <1>4 DEF Entered
  <2> QED BY <1>2, <1>3, <1>5, <1>6, <2>1, Shapes DEF IInv, Types, TypeOK
<1>8. Placed' /\ Fresh'
  BY <1>1, <1>2, <1>3, <1>4, <1>5, <1>6, Shapes DEF IInv, Types, TypeOK, Placed, Body, Entered,
       Fresh, Sweeps
<1>9. Told'
  BY <1>2, <1>4, <1>5, <1>6, Shapes DEF IInv, Types, TypeOK, Placed, Told, Entered
<1>10. Progress'
  BY <1>3, <1>5, <1>6, Shapes DEF IInv, Types, TypeOK, Placed, Fresh, Progress, Body, Sweeps,
       ThisRow
<1>11. ThisRow'
  <2>1. CASE runs' = runs
    BY <2>1, <1>2, <1>4, <1>5, <1>6, Shapes DEF IInv, Types, TypeOK, Placed, ThisRow, Body, Sweeps
  <2>2. CASE Entered(s, "short")
    BY <2>2, <1>2, <1>4, <1>5, <1>6, Shapes DEF IInv, Types, TypeOK, Placed, ThisRow, Body, Sweeps,
         Entered
  <2> QED BY <2>1, <2>2, <1>4, <1>5, <1>6
<1>12. Rows'
  <2>1. CASE runs' = runs
    BY <1>2, <1>5, <2>1 DEF IInv, Rows, Body
  <2>2. CASE Entered(s, "short")
    BY <1>1, <1>2, <1>5, <2>2 DEF IInv, Types, TypeOK, Placed, Rows, Body, Entered
  <2> QED BY <1>4, <2>1, <2>2
<1>13. Streak'
  <2>1. (~dry => me \in 1 .. Len(runs)) /\ Types /\ Types' /\ Rows /\ Streak
    BY <1>1, <1>7, <1>2, <1>4, <1>5, <1>6 DEF IInv, Placed, Body
  <2>2. ~dry => runs[me].stops[s] = "none"
    BY <1>2, <1>6 DEF IInv, ThisRow, Sweeps
  <2>3. CASE Entered(s, "short")
    BY <2>1, <2>2, <2>3, <1>2, <1>3, <1>4, <1>5, <1>6, StreakOfEntry
  <2>4. CASE runs' = runs
    BY <2>4, <1>5, <1>6 DEF IInv, Streak, Short
  <2> QED BY <2>3, <2>4, <1>4, <1>5, <1>6
<1>14. Gone'
  BY <1>5, <1>6, Shapes DEF IInv, Types, TypeOK, Placed, Gone, ThisRow, Sweeps, Enabled
<1>15. Complete'
  BY <1>3, <1>5, <1>6, Shapes DEF IInv, Types, TypeOK, Placed, Complete
<1>16. Unharmed' /\ Viewed'
  BY <1>5, <1>6, Shapes DEF IInv, Types, TypeOK, Unharmed, SourceRow, Viewed
<1> QED BY <1>7, <1>8, <1>9, <1>10, <1>11, <1>12, <1>13, <1>14, <1>15, <1>16 DEF IInv

\* The terminal transaction is refused: the outcome may stand in the row, the counter does not
\* move.
LEMMA FinishFailsStep ==
  ASSUME IInv, NEW s \in Sources, FinishFails(s) PROVE IInv'
<1>1. runs \in Seq(RunRow) /\ Len(runs) \in Nat /\ me \in 0 .. Len(runs)
        /\ DOMAIN runs = 1 .. Len(runs)
  BY DEF IInv, Types, TypeOK
<1>2. stage = "sweep" /\ stage \in Body /\ s \in queue /\ ~dry /\ warned' = TRUE
        /\ queue' = queue \ {s}
  BY DEF TypeOK, Placed, Body, Sweeps, FinishFails, world, run, hist, doctor, Idle, Fault, Fine,
       Warn, Quiet, CanLaunch, EndsWith, IsNext
<1>3. runs' = runs \/ Entered(s, "short")
  BY <1>2, RecordedRow DEF FinishFails, IInv, Stops
<1>4. UNCHANGED <<disk, src, stage, me, dry, terminal, override, complaints, unsaid, exit, told,
        owed, done, left, refused, silenced, view, report>>
  BY DEF FinishFails, hist, doctor, Idle, Fault, Fine, Warn, Quiet, CanLaunch, EndsWith, IsNext
<1>5. faults' > 0 /\ faults \in Nat /\ faults' \in 0 .. MaxFaults /\ (faults' = 0 => faults = 0)
  BY FaultSteps DEF IInv, FinishFails
<1>6. Types'
  BY <1>2, <1>3, <1>4, <1>5, Shapes DEF IInv, Types, TypeOK, Entered
<1>7. Placed' /\ Fresh'
  BY <1>1, <1>2, <1>3, <1>4, <1>5, Shapes DEF IInv, Types, TypeOK, Placed, Body, Entered, Fresh,
       Sweeps
<1>8. Told'
  BY <1>3, <1>4, <1>5, Shapes DEF IInv, Types, TypeOK, Placed, Told, Entered
<1>9. Progress'
  BY <1>2, <1>5, Shapes DEF IInv, Types, TypeOK, Placed, Fresh, Progress, Body, Sweeps, ThisRow
<1>10. ThisRow'
  BY <1>1, <1>2, <1>3, <1>4, <1>5, Shapes DEF IInv, Types, TypeOK, Placed, Fresh, ThisRow, Rows,
       Body, Sweeps, Entered, Enabled, Gone
<1>11. Rows'
  BY <1>2, <1>3, <1>4, <1>5, Shapes DEF IInv, Types, TypeOK, Placed, Rows, Body, Entered
<1>12. Streak'
  <2>1. (~dry => me \in 1 .. Len(runs)) /\ Types /\ Types' /\ Rows /\ Streak
    BY <1>1, <1>6, <1>2, <1>4, <1>5 DEF IInv, Placed, Body
  <2>2. ~dry => runs[me].stops[s] = "none"
    BY <1>2 DEF IInv, ThisRow, Sweeps
  <2>3. CASE Entered(s, "short")
    BY <2>1, <2>2, <2>3, <1>2, <1>3, <1>4, <1>5, StreakOfEntry
  <2>4. CASE runs' = runs
    BY <2>4, <1>4, <1>5 DEF IInv, Streak, Short
  <2> QED BY <2>3, <2>4, <1>3, <1>4, <1>5
<1>13. Gone'
  BY <1>4, <1>5, Shapes DEF IInv, Types, TypeOK, Placed, Gone, ThisRow, Sweeps, Enabled
<1>14. Complete'
  BY <1>2, <1>5, Shapes DEF IInv, Types, TypeOK, Placed, Complete
<1>15. Unharmed' /\ Viewed'
  BY <1>4, <1>5, Shapes DEF IInv, Types, TypeOK, Unharmed, SourceRow, Viewed
<1> QED BY <1>6, <1>7, <1>8, <1>9, <1>10, <1>11, <1>12, <1>13, <1>14, <1>15 DEF IInv

\* A source is read: the counter is zero, the streak is cut.
LEMMA SweptWellStep ==
  ASSUME IInv, NEW s \in Sources, SweptWell(s) PROVE IInv'
<1>1. stage = "sweep" /\ stage \in Body /\ s \in queue /\ queue' = queue \ {s}
        /\ stage' = (IF dry THEN "sweep" ELSE "say")
  BY DEF TypeOK, Placed, Body, Sweeps, SweptWell, world, run, hist, doctor, Idle, Fault, Fine, Warn,
       Quiet, CanLaunch, EndsWith, IsNext
<1>2. Entered(s, "read")
  BY <1>1, RecordedRow DEF SweptWell, IInv, Stops
<1>3. /\ src' \in [Sources -> SourceRow] /\ \A t \in Sources : (t # s \/ dry => src'[t] = src[t])
           /\ src'[t].enabled = src[t].enabled
      /\ ~dry => src'[s].status = "ok" /\ src'[s].failures = 0
  <2> DEFINE r == [src[s] EXCEPT !.status = "ok", !.failures = 0]
  <2>1. src \in [Sources -> SourceRow]
    BY DEF IInv, Types, TypeOK
  <2>2. r \in SourceRow /\ r.enabled = src[s].enabled /\ r.status = "ok" /\ r.failures = 0
    BY <2>1 DEF SourceRow, SourceStatuses
  <2>3. src' = IF dry THEN src ELSE [src EXCEPT ![s] = r]
    BY DEF SweptWell
  <2> HIDE DEF r
  <2> QED BY <2>1, <2>2, <2>3
<1>4. PICK gap \in BOOLEAN :
        /\ unsaid' = IF dry THEN Nothing ELSE [Nothing EXCEPT !.source = s, !.gap = gap]
        /\ done' = IF gap /\ ~dry THEN done ELSE done \cup {s}
        /\ refused' = IF dry THEN refused ELSE refused \ {s}
  BY DEF SweptWell
<1>5. (unsaid' = Nothing /\ dry) \/ (~dry /\ unsaid'.source = s /\ ~unsaid'.disabled
        /\ unsaid'.gap = gap /\ unsaid' \in Announcement)
  BY <1>4 DEF Nothing, Announcement, IInv, Types, TypeOK
<1>6. UNCHANGED <<disk, me, dry, warned, terminal, override, complaints, exit, told, owed, left,
        silenced, view, report, faults>>
  BY DEF SweptWell, doctor, Idle, Fault, Fine, Warn, Quiet, CanLaunch, EndsWith, IsNext
<1>7. Types'
  BY <1>1, <1>2, <1>3, <1>4, <1>5, <1>6, Shapes DEF IInv, Types, TypeOK, Entered
<1>8. Placed' /\ Fresh'
  BY <1>1, <1>2, <1>4, <1>5, <1>6, Shapes DEF IInv, Types, TypeOK, Placed, Body, Entered, Fresh,
       Sweeps
<1>9. Told'
  BY <1>1, <1>2, <1>4, <1>5, <1>6, Shapes DEF IInv, Types, TypeOK, Placed, Told, Entered
<1>10. Progress'
  BY <1>1, <1>4, <1>5, <1>6, Shapes DEF IInv, Types, TypeOK, Placed, Fresh, Progress, Body, Sweeps,
       ThisRow
<1>11. ThisRow'
  BY <1>1, <1>2, <1>3, <1>4, <1>5, <1>6, Shapes DEF IInv, Types, TypeOK, Placed, Fresh, ThisRow,
       Rows, Body, Sweeps, Entered, Enabled, Gone
<1>12. Rows'
  BY <1>1, <1>2, <1>4, <1>5, <1>6, Shapes DEF IInv, Types, TypeOK, Placed, Rows, Body, Entered
<1>13. Streak'
  <2>1. ASSUME NEW t \in Sources, t # s \/ dry PROVE Short(t)' = Short(t)
    <3>1. Len(runs') = Len(runs) /\ \A i \in 1 .. Len(runs) : runs'[i].stops[t] = runs[i].stops[t]
      BY <2>1, <1>2, <1>4, <1>5, <1>6 DEF Entered
    <3> QED BY <3>1, <1>7, ShortStays DEF IInv
  <2>2. Short(s)' \in SUBSET (1 .. Len(runs')) /\ Len(runs') \in Nat
    BY <1>4, <1>5, <1>6 DEF Short, Entered
  <2>3. IsFiniteSet(1 .. Len(runs'))
    BY FS_Interval
  <2>4. IsFiniteSet(Short(s)')
    BY <2>2, <2>3, FS_Subset
  <2>5. Cardinality(Short(s)') \in Nat
    BY <2>4, FS_CardinalityType
  <2> QED BY <2>1, <2>5, <1>2, <1>3, <1>4, <1>5, <1>6 DEF IInv, Streak
<1>14. Gone'
  BY <1>1, <1>3, <1>4, <1>5, <1>6, Shapes DEF IInv, Types, TypeOK, Placed, Gone, ThisRow, Sweeps,
       Enabled
<1>15. Complete'
  BY <1>1, <1>4, <1>5, <1>6, Shapes DEF IInv, Types, TypeOK, Placed, Complete
<1>16. Unharmed' /\ Viewed'
  BY <1>3, <1>4, <1>5, <1>6, Shapes DEF IInv, Types, TypeOK, Unharmed, SourceRow, Viewed
<1> QED BY <1>7, <1>8, <1>9, <1>10, <1>11, <1>12, <1>13, <1>14, <1>15, <1>16 DEF IInv

\* A source fails: counter and streak grow together, and one that reaches its limit leaves with
\* a streak that fills the window.
LEMMA SourceFailsStep ==
  ASSUME IInv, NEW s \in Sources, SourceFails(s) PROVE IInv'
<1>1. runs \in Seq(RunRow) /\ Len(runs) \in Nat /\ me \in 0 .. Len(runs)
        /\ DOMAIN runs = 1 .. Len(runs)
  BY DEF IInv, Types, TypeOK
<1>2. stage = "sweep" /\ stage \in Body /\ s \in queue /\ queue' = queue \ {s}
        /\ stage' = (IF dry THEN "sweep" ELSE "say") /\ warned' = TRUE
  BY DEF TypeOK, Placed, Body, Sweeps, SourceFails, world, run, hist, doctor, Idle, Fault, Fine,
       Warn, Quiet, CanLaunch, EndsWith, IsNext
<1>3. Entered(s, "short")
  BY <1>2, RecordedRow DEF SourceFails, IInv, Stops
<1>4. PICK status \in SourceStatuses \ {"ok", "forbidden"} :
      /\ src' = IF dry THEN src ELSE [src EXCEPT ![s] = Failed(@, status)]
      /\ unsaid' = IF dry THEN Nothing ELSE [source |-> s, disabled |-> ~src'[s].enabled,
           gap |-> FALSE]
      /\ left' = IF ~dry /\ ~src'[s].enabled THEN left \cup {s} ELSE left
      /\ refused' = IF dry THEN refused
                    ELSE IF status \in {"forbidden", "not_found"} THEN refused \cup {s}
                    ELSE refused \ {s}
  BY DEF SourceFails
<1>5. /\ src' \in [Sources -> SourceRow] /\ \A t \in Sources : t # s \/ dry => src'[t] = src[t]
      /\ ~dry => /\ src'[s].status = status /\ src'[s].failures = src[s].failures + 1
                 /\ src'[s].enabled = (src[s].enabled
                      /\ ~(Limit(status) > 0 /\ src[s].failures + 1 >= Limit(status)))
  <2> DEFINE r == Failed(src[s], status)
  <2>1. src \in [Sources -> SourceRow]
    BY DEF IInv, Types, TypeOK
  <2>2. /\ r \in SourceRow /\ r.status = status /\ r.failures = src[s].failures + 1
        /\ r.enabled = (src[s].enabled /\ ~(Limit(status) > 0
             /\ src[s].failures + 1 >= Limit(status)))
    <3>1. src[s] \in SourceRow /\ src[s].enabled \in BOOLEAN /\ src[s].failures + 1 \in Nat
      BY <2>1 DEF SourceRow
    <3> QED BY <3>1 DEF SourceRow, Failed
  <2>3. src' = IF dry THEN src ELSE [src EXCEPT ![s] = r]
    BY <1>4
  <2> HIDE DEF r
  <2> QED BY <2>1, <2>2, <2>3
<1>6. Limit(status) \in Nat /\ (Limit(status) > 0 => Limit(status) + 1 >= Window) /\ Window \in Nat
  BY RunBodyAssumption DEF Limit
<1>7. UNCHANGED <<disk, me, dry, terminal, override, complaints, exit, told, owed, done, silenced,
        view, report>>
  BY DEF SourceFails, doctor, Idle, Fault, Fine, Warn, Quiet, CanLaunch, EndsWith, IsNext
<1>8. faults' > 0 /\ faults \in Nat /\ faults' \in 0 .. MaxFaults /\ (faults' = 0 => faults = 0)
  BY FaultSteps DEF IInv, SourceFails
<1>9. Types'
  <2>1. unsaid' \in Announcement
    BY <1>4, <1>6, <1>7, <1>8, Shapes DEF Announcement
  <2>2. owed' \subseteq Sources /\ done' \subseteq Sources /\ left' \subseteq Sources
          /\ refused' \subseteq Sources /\ silenced' \in BOOLEAN
    BY <1>4, <1>6, <1>7, <1>8 DEF IInv, Types
  <2>3. TypeOK'
    BY <1>2, <1>3, <1>5, <1>7, <1>8 DEF IInv, Types, TypeOK, Entered
  <2> QED BY <2>1, <2>2, <2>3 DEF Types
<1>10. Placed' /\ Fresh'
  BY <1>2, <1>3, <1>4, <1>5, <1>6, <1>7, <1>8, Shapes DEF IInv, Types, TypeOK, Placed, Body,
       Entered, Fresh, Sweeps
<1>11. Told'
  <2>1. /\ Len(runs') = Len(runs) /\ stage # "tell" /\ stage' # "tell" /\ ~unsaid.disabled
        /\ \A i \in 1 .. Len(runs) : runs'[i].status = runs[i].status
    BY <1>1, <1>2, <1>3, <1>7, Shapes DEF Entered, IInv, Placed
  <2>2. \A t \in left' : t \in left \/ (t = s /\ unsaid'.disabled /\ unsaid'.source = s)
    BY <1>4
  <2> QED BY <1>7, <2>1, <2>2 DEF IInv, Told
<1>12. Progress'
  BY <1>2, <1>5, <1>6, <1>7, <1>8, Shapes DEF IInv, Types, TypeOK, Placed, Fresh, Progress, Body,
       Sweeps, ThisRow
<1>13. ThisRow'
  BY <1>1, <1>2, <1>3, <1>4, <1>5, <1>6, <1>7, <1>8, Shapes DEF IInv, Types, TypeOK, Placed, Fresh,
       ThisRow, Rows, Body, Sweeps, Entered, Enabled, Gone
<1>14. Rows'
  BY <1>1, <1>2, <1>3, <1>5, <1>6, <1>7, <1>8, Shapes DEF IInv, Types, TypeOK, Placed, Rows, Body,
       Entered
<1>15. Streak'
  <2>1. (~dry => me \in 1 .. Len(runs)) /\ Types /\ Types' /\ Rows /\ Streak
    BY <1>1, <1>9, <1>2, <1>4, <1>5, <1>6, <1>7, <1>8 DEF IInv, Placed, Body
  <2>2. ~dry => runs[me].stops[s] = "none"
    BY <1>2, <1>6, <1>7, <1>8 DEF IInv, ThisRow, Sweeps
  <2> QED BY <2>1, <2>2, <1>2, <1>3, <1>4, <1>5, <1>6, <1>7, <1>8, StreakOfEntry
<1>16. Gone'
  <2>1. /\ left \subseteq Sources /\ refused \subseteq Sources /\ src[s].failures \in Nat
        /\ \A t \in left : ~src[t].enabled /\ src[t].status # "ok" /\ src[t].failures + 1 >= Window
        /\ \A t \in refused : src[t].status = "not_found"
    BY DEF IInv, Types, TypeOK, SourceRow, Gone
  <2>2. ~dry => src[s].enabled /\ s \notin left
    BY <1>2, <2>1 DEF IInv, Placed, ThisRow, Sweeps, Enabled
  <2>3. ASSUME NEW t \in left' PROVE ~src'[t].enabled /\ src'[t].status # "ok"
                                         /\ src'[t].failures + 1 >= Window
    <3>1. CASE t = s /\ ~dry
      <4>1. ~src'[s].enabled
        BY <1>4, <2>2, <2>3, <3>1
      <4>2. Limit(status) > 0 /\ src[s].failures + 1 >= Limit(status)
        BY <1>5, <2>2, <3>1, <4>1
      <4> QED BY <1>5, <1>6, <2>1, <3>1, <4>1, <4>2
    <3>2. CASE ~(t = s /\ ~dry)
      BY <1>4, <1>5, <2>1, <2>3, <3>2
    <3> QED BY <3>1, <3>2
  <2>4. ASSUME NEW t \in refused' PROVE src'[t].status = "not_found"
    BY <1>4, <1>5, <2>1, <2>4
  <2> QED BY <2>3, <2>4 DEF Gone
<1>17. Complete'
  BY <1>2, <1>5, <1>6, <1>7, <1>8, Shapes DEF IInv, Types, TypeOK, Placed, Complete
<1>18. Unharmed' /\ Viewed'
  BY <1>5, <1>6, <1>7, <1>8, Shapes DEF IInv, Types, TypeOK, Unharmed, SourceRow, Viewed
<1> QED BY <1>9, <1>10, <1>11, <1>12, <1>13, <1>14, <1>15, <1>16, <1>17, <1>18 DEF IInv

\* What the commit has earned is said.
LEMMA SayStep ==
  ASSUME IInv, Say PROVE IInv'
<1>1. stage = "say" /\ stage' = "sweep" /\ unsaid' = Nothing
        /\ warned' = (warned \/ unsaid.disabled \/ unsaid.gap)
  BY DEF Say, doctor, Idle, Fault, Fine, Warn, Quiet, CanLaunch, EndsWith, IsNext
<1>2. told' = IF unsaid.disabled THEN told \cup {[source |-> unsaid.source]} ELSE told
  BY DEF Say, doctor, Idle, Fault, Fine, Warn, Quiet, CanLaunch, EndsWith, IsNext
<1>3. UNCHANGED <<disk, src, runs, me, dry, queue, terminal, override, complaints, exit, owed, done,
        left, refused, silenced, view, report, faults>>
  BY DEF Say, world, doctor, Idle, Fault, Fine, Warn, Quiet, CanLaunch, EndsWith, IsNext
<1>4. Types'
  BY <1>1, <1>3, Shapes DEF IInv, Types, TypeOK
<1>5. Placed' /\ Fresh'
  BY <1>1, <1>3, Shapes DEF IInv, Types, TypeOK, Placed, Body, Fresh, Sweeps
<1>6. Told'
  BY <1>1, <1>2, <1>3, Shapes DEF IInv, Types, TypeOK, Placed, Told
<1>7. Progress'
  BY <1>1, <1>3, Shapes DEF IInv, Types, TypeOK, Placed, Fresh, Progress, Body, Sweeps, ThisRow
<1>8. ThisRow'
  BY <1>1, <1>3, Shapes DEF IInv, Types, TypeOK, Placed, Fresh, ThisRow, Rows, Body, Sweeps,
       Enabled, Gone
<1>9. Rows'
  BY <1>1, <1>3, Shapes DEF IInv, Types, TypeOK, Placed, Rows, Body
<1>10. Streak'
  BY <1>3 DEF IInv, Streak, Short
<1>11. Gone'
  BY <1>3, Shapes DEF IInv, Types, TypeOK, Placed, Gone, ThisRow, Sweeps, Enabled
<1>12. Complete'
  BY <1>1, Shapes DEF IInv, Types, TypeOK, Placed, Complete
<1>13. Unharmed' /\ Viewed'
  BY <1>3, Shapes DEF IInv, Types, TypeOK, Unharmed, SourceRow, Viewed
<1> QED BY <1>4, <1>5, <1>6, <1>7, <1>8, <1>9, <1>10, <1>11, <1>12, <1>13 DEF IInv

\* The checks: had a source been driven out, the window would have been full of runs that did not
\* read it, and the freshness check would have complained.
LEMMA JudgeStep ==
  ASSUME IInv, Judge PROVE IInv'
<1>1. runs \in Seq(RunRow) /\ Len(runs) \in Nat /\ me \in 0 .. Len(runs)
        /\ DOMAIN runs = 1 .. Len(runs)
  BY DEF IInv, Types, TypeOK
<1>2. stage = "judge" /\ stage' = "close" /\ complaints' \subseteq {"warning", "failure"}
  BY DEF TypeOK, Placed, Body, Sweeps, Judge, world, run, hist, doctor, Idle, Fault, Fine, Warn,
       Quiet, CanLaunch, EndsWith, IsNext
<1>3. ~dry /\ complaints' = {} => Stale = {}
  BY DEF Judge, doctor, Idle, Fault, Fine, Warn, Quiet, CanLaunch, EndsWith, IsNext
<1>4. UNCHANGED <<disk, src, runs, me, dry, queue, warned, terminal, override, unsaid, exit, told,
        owed, done, left, refused, silenced, view, report>>
  BY DEF Judge, world, hist, doctor, Idle, Fault, Fine, Warn, Quiet, CanLaunch, EndsWith, IsNext
<1>5. faults \in Nat /\ faults' \in 0 .. MaxFaults /\ (faults' = 0 => faults = 0)
  BY FaultSteps DEF IInv, Judge
<1>6. Types'
  BY <1>2, <1>4, <1>5, Shapes DEF IInv, Types, TypeOK
<1>7. Placed' /\ Fresh'
  BY <1>2, <1>4, <1>5, Shapes DEF IInv, Types, TypeOK, Placed, Body, Fresh, Sweeps
<1>8. Told'
  BY <1>2, <1>4, <1>5, Shapes DEF IInv, Types, TypeOK, Placed, Told
<1>9. Progress'
  BY <1>2, <1>4, <1>5, Shapes DEF IInv, Types, TypeOK, Placed, Fresh, Progress, Body, Sweeps,
       ThisRow
<1>10. ThisRow'
  BY <1>2, <1>4, <1>5, Shapes DEF IInv, Types, TypeOK, Placed, Fresh, ThisRow, Rows, Body, Sweeps,
       Enabled, Gone
<1>11. Rows'
  BY <1>2, <1>4, <1>5, Shapes DEF IInv, Types, TypeOK, Placed, Rows, Body
<1>12. Streak'
  BY <1>4 DEF IInv, Streak, Short
<1>13. Gone'
  BY <1>4, <1>5, Shapes DEF IInv, Types, TypeOK, Placed, Gone, ThisRow, Sweeps, Enabled
<1>14. Complete'
  <2> SUFFICES ASSUME ~dry, ~warned, terminal = "none", Stale = {}, NEW s \in left PROVE FALSE
    BY <1>3, <1>4 DEF Complete
  <2> DEFINE D == {i \in 1 .. me : Sweeping(i)}
             W == Newest(Window, D)
             R == Short(s) \cup {me}
  <2>1. Types /\ Rows /\ s \in Sources /\ me \in 1 .. Len(runs) /\ stage = "judge"
          /\ Window \in Nat \ {0}
    BY <1>1, <1>2, <1>5, RunBodyAssumption DEF IInv, Types, Placed, Body
  <2>2. s \in Population /\ src[s].failures \in Nat /\ src[s].failures + 1 >= Window
    BY Shapes DEF IInv, Gone, Population, Types, TypeOK
  <2>3. runs[me].stops[s] = "none" /\ Sweeping(me)
    <3>1. owed = done /\ owed # {} /\ owed \subseteq Sources
      BY <2>1 DEF IInv, Progress, Body, Types
    <3> QED BY <2>1, <3>1 DEF IInv, ThisRow, Body, Sweeping
  <2>4. ASSUME NEW i \in Short(s) PROVE i \in D
    <3>1. i \in 1 .. Len(runs) /\ runs[i].stops[s] = "short"
      BY DEF Short
    <3>2. i <= me /\ (i < me => runs[i].status # "running") /\ runs[i].status # "skipped_locked"
      BY <2>1, <3>1 DEF Rows, Body
    <3>3. runs[i].status \in Closed \cup {"running"}
      BY <2>1, <3>1, RunsAre
    <3> QED BY <2>1, <3>1, <3>2, <3>3 DEF Sweeping
  <2>5. IsFiniteSet(R) /\ Cardinality(R) \in Nat /\ Cardinality(R) >= Window /\ R \subseteq D
    <3>1. me \notin Short(s) /\ me \in D
      BY <2>1, <2>3 DEF Short
    <3>2. IsFiniteSet(R) /\ Cardinality(R) = Cardinality(Short(s)) + 1
            /\ Cardinality(Short(s)) \in Nat
      BY <2>1, <3>1, ShortIsFinite, FS_AddElement
    <3>3. Cardinality(Short(s)) >= src[s].failures
      BY <2>1 DEF IInv, Streak
    <3> QED BY <2>1, <2>2, <2>4, <3>1, <3>2, <3>3
  <2>6. IsFiniteSet(D) /\ D \subseteq Nat /\ D \subseteq 1 .. Len(runs)
    <3>1. me \in Nat /\ IsFiniteSet(1 .. me) /\ D \in SUBSET (1 .. me)
      BY <2>1, FS_Interval
    <3> QED BY <2>1, <3>1, FS_Subset
  <2>7. Cardinality(W) \in Nat /\ Cardinality(W) >= Window
    <3>1. IsFiniteSet(W) /\ Cardinality(W) \in Nat
      BY <2>6, FS_Subset, FS_CardinalityType DEF Newest
    <3> HIDE DEF D, W, R
    <3>2. CASE W = D
      <4>1. Cardinality(R) <= Cardinality(D)
        BY <2>5, <2>6, FS_Subset
      <4> QED BY <2>1, <2>5, <3>1, <3>2, <4>1
    <3> QED BY <2>1, <2>6, <3>1, <3>2, WindowIsFull DEF W
  <2>8. PICK i \in W : runs[i].stops[s] = "read"
    <3>1. Stale = {t \in Population : \A i \in W : runs[i].stops[t] # "read"}
      BY <2>1, <2>7 DEF Stale
    <3> QED BY <2>2, <3>1
  <2>9. i \in D /\ i \in 1 .. Len(runs) /\ Cardinality({j \in D : j > i}) < Window
    BY <2>6 DEF Newest
  <2>10. ASSUME NEW r \in R PROVE r > i
    BY <2>3, <2>8, <2>9, <2>10 DEF Short
  <2>11. R \in SUBSET {j \in D : j > i}
    BY <2>5, <2>10
  <2>12. IsFiniteSet({j \in D : j > i}) /\ Cardinality({j \in D : j > i}) \in Nat
    BY <2>6, FS_Subset, FS_CardinalityType
  <2>13. Cardinality(R) <= Cardinality({j \in D : j > i})
    BY <2>11, <2>12, FS_Subset
  <2> QED BY <2>1, <2>5, <2>9, <2>12, <2>13
<1>15. Unharmed' /\ Viewed'
  BY <1>4, <1>5, Shapes DEF IInv, Types, TypeOK, Unharmed, SourceRow, Viewed
<1> QED BY <1>6, <1>7, <1>8, <1>9, <1>10, <1>11, <1>12, <1>13, <1>14, <1>15 DEF IInv

\* The row is closed as the run resolves.
LEMMA CloseStep ==
  ASSUME IInv, Close PROVE IInv'
<1>1. runs \in Seq(RunRow) /\ Len(runs) \in Nat /\ me \in 0 .. Len(runs)
        /\ DOMAIN runs = 1 .. Len(runs)
  BY DEF IInv, Types, TypeOK
<1>2. stage = "close" /\ stage' = "tell" /\ warned \in BOOLEAN
  BY DEF IInv, Types, TypeOK, Placed, Body, Sweeps, Close, world, run, hist, doctor, Idle, Fault,
       Fine, Warn, Quiet, CanLaunch, EndsWith, IsNext
<1>3. (dry /\ runs' = runs) \/ (~dry /\ me \in 1 .. Len(runs) /\ ClosedAs(Resolve(warned)))
  <2>1. ~dry => me \in 1 .. Len(runs)
    BY <1>1, <1>2 DEF IInv, Placed, Body
  <2>2. Types /\ Resolve(warned) \in Closed
    BY <1>2, StatusIsClosed DEF IInv
  <2>3. ~dry => ClosedAs(Resolve(warned))
    BY <2>1, <2>2, ClosedRow DEF Close
  <2>4. dry => runs' = runs
    BY DEF Close
  <2> QED BY <2>1, <2>3, <2>4
<1>4. UNCHANGED <<disk, src, me, dry, queue, warned, terminal, override, complaints, unsaid, exit,
        told, owed, done, left, refused, silenced, view, report, faults>>
  BY DEF Close, hist, doctor, Idle, Fault, Fine, Warn, Quiet, CanLaunch, EndsWith, IsNext
<1>5. Types'
  BY <1>2, <1>3, <1>4, Shapes DEF IInv, Types, TypeOK, ClosedAs
<1>6. Placed' /\ Fresh'
  BY <1>2, <1>3, <1>4, Shapes DEF IInv, Types, TypeOK, Placed, Body, Resolve, ClosedAs, Fresh,
       Sweeps
<1>7. Told'
  BY <1>2, <1>3, <1>4, Shapes DEF IInv, Types, TypeOK, Placed, Told, ClosedAs
<1>8. Progress'
  BY <1>2, <1>4, Shapes DEF IInv, Types, TypeOK, Placed, Fresh, Progress, Body, Sweeps, ThisRow
<1>9. ThisRow'
  BY <1>2, <1>3, <1>4, Shapes DEF IInv, Types, TypeOK, Placed, Fresh, ThisRow, Rows, Body, Sweeps,
       ClosedAs, Enabled, Gone
<1>10. Rows'
  <2>1. CASE dry
    BY <2>1, <1>3, <1>4 DEF IInv, Rows, Body
  <2>2. CASE ~dry
    <3>1. Resolve(warned) \notin {"skipped_locked", "running"}
      BY RunBodyAssumption DEF Resolve, IInv, Types, TypeOK, Terminals
    <3> QED BY <3>1, <1>2, <1>3, <1>4 DEF IInv, Rows, Body, ClosedAs
  <2> QED BY <2>1, <2>2
<1>11. Streak'
  <2>1. \A t \in Sources : Short(t)' = Short(t)
    BY <1>3, <1>5, ShortStays, RunsAre DEF IInv, Entered, ClosedAs
  <2> QED BY <2>1, <1>4 DEF IInv, Streak
<1>12. Gone'
  BY <1>4, Shapes DEF IInv, Types, TypeOK, Placed, Gone, ThisRow, Sweeps, Enabled
<1>13. Complete'
  BY <1>2, <1>4, Shapes DEF IInv, Types, TypeOK, Placed, Complete
<1>14. Unharmed' /\ Viewed'
  BY <1>4, Shapes DEF IInv, Types, TypeOK, Unharmed, SourceRow, Viewed
<1> QED BY <1>5, <1>6, <1>7, <1>8, <1>9, <1>10, <1>11, <1>12, <1>13, <1>14 DEF IInv

\* The end: a red run is told before the process is gone.
LEMMA FinishStep ==
  ASSUME IInv, Finish PROVE IInv'
<1>1. runs \in Seq(RunRow) /\ Len(runs) \in Nat /\ me \in 0 .. Len(runs)
        /\ DOMAIN runs = 1 .. Len(runs)
  BY DEF IInv, Types, TypeOK
<1>2. stage = "tell" /\ ~dry /\ stage' = "idle" /\ me' = 0 /\ dry' = FALSE /\ queue' = {}
        /\ warned' = FALSE /\ terminal' = "none" /\ override' = FALSE
      /\ complaints' = {} /\ unsaid' = Nothing /\ owed' = {} /\ done' = {}
  BY DEF Finish, doctor, Idle, Fault, Fine, Warn, Quiet, CanLaunch, EndsWith, IsNext
<1>3. me \in 1 .. Len(runs)
  BY DEF IInv, Types, TypeOK, Placed, Body, Sweeps, Finish, world, run, hist, doctor, Idle, Fault,
       Fine, Warn, Quiet, CanLaunch, EndsWith, IsNext
<1>4. PICK busy \in BOOLEAN :
        /\ runs' = IF busy THEN RowClosed(Resolve(warned \/ busy)) ELSE runs
        /\ told' = IF Notifies(Resolve(warned \/ busy)) THEN told \cup {[row |-> me]} ELSE told
        /\ exit' = IF override THEN 78 ELSE ExitCode(Resolve(warned \/ busy))
  BY DEF Finish
<1>5. Resolve(warned \/ busy) \in Closed /\ (~busy => Resolve(warned \/ busy) = runs[me].status)
  BY <1>2, StatusIsClosed DEF IInv, Types, TypeOK, Placed
<1>6. ClosedAs(Resolve(warned \/ busy))
  BY <1>3, <1>4, <1>5, RunsAre, ClosedRow DEF IInv, ClosedAs
<1>7. IsRed(Resolve(warned \/ busy)) => Notifies(Resolve(warned \/ busy))
  BY RunBodyAssumption DEF IsRed, Notifies, Resolve, IInv, Types, TypeOK, Terminals
<1>8. exit' \in ExitCodes
  BY <1>4 DEF ExitCode, ExitCodes
<1>9. UNCHANGED <<disk, src, left, refused, silenced, view, report>>
  BY DEF Finish, doctor, Idle, Fault, Fine, Warn, Quiet, CanLaunch, EndsWith, IsNext
<1>10. faults \in Nat /\ faults' \in 0 .. MaxFaults /\ (faults' = 0 => faults = 0)
  BY FaultSteps DEF IInv, Finish
<1>11. Types'
  BY <1>6, <1>7, <1>8, <1>9, <1>10, IdleTypes DEF IInv, Types, Finish, ClosedAs
<1>12. Placed' /\ Fresh'
  BY <1>2, <1>5, <1>6, <1>7, <1>8, <1>9, <1>10, Shapes DEF IInv, Types, TypeOK, Placed, Body,
       ClosedAs, Fresh, Sweeps
<1>13. Told'
  BY <1>1, <1>2, <1>3, <1>4, <1>5, <1>6, <1>7, <1>8, <1>9, <1>10, Shapes DEF IInv, Types, TypeOK,
       Placed, Told, ClosedAs
<1>14. Progress'
  BY <1>2, <1>5, <1>6, <1>7, <1>8, <1>9, <1>10, Shapes DEF IInv, Types, TypeOK, Placed, Fresh,
       Progress, Body, Sweeps, ThisRow
<1>15. ThisRow'
  BY <1>2, <1>5, <1>6, <1>7, <1>8, <1>9, <1>10, Shapes DEF IInv, Types, TypeOK, Placed, Fresh,
       ThisRow, Rows, Body, Sweeps, ClosedAs, Enabled, Gone
<1>16. Rows'
  <2>1. me \in 1 .. Len(runs) /\ me' = 0 /\ stage' = "idle" /\ ClosedAs(Resolve(warned \/ busy))
          /\ Rows /\ Placed
    BY <1>2, <1>3, <1>6, <1>7, <1>8, <1>9, <1>10 DEF IInv
  <2>2. Resolve(warned \/ busy) # "skipped_locked"
    BY RunBodyAssumption DEF Resolve, IInv, Types, TypeOK, Terminals
  <2>3. Len(runs') = Len(runs) /\ \A i \in 1 .. Len(runs) : runs'[i].stops = runs[i].stops
                                 /\ (runs'[i].status = "skipped_locked"
                                      => runs[i].status = "skipped_locked")
    BY <2>1, <2>2 DEF ClosedAs
  <2> QED BY <2>1, <2>3 DEF Rows, Body
<1>17. Streak'
  <2>1. \A t \in Sources : Short(t)' = Short(t)
    BY <1>6, <1>7, <1>8, <1>9, <1>10, <1>11, ShortStays, RunsAre DEF IInv, Entered, ClosedAs
  <2> QED BY <2>1, <1>5, <1>6, <1>7, <1>8, <1>9, <1>10 DEF IInv, Streak
<1>18. Gone'
  BY <1>5, <1>6, <1>7, <1>8, <1>9, <1>10, Shapes DEF IInv, Types, TypeOK, Placed, Gone, ThisRow,
       Sweeps, Enabled
<1>19. Complete'
  BY <1>2, <1>5, <1>6, <1>7, <1>8, <1>9, <1>10, Shapes DEF IInv, Types, TypeOK, Placed, Complete
<1>20. Unharmed' /\ Viewed'
  BY <1>5, <1>6, <1>7, <1>8, <1>9, <1>10, Shapes DEF IInv, Types, TypeOK, Unharmed, SourceRow,
       Viewed
<1> QED BY <1>11, <1>12, <1>13, <1>14, <1>15, <1>16, <1>17, <1>18, <1>19, <1>20 DEF IInv

\* The end of a dry run.
LEMMA FinishDryStep ==
  ASSUME IInv, FinishDry PROVE IInv'
<1>1. stage = "tell" /\ dry /\ stage' = "idle" /\ me' = 0 /\ dry' = FALSE /\ queue' = {}
        /\ warned' = FALSE /\ terminal' = "none" /\ override' = FALSE
      /\ complaints' = {} /\ unsaid' = Nothing /\ owed' = {} /\ done' = {}
  BY DEF FinishDry, doctor, Idle, Fault, Fine, Warn, Quiet, CanLaunch, EndsWith, IsNext
<1>2. exit' \in ExitCodes
  BY DEF FinishDry, ExitCode, ExitCodes
<1>3. UNCHANGED <<disk, src, runs, told, left, refused, silenced, view, report, faults>>
  BY DEF FinishDry, world, doctor, Idle, Fault, Fine, Warn, Quiet, CanLaunch, EndsWith, IsNext
<1>4. Types'
  BY <1>2, <1>3, IdleTypes, FaultSteps, RunsAre DEF IInv, Types, TypeOK, FinishDry
<1>5. Placed' /\ Fresh'
  BY <1>1, Shapes DEF IInv, Types, TypeOK, Placed, Body, Fresh, Sweeps
<1>6. Told'
  BY <1>1, <1>3, Shapes DEF IInv, Types, TypeOK, Placed, Told
<1>7. Progress'
  BY <1>1, Shapes DEF IInv, Types, TypeOK, Placed, Fresh, Progress, Body, Sweeps, ThisRow
<1>8. ThisRow'
  BY <1>1, Shapes DEF IInv, Types, TypeOK, Placed, Fresh, ThisRow, Rows, Body, Sweeps, Enabled, Gone
<1>9. Rows'
  BY <1>1, <1>3, Shapes DEF IInv, Types, TypeOK, Placed, Rows, Body
<1>10. Streak'
  BY <1>3 DEF IInv, Streak, Short
<1>11. Gone'
  BY <1>3, Shapes DEF IInv, Types, TypeOK, Placed, Gone, ThisRow, Sweeps, Enabled
<1>12. Complete'
  BY <1>1, Shapes DEF IInv, Types, TypeOK, Placed, Complete
<1>13. Unharmed' /\ Viewed'
  BY <1>3, Shapes DEF IInv, Types, TypeOK, Unharmed, SourceRow, Viewed
<1> QED BY <1>4, <1>5, <1>6, <1>7, <1>8, <1>9, <1>10, <1>11, <1>12, <1>13 DEF IInv

\* Ctrl-C: the row is closed as cancelled, which nobody is told of.
LEMMA CancelStep ==
  ASSUME IInv, Cancel PROVE IInv'
<1>1. runs \in Seq(RunRow) /\ Len(runs) \in Nat /\ me \in 0 .. Len(runs)
        /\ DOMAIN runs = 1 .. Len(runs)
  BY DEF IInv, Types, TypeOK
<1>2. stage \in {"sources", "preflight", "sweep", "say"} /\ exit' = 130 /\ stage' = "idle"
        /\ me' = 0 /\ dry' = FALSE /\ queue' = {} /\ warned' = FALSE /\ terminal' = "none"
        /\ override' = FALSE
      /\ complaints' = {} /\ unsaid' = Nothing /\ owed' = {} /\ done' = {}
  BY DEF Cancel, doctor, Idle, Fault, Fine, Warn, Quiet, CanLaunch, EndsWith, IsNext
<1>3. faults' > 0 /\ faults \in Nat /\ faults' \in 0 .. MaxFaults /\ (faults' = 0 => faults = 0)
  BY FaultSteps DEF IInv, Cancel
<1>4. (dry /\ runs' = runs) \/ (~dry /\ me \in 1 .. Len(runs) /\ ClosedAs("cancelled"))
  <2>1. ~dry => me \in 1 .. Len(runs)
    BY <1>1, <1>2 DEF IInv, Placed, Body
  <2>2. Types /\ "cancelled" \in Closed
    BY DEF IInv, Closed
  <2>3. ~dry => ClosedAs("cancelled")
    BY <2>1, <2>2, ClosedRow DEF Cancel
  <2>4. dry => runs' = runs
    BY DEF Cancel
  <2> QED BY <2>1, <2>3, <2>4
<1>5. silenced' = (silenced \/ unsaid.disabled)
        /\ UNCHANGED <<disk, src, told, left, refused, view, report>>
  BY DEF Cancel, doctor, Idle, Fault, Fine, Warn, Quiet, CanLaunch, EndsWith, IsNext
<1>6. Types'
  <2>1. unsaid.disabled \in BOOLEAN /\ silenced \in BOOLEAN
    BY Shapes DEF IInv, Types
  <2>2. 130 \in ExitCodes /\ Idle
    BY Shapes DEF Cancel
  <2> QED BY <1>1, <1>2, <1>3, <1>4, <1>5, <2>1, <2>2, IdleTypes DEF IInv, ClosedAs
<1>7. Placed' /\ Fresh'
  BY <1>2, <1>5, Shapes DEF IInv, Types, TypeOK, Placed, Body, ClosedAs, Fresh, Sweeps
<1>8. Told'
  <2> SUFFICES ASSUME ~silenced' PROVE Told'
    BY DEF Told
  <2>1. ~silenced /\ ~unsaid.disabled /\ stage # "tell"
    BY <1>2, <1>5, Shapes DEF IInv, Types
  <2>2. ASSUME NEW i \in 1 .. Len(runs'), IsRed(runs'[i].status) PROVE [row |-> i] \in told'
    BY <2>1, <2>2, <1>3, <1>4, <1>5 DEF IInv, Told, ClosedAs, IsRed
  <2>3. \A t \in left' : [source |-> t] \in told'
    BY <2>1, <1>2, <1>3, <1>4, <1>5 DEF IInv, Told
  <2> QED BY <2>2, <2>3 DEF Told
<1>9. Progress'
  BY <1>2, <1>5, Shapes DEF IInv, Types, TypeOK, Placed, Fresh, Progress, Body, Sweeps, ThisRow
<1>10. ThisRow'
  BY <1>2, <1>5, Shapes DEF IInv, Types, TypeOK, Placed, Fresh, ThisRow, Rows, Body, Sweeps,
       ClosedAs, Enabled, Gone
<1>11. Rows'
  BY <1>2, <1>4, <1>5, Shapes DEF IInv, Types, TypeOK, Placed, Rows, Body, ClosedAs
<1>12. Streak'
  <2>1. \A t \in Sources : Short(t)' = Short(t)
    BY <1>4, <1>6, ShortStays, RunsAre DEF IInv, Entered, ClosedAs
  <2> QED BY <2>1, <1>5 DEF IInv, Streak
<1>13. Gone'
  BY <1>5, Shapes DEF IInv, Types, TypeOK, Placed, Gone, ThisRow, Sweeps, Enabled
<1>14. Complete'
  BY <1>2, <1>5, Shapes DEF IInv, Types, TypeOK, Placed, Complete
<1>15. Unharmed' /\ Viewed'
  BY <1>3, <1>5, Shapes DEF IInv, Types, TypeOK, Unharmed, SourceRow, Viewed
<1> QED BY <1>6, <1>7, <1>8, <1>9, <1>10, <1>11, <1>12, <1>13, <1>14, <1>15 DEF IInv

\* The process dies where it stands; what it had not said is remembered as silenced.
LEMMA KillStep ==
  ASSUME IInv, Kill PROVE IInv'
<1>1. runs \in Seq(RunRow) /\ Len(runs) \in Nat /\ me \in 0 .. Len(runs)
        /\ DOMAIN runs = 1 .. Len(runs)
  BY DEF IInv, Types, TypeOK
<1>2. stage # "idle" /\ exit' = 137 /\ stage' = "idle" /\ me' = 0 /\ dry' = FALSE /\ queue' = {}
        /\ warned' = FALSE /\ terminal' = "none" /\ override' = FALSE
      /\ complaints' = {} /\ unsaid' = Nothing /\ owed' = {} /\ done' = {}
  BY DEF Kill, doctor, Idle, Fault, Fine, Warn, Quiet, CanLaunch, EndsWith, IsNext
<1>3. faults' > 0 /\ faults \in Nat /\ faults' \in 0 .. MaxFaults /\ (faults' = 0 => faults = 0)
  BY FaultSteps DEF IInv, Kill
<1>4. silenced' = (silenced \/ unsaid.disabled
        \/ (stage = "tell" /\ ~dry /\ Notifies(Resolve(warned))))
        /\ UNCHANGED <<disk, src, runs, told, left, refused, view, report>>
  BY DEF Kill, world, doctor, Idle, Fault, Fine, Warn, Quiet, CanLaunch, EndsWith, IsNext
<1>5. IsRed(Resolve(warned)) => Notifies(Resolve(warned))
  BY RunBodyAssumption DEF IsRed, Notifies, Resolve, IInv, Types, TypeOK, Terminals
<1>6. Types'
  <2>1. unsaid.disabled \in BOOLEAN /\ silenced \in BOOLEAN /\ Notifies(Resolve(warned)) \in BOOLEAN
    BY Shapes DEF IInv, Types, Notifies
  <2>2. 137 \in ExitCodes /\ Idle
    BY Shapes DEF Kill
  <2> QED BY <1>1, <1>2, <1>3, <1>4, <1>5, <2>1, <2>2, IdleTypes DEF IInv
<1>7. Placed' /\ Fresh'
  BY <1>2, <1>5, Shapes DEF IInv, Types, TypeOK, Placed, Body, Fresh, Sweeps
<1>8. Told'
  BY <1>1, <1>2, <1>3, <1>4, <1>5, Shapes DEF IInv, Types, TypeOK, Placed, Told
<1>9. Progress'
  BY <1>2, <1>5, Shapes DEF IInv, Types, TypeOK, Placed, Fresh, Progress, Body, Sweeps, ThisRow
<1>10. ThisRow'
  BY <1>2, <1>5, Shapes DEF IInv, Types, TypeOK, Placed, Fresh, ThisRow, Rows, Body, Sweeps,
       Enabled, Gone
<1>11. Rows'
  BY <1>2, <1>4, <1>5, Shapes DEF IInv, Types, TypeOK, Placed, Rows, Body
<1>12. Streak'
  BY <1>4 DEF IInv, Streak, Short
<1>13. Gone'
  BY <1>4, <1>5, Shapes DEF IInv, Types, TypeOK, Placed, Gone, ThisRow, Sweeps, Enabled
<1>14. Complete'
  BY <1>2, <1>5, Shapes DEF IInv, Types, TypeOK, Placed, Complete
<1>15. Unharmed' /\ Viewed'
  BY <1>3, <1>4, <1>5, Shapes DEF IInv, Types, TypeOK, Unharmed, SourceRow, Viewed
<1> QED BY <1>6, <1>7, <1>8, <1>9, <1>10, <1>11, <1>12, <1>13, <1>14, <1>15 DEF IInv

\* `doctor` without a file or a connection.
LEMMA DoctorShortStep ==
  ASSUME IInv, DoctorShort PROVE IInv'
<1>1. report' \in {"red", "green"} /\ UNCHANGED <<view, faults>>
  BY DEF DoctorShort, doctor, Idle, Fault, Fine, Warn, Quiet, CanLaunch, EndsWith, IsNext, Verdict
<1>2. UNCHANGED <<disk, src, runs, stage, me, dry, queue, warned, terminal, override, complaints,
        unsaid, exit, told, owed, done, left, refused, silenced>>
  BY DEF DoctorShort, world, run, hist, doctor, Idle, Fault, Fine, Warn, Quiet, CanLaunch, EndsWith,
       IsNext
<1>3. Types'
  BY <1>1, <1>2 DEF IInv, Types, TypeOK
<1>4. Placed' /\ Fresh'
  BY <1>2 DEF IInv, Types, TypeOK, Placed, Body, Resolve, Fresh, Sweeps
<1>5. Told'
  BY <1>2 DEF IInv, Types, TypeOK, Placed, Told
<1>6. Progress'
  BY <1>2 DEF IInv, Types, TypeOK, Placed, Fresh, Progress, Body, Sweeps, ThisRow
<1>7. ThisRow'
  BY <1>2 DEF IInv, Types, TypeOK, Placed, Fresh, ThisRow, Rows, Body, Sweeps, Enabled, Gone
<1>8. Rows'
  BY <1>2 DEF IInv, Types, TypeOK, Placed, Rows, Body
<1>9. Streak'
  BY <1>2 DEF IInv, Streak, Short
<1>10. Gone'
  BY <1>2 DEF IInv, Types, TypeOK, Placed, Gone, ThisRow, Sweeps, Enabled
<1>11. Complete'
  BY <1>2 DEF IInv, Types, TypeOK, Placed, Complete
<1>12. Unharmed' /\ Viewed'
  BY <1>1, <1>2 DEF IInv, Types, TypeOK, Unharmed, SourceRow, Viewed
<1> QED BY <1>3, <1>4, <1>5, <1>6, <1>7, <1>8, <1>9, <1>10, <1>11, <1>12 DEF IInv

\* `doctor` on a file whose tables cannot be read.
LEMMA DoctorRaisesStep ==
  ASSUME IInv, DoctorRaises PROVE IInv'
<1>1. report' = "traceback" /\ UNCHANGED <<view, faults>>
  BY DEF DoctorRaises, doctor, Idle, Fault, Fine, Warn, Quiet, CanLaunch, EndsWith, IsNext
<1>2. UNCHANGED <<disk, src, runs, stage, me, dry, queue, warned, terminal, override, complaints,
        unsaid, exit, told, owed, done, left, refused, silenced>>
  BY DEF DoctorRaises, world, run, hist, doctor, Idle, Fault, Fine, Warn, Quiet, CanLaunch,
       EndsWith, IsNext
<1>3. Types'
  BY <1>1, <1>2 DEF IInv, Types, TypeOK
<1>4. Placed' /\ Fresh'
  BY <1>2 DEF IInv, Types, TypeOK, Placed, Body, Resolve, Fresh, Sweeps
<1>5. Told'
  BY <1>2 DEF IInv, Types, TypeOK, Placed, Told
<1>6. Progress'
  BY <1>2 DEF IInv, Types, TypeOK, Placed, Fresh, Progress, Body, Sweeps, ThisRow
<1>7. ThisRow'
  BY <1>2 DEF IInv, Types, TypeOK, Placed, Fresh, ThisRow, Rows, Body, Sweeps, Enabled, Gone
<1>8. Rows'
  BY <1>2 DEF IInv, Types, TypeOK, Placed, Rows, Body
<1>9. Streak'
  BY <1>2 DEF IInv, Streak, Short
<1>10. Gone'
  BY <1>2 DEF IInv, Types, TypeOK, Placed, Gone, ThisRow, Sweeps, Enabled
<1>11. Complete'
  BY <1>2 DEF IInv, Types, TypeOK, Placed, Complete
<1>12. Unharmed' /\ Viewed'
  BY <1>1, <1>2 DEF IInv, Types, TypeOK, Unharmed, SourceRow, Viewed
<1> QED BY <1>3, <1>4, <1>5, <1>6, <1>7, <1>8, <1>9, <1>10, <1>11, <1>12 DEF IInv

\* The snapshot of the doctor: what must be red is among its errors already.
LEMMA DoctorReadsStep ==
  ASSUME IInv, DoctorReads PROVE IInv'
<1>1. disk \in {"ok", "damaged", "behind"} /\ UNCHANGED <<report, faults>>
  BY DEF DoctorReads, doctor, Idle, Fault, Fine, Warn, Quiet, CanLaunch, EndsWith, IsNext
<1>2. PICK late \in BOOLEAN :
      /\ view'.open /\ view'.dead = (disk # "ok"
           \/ (Sources # {} /\ Sources \subseteq left \cup refused))
      /\ view'.said = Database(disk) \cup EnabledSources(src) \cup LastRunAge(WithStatus("ok") # {},
           late)
  BY DEF DoctorReads
<1>3. UNCHANGED <<disk, src, runs, stage, me, dry, queue, warned, terminal, override, complaints,
        unsaid, exit, told, owed, done, left, refused, silenced>>
  BY DEF DoctorReads, world, run, hist, doctor, Idle, Fault, Fine, Warn, Quiet, CanLaunch, EndsWith,
       IsNext
<1>4. Types'
  BY <1>1, <1>3, Shapes DEF IInv, Types, TypeOK
<1>5. Placed' /\ Fresh'
  BY <1>3, Shapes DEF IInv, Types, TypeOK, Placed, Body, Resolve, Fresh, Sweeps
<1>6. Told'
  BY <1>3, Shapes DEF IInv, Types, TypeOK, Placed, Told
<1>7. Progress'
  BY <1>3, Shapes DEF IInv, Types, TypeOK, Placed, Fresh, Progress, Body, Sweeps, ThisRow
<1>8. ThisRow'
  BY <1>3, Shapes DEF IInv, Types, TypeOK, Placed, Fresh, ThisRow, Rows, Body, Sweeps, Enabled, Gone
<1>9. Rows'
  BY <1>3, Shapes DEF IInv, Types, TypeOK, Placed, Rows, Body
<1>10. Streak'
  BY <1>3 DEF IInv, Streak, Short
<1>11. Gone'
  BY <1>3, Shapes DEF IInv, Types, TypeOK, Placed, Gone, ThisRow, Sweeps, Enabled
<1>12. Complete'
  BY <1>3, Shapes DEF IInv, Types, TypeOK, Placed, Complete
<1>13. Unharmed'
  BY <1>1, <1>3 DEF IInv, Unharmed
<1>14. Viewed'
  <2>1. ASSUME view'.dead PROVE \E c \in view'.said : c.severity = "error"
    <3>1. CASE disk = "damaged"
      <4>1. [name |-> "quick_check", severity |-> "error"] \in view'.said
        BY <3>1, <1>2 DEF Database, Unless, Complaint
      <4> QED BY <4>1
    <3>2. CASE disk = "behind"
      <4>1. [name |-> "alembic_at_head", severity |-> "error"] \in view'.said
        BY <3>2, <1>2 DEF Database, Unless, Complaint
      <4> QED BY <4>1
    <3>3. CASE disk = "ok"
      <4>1. Sources # {} /\ Sources \subseteq left \cup refused /\ DOMAIN src = Sources
        BY <2>1, <3>3, <1>2 DEF IInv, Types, TypeOK
      <4>2. Collectable(src) = {}
        BY <4>1 DEF Collectable, Uncollectable, IInv, Gone
      <4>3. EnabledSources(src) = Complaint("enabled_sources", "error")
        BY <4>1, <4>2 DEF EnabledSources, Unless
      <4>4. [name |-> "enabled_sources", severity |-> "error"] \in view'.said
        BY <4>3, <1>2 DEF Complaint
      <4> QED BY <4>4
    <3> QED BY <3>1, <3>2, <3>3, <1>1
  <2>2. ASSUME faults = 0, NEW c \in view'.said, c.severity = "error"
                 PROVE c \in Complaint("last_run_age", "error")
    <3>1. disk = "ok" /\ DOMAIN src = Sources /\ Collectable(src) = Sources
      BY <2>2, <1>1 DEF IInv, Types, TypeOK, Unharmed, Collectable, Uncollectable
    <3>2. Database(disk) = {}
      BY <3>1 DEF Database, Unless
    <3>3. c \in EnabledSources(src) => c.severity = "warning"
      BY <3>1 DEF EnabledSources, Unless, Complaint
    <3>4. c \in LastRunAge(WithStatus("ok") # {}, late)
            /\ c.severity = "error" => c \in Complaint("last_run_age", "error")
      BY DEF LastRunAge, Unless, Complaint
    <3> QED BY <2>2, <3>2, <3>3, <3>4, <1>2
  <2> QED BY <2>1, <2>2, <1>1 DEF Viewed
<1> QED BY <1>4, <1>5, <1>6, <1>7, <1>8, <1>9, <1>10, <1>11, <1>12, <1>13, <1>14 DEF IInv

\* The rest of the list.
LEMMA DoctorJudgesStep ==
  ASSUME IInv, DoctorJudges PROVE IInv'
<1>1. runs \in Seq(RunRow) /\ Len(runs) \in Nat /\ me \in 0 .. Len(runs)
        /\ DOMAIN runs = 1 .. Len(runs)
  BY DEF IInv, Types, TypeOK
<1>2. view' = NoView /\ ~view'.open /\ report' \in {"red", "green"}
  BY <1>1, Shapes DEF IInv, Types, TypeOK, Placed, Body, Sweeps, DoctorJudges, world, run, hist,
       doctor, Idle, Fault, Fine, Warn, Quiet, CanLaunch, EndsWith, IsNext, NoView, Verdict
<1>3. UNCHANGED <<disk, src, runs, stage, me, dry, queue, warned, terminal, override, complaints,
        unsaid, exit, told, owed, done, left, refused, silenced>>
  BY DEF DoctorJudges, world, run, hist, doctor, Idle, Fault, Fine, Warn, Quiet, CanLaunch,
       EndsWith, IsNext
<1>4. faults \in Nat /\ faults' \in 0 .. MaxFaults /\ (faults' = 0 => faults = 0)
  <2>1. Fault \/ Fine
    BY DEF DoctorJudges
  <2> QED BY <2>1, FaultSteps DEF IInv
<1>5. Types'
  BY <1>2, <1>3, <1>4, Shapes DEF IInv, Types, TypeOK
<1>6. Placed' /\ Fresh'
  BY <1>3, Shapes DEF IInv, Types, TypeOK, Placed, Body, Resolve, Fresh, Sweeps
<1>7. Told'
  BY <1>3, Shapes DEF IInv, Types, TypeOK, Placed, Told
<1>8. Progress'
  BY <1>3, Shapes DEF IInv, Types, TypeOK, Placed, Fresh, Progress, Body, Sweeps, ThisRow
<1>9. ThisRow'
  BY <1>3, Shapes DEF IInv, Types, TypeOK, Placed, Fresh, ThisRow, Rows, Body, Sweeps, Enabled, Gone
<1>10. Rows'
  BY <1>3, Shapes DEF IInv, Types, TypeOK, Placed, Rows, Body
<1>11. Streak'
  BY <1>3 DEF IInv, Streak, Short
<1>12. Gone'
  BY <1>3, Shapes DEF IInv, Types, TypeOK, Placed, Gone, ThisRow, Sweeps, Enabled
<1>13. Complete'
  BY <1>3, Shapes DEF IInv, Types, TypeOK, Placed, Complete
<1>14. Unharmed' /\ Viewed'
  BY <1>2, <1>3, <1>4, Shapes DEF IInv, Types, TypeOK, Unharmed, SourceRow, Viewed
<1> QED BY <1>5, <1>6, <1>7, <1>8, <1>9, <1>10, <1>11, <1>12, <1>13, <1>14 DEF IInv

\* Nothing happens.
LEMMA StutterStep ==
  ASSUME IInv, UNCHANGED vars PROVE IInv'
<1>1. UNCHANGED <<disk, src, runs, stage, me, dry, queue, warned, terminal, override, complaints,
        unsaid, exit, told, owed, done, left, refused, silenced, view, report, faults>>
  BY DEF vars, world, run, hist, doctor, Idle, Fault, Fine, Warn, Quiet, CanLaunch, EndsWith, IsNext
<1>2. Types'
  BY <1>1 DEF IInv, Types, TypeOK
<1>3. Placed' /\ Fresh'
  BY <1>1 DEF IInv, Types, TypeOK, Placed, Body, Resolve, Fresh, Sweeps
<1>4. Told'
  BY <1>1 DEF IInv, Types, TypeOK, Placed, Told
<1>5. Progress'
  BY <1>1 DEF IInv, Types, TypeOK, Placed, Fresh, Progress, Body, Sweeps, ThisRow
<1>6. ThisRow'
  BY <1>1 DEF IInv, Types, TypeOK, Placed, Fresh, ThisRow, Rows, Body, Sweeps, Enabled, Gone
<1>7. Rows'
  BY <1>1 DEF IInv, Types, TypeOK, Placed, Rows, Body
<1>8. Streak'
  BY <1>1 DEF IInv, Streak, Short
<1>9. Gone'
  BY <1>1 DEF IInv, Types, TypeOK, Placed, Gone, ThisRow, Sweeps, Enabled
<1>10. Complete'
  BY <1>1 DEF IInv, Types, TypeOK, Placed, Complete
<1>11. Unharmed' /\ Viewed'
  BY <1>1 DEF IInv, Types, TypeOK, Unharmed, SourceRow, Viewed
<1> QED BY <1>2, <1>3, <1>4, <1>5, <1>6, <1>7, <1>8, <1>9, <1>10, <1>11 DEF IInv

\* The invariant holds at first.
LEMMA InitIInv ==
  ASSUME Init PROVE IInv
<1>1. Len(runs) = 0 /\ runs \in Seq(RunRow) /\ me = 0
  BY DEF Init
<1>2. Types
  <2>1. src \in [Sources -> SourceRow] /\ 0 \in 0 .. MaxFaults
    BY RunBodyAssumption DEF Init, SourceRow, SourceStatuses
  <2>2. me \in 0 .. Len(runs) /\ exit \in ExitCodes /\ terminal \in Terminals
    BY Shapes DEF Init
  <2>3. TypeOK
    BY <1>1, <2>1, <2>2 DEF Init, TypeOK
  <2> QED BY <2>3, Shapes DEF Init, Types
<1>3. Placed /\ Fresh /\ Told /\ Progress /\ ThisRow /\ Rows
  BY DEF Init, Placed, Fresh, Told, Progress, ThisRow, Rows, Body, Sweeps
<1>4. Streak
  <2>1. \A s \in Sources : src[s].failures = 0
    BY DEF Init
  <2> QED BY <1>2, <2>1, ShortIsFinite DEF Streak
<1>5. Gone /\ Complete /\ Unharmed /\ Viewed
  BY DEF Init, Gone, Complete, Unharmed, Viewed, NoView
<1> QED BY <1>2, <1>3, <1>4, <1>5 DEF IInv

\* Every step of a run keeps it.
LEMMA RunStepStep ==
  ASSUME IInv, RunStep PROVE IInv'
  BY StartRunStep, ReadSourcesStep, SourcesUnreadableStep, PreflightStep, PreflightEndsStep,
       SweptStep, SayStep, JudgeStep, CloseStep, FinishStep, FinishDryStep, CancelStep, KillStep,
       SkippedLockedStep, StopsShortStep, InterruptedStep, SweepEndsStep, FinishFailsStep,
       SweptWellStep, SourceFailsStep DEF RunStep

\* The invariant holds always.
LEMMA Inductive == Spec => []IInv
<1>1. IInv /\ [Next]_vars => IInv'
  BY DbInitStep, DamageStep, LaunchStep, LaunchDryStep, RunStepStep, DoctorShortStep,
       DoctorRaisesStep, DoctorReadsStep, DoctorJudgesStep, ByHandStep, StutterStep DEF Next,
       DoctorStep
<1> QED BY InitIInv, <1>1, PTL DEF Spec

\* Whatever ends badly is announced: a run that closed red (`NOTIFYING_STATUSES`), a source that
\* failures disabled, a run that died -- unless a kill or a Ctrl-C fell between a commit and what it
\* had earned.  TypeOK is part of it.
THEOREM LoudIfRed == Spec => []RedIsLoud
<1>1. IInv => RedIsLoud
  <2> SUFFICES ASSUME IInv PROVE RedIsLoud
    OBVIOUS
  <2>1. stage # "say" => ~unsaid.disabled
    BY Shapes DEF IInv, Placed
  <2> QED BY <2>1 DEF IInv, Types, Told, IsRed, RedIsLoud
<1> QED BY Inductive, <1>1, PTL

\* Exit code 0 means that there were sources, that every one the run found enabled was swept to
\* its end without a gap, and that none is missing because failures disabled it in an earlier run:
\* the freshness check still misses it then.
THEOREM OkIsAll == Spec => OkMeansAll
<1>1. ASSUME IInv, [Next]_vars, stage = "tell", stage' = "idle", exit' = 0
      PROVE  owed # {} /\ owed = done /\ (~dry => left = {} /\ runs'[me].status = "ok")
  <2>1. Finish \/ FinishDry
    BY <1>1 DEF Next, vars, run, hist, doctor, DbInit, Damage, ByHand, Launch, LaunchDry, RunStep,
         DoctorStep, SkippedLocked, StartRun, ReadSources, SourcesUnreadable, Preflight,
         PreflightEnds, EndsWith, AuthFailed, Swept, StopsShort, Interrupted, SweepEnds,
         FinishFails, SweptWell, SourceFails, Say, Judge, Close, Cancel, Kill, Idle, IsNext,
         DoctorShort, DoctorRaises, DoctorReads, DoctorJudges
  <2>2. PICK busy \in BOOLEAN :
          /\ exit' = IF override THEN 78 ELSE ExitCode(Resolve(warned \/ busy))
          /\ ~dry => Finish /\ runs' = IF busy THEN RowClosed(Resolve(warned \/ busy)) ELSE runs
          /\ dry => ~busy
    BY <2>1, <1>1 DEF Finish, FinishDry, IInv, Types, TypeOK
  <2>3. warned \in BOOLEAN /\ complaints \subseteq {"warning", "failure"} /\ terminal \in Terminals
    BY <1>1 DEF IInv, Types, TypeOK
  <2>4. ExitCode(Resolve(warned \/ busy)) = 0
    BY <1>1, <2>2
  <2>5. Resolve(warned \/ busy) = "ok"
    BY <2>4 DEF ExitCode, Resolve, Terminals
  <2>6. ~warned /\ ~busy /\ complaints = {} /\ terminal = "none"
    BY <2>3, <2>5, RunBodyAssumption DEF Resolve, Terminals
  <2>7. owed # {} /\ owed = done
    BY <1>1, <2>6 DEF IInv, Progress, Body
  <2>8. ~dry => left = {}
    BY <1>1, <2>6 DEF IInv, Complete
  <2>9. ~dry => runs'[me].status = "ok"
    <3>1. Resolve(warned) = "ok"
      BY <2>6 DEF Resolve
    <3> QED BY <1>1, <2>2, <2>6, <3>1 DEF IInv, Placed
  <2> QED BY <2>7, <2>8, <2>9
<1> QED BY Inductive, <1>1, PTL DEF Spec, OkMeansAll

\* What is heard after the snapshot is at most a warning, unless Reddit or the host fails.
LEMMA HeardLate ==
  ASSUME NEW answer \in {"unasked", "ok"}, NEW c \in Listed(TRUE, answer, {}, Installed),
           c.severity = "error"
  PROVE  c \in view.said
<1>1. Site({}) = {} /\ HooksInstalled(Installed) = {}
  BY DEF Site, HooksInstalled, Unless, Installed
<1>2. \A held, running, alive : \A d \in LockNotStale(held, running, alive, TRUE) :
        d.severity = "warning"
  BY DEF LockNotStale, Unless, Complaint
<1>3. \A running, alive : \A d \in StaleRows(running, alive, TRUE) : d.severity = "warning"
  BY DEF StaleRows, Unless, Complaint
<1>4. \A collectable : \A d \in AuthPing(collectable, "ok") : d.severity = "warning"
  BY DEF AuthPing, Unless, Complaint
<1> QED BY <1>1, <1>2, <1>3, <1>4 DEF Listed

\* The doctor is red when the database is unusable or no source can be collected, and where nothing
\* has gone wrong it is green, whatever a healthy run does between its reads.
THEOREM DoctorRight == Spec => DoctorIsRight
<1>1. ASSUME IInv, [Next]_vars, view.open, ~view'.open
      PROVE  /\ faults' = 0 /\ Complaint("last_run_age", "error") \cap view.said = {}
                  => report' = "green"
             /\ view.dead => report' = "red"
  <2>1. DoctorJudges
    BY <1>1 DEF Next, vars, world, run, hist, doctor, DbInit, Damage, ByHand, Launch, LaunchDry,
         RunStep, DoctorStep, SkippedLocked, StartRun, ReadSources, SourcesUnreadable, Preflight,
         PreflightEnds, EndsWith, AuthFailed, Swept, StopsShort, Interrupted, SweepEnds,
         FinishFails, SweptWell, SourceFails, Say, Judge, Close, Finish, FinishDry, Cancel, Kill,
         Idle, IsNext, DoctorShort, DoctorRaises, DoctorReads
  <2>2. \E beating, answer, wrong, checkout :
          report' = Verdict(Listed(beating, answer, wrong, checkout))
    BY <2>1 DEF DoctorJudges
  <2>3. ASSUME view.dead PROVE report' = "red"
    <3>1. PICK c \in view.said : c.severity = "error"
      BY <1>1, <2>3 DEF IInv, Viewed
    <3>2. \A beating, answer, wrong, checkout : c \in Listed(beating, answer, wrong, checkout)
      BY DEF Listed
    <3> QED BY <2>2, <3>1, <3>2 DEF Verdict, Red
  <2>4. ASSUME faults' = 0, Complaint("last_run_age", "error") \cap view.said = {}
                 PROVE report' = "green"
    <3>1. ~Fault /\ faults = 0
      <4>1. Fault \/ Fine
        BY <2>1 DEF DoctorJudges
      <4> QED BY <1>1, <2>4, <4>1, FaultSteps DEF IInv
    <3>2. PICK answer \in {"unasked", "ok"} : report' = Verdict(Listed(TRUE, answer, {}, Installed))
      BY <2>1, <3>1 DEF DoctorJudges
    <3>3. \A c \in view.said : c.severity # "error"
      <4> SUFFICES ASSUME NEW c \in view.said, c.severity = "error" PROVE FALSE
        OBVIOUS
      <4> QED BY <1>1, <2>4, <3>1 DEF IInv, Viewed
    <3>4. ~Red(Listed(TRUE, answer, {}, Installed))
      BY <3>3, HeardLate DEF Red
    <3> QED BY <3>2, <3>4 DEF Verdict
  <2> QED BY <2>3, <2>4
<1> QED BY Inductive, <1>1, PTL DEF Spec, DoctorIsRight
=============================================================================
