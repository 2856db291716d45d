----------------------------- MODULE Collector -----------------------------
(***************************************************************************)
(* The commands that write the database -- `run`, `db init`, `db upgrade`  *)
(* -- as operating-system processes that contend for the collector flock   *)
(* and leave rows in the table `runs`, and the read-only commands (`run    *)
(* --dry-run`, `doctor`) that probe the flock.                             *)
(*                                                                         *)
(* A process slot is one invocation of a command together with the one row *)
(* it may insert.  A slot whose process is gone and whose row is settled,  *)
(* with no sweep still naming it, is reused by a later invocation          *)
(* (Launch), so behaviours are unbounded                                   *)
(* and the state space is finite.  One action is one database transaction, *)
(* one flock call or one step that another process can interleave with.    *)
(* What a command does between opening and closing its row is the subject  *)
(* of other modules; here it is the phase "work".                          *)
(***************************************************************************)
EXTENDS Naturals, FiniteSets

CONSTANTS
  Runs, Inits, Upgrades,   \* invocations of `run`, `db init`, `db upgrade`
  Probers,                 \* invocations that only probe the flock
  Pid,                     \* process ids the system hands out, and reuses
  StaleAfter,              \* clock ticks without a beat that make a row stale
  LockAttempts,            \* LOCK_RETRY_ATTEMPTS
  CheckpointAttempts,      \* CHECKPOINT_ATTEMPTS
  MaxFaults,               \* bound: kills, interrupts and escaping exceptions
  NoProc                   \* nobody holds the flock exclusively

Proc == Runs \cup Inits \cup Upgrades

ASSUME CollectorAssumption ==
  /\ Runs \cap Inits = {} /\ Runs \cap Upgrades = {} /\ Inits \cap Upgrades = {}
  /\ NoProc \notin Proc
  /\ StaleAfter \in Nat
  /\ LockAttempts \in Nat \ {0}
  /\ CheckpointAttempts \in Nat \ {0}
  /\ MaxFaults \in Nat

VARIABLES
  pc,         \* pc[p]: where the process of slot p is; "gone" when there is none
  pid,        \* pid[p]: its process id, which its row keeps after it is gone
  attempt,    \* attempt[p]: which flock or checkpoint attempt it is on
  excl,       \* the process whose file description holds LOCK_EX, or NoProc
  shared,     \* the probers whose description holds LOCK_SH
  foreign,    \* pids in use by programs that are not ours
  status,     \* status[p]: the row of slot p, "none" before it is inserted
  age,        \* age[p]: ticks since the row's last beat, while it is running
  verdict,    \* verdict[p]: rows p's stale sweep has condemned in its transaction
  overtaken,  \* sweepers whose read snapshot another commit has made stale
  announced,  \* rows a notification has named as crashed
  twin,       \* runs that recorded a no_other_running_rows violation
  faults      \* faults so far

lockVars == <<excl, shared>>
rowVars  == <<status, age, announced>>
vars == <<pc, pid, attempt, lockVars, foreign, rowVars, verdict, overtaken,
          twin, faults>>

-----------------------------------------------------------------------------
(* Types and phases.                                                        *)

Outcomes == {"ok", "partial", "failed", "rate_limited"}
Statuses == Outcomes \cup {"none", "running", "cancelled", "crashed", "skipped_locked"}
Holding  == {"recover", "mark", "announce", "start", "work", "check", "close",
             "checkpoint", "reclose", "release"}
Phases   == Holding \cup {"gone", "locking", "skip", "exit"}

TypeOK ==
  /\ pc \in [Proc -> Phases]
  /\ pid \in [Proc -> Pid]
  /\ attempt \in [Proc -> Nat]
  /\ excl \in Proc \cup {NoProc}
  /\ shared \subseteq Probers
  /\ foreign \subseteq Pid
  /\ status \in [Proc -> Statuses]
  /\ age \in [Proc -> 0 .. StaleAfter + 1]
  /\ verdict \in [Proc -> SUBSET Proc]
  /\ overtaken \subseteq Proc
  /\ announced \subseteq Proc
  /\ twin \subseteq Proc
  /\ faults \in 0 .. MaxFaults

Init ==
  /\ pc = [p \in Proc |-> "gone"]
  /\ pid \in [Proc -> Pid]
  /\ attempt = [p \in Proc |-> 1]
  /\ excl = NoProc /\ shared = {} /\ foreign = {}
  /\ status = [p \in Proc |-> "none"]
  /\ age = [p \in Proc |-> 0]
  /\ verdict = [p \in Proc |-> {}]
  /\ overtaken = {} /\ announced = {} /\ twin = {}
  /\ faults = 0

Goto(p, phase) == pc' = [pc EXCEPT ![p] = phase]

-----------------------------------------------------------------------------
(* The process table.                                                       *)

LivePids == {pid[p] : p \in {q \in Proc : pc[q] # "gone"}}

\* os.kill(x, 0): some process has this id, ours or not.
PidAlive(x) == x \in LivePids \cup foreign

\* A command is started by launchd or the operator; the system gives it an id
\* no living process has.
Launch(p) ==
  /\ pc[p] = "gone" /\ status[p] # "running"
  /\ \A q \in Proc : p \notin verdict[q]
  /\ \E x \in Pid : ~PidAlive(x) /\ pid' = [pid EXCEPT ![p] = x]
  /\ Goto(p, "locking")
  /\ status' = [status EXCEPT ![p] = "none"]
  /\ announced' = announced \ {p}
  /\ UNCHANGED <<attempt, lockVars, foreign, age, verdict, overtaken, twin, faults>>

\* The interpreter ends some time after the flock is released.
Exit(p) ==
  /\ pc[p] = "exit"
  /\ Goto(p, "gone")
  /\ UNCHANGED <<pid, attempt, lockVars, foreign, rowVars, verdict, overtaken,
                 twin, faults>>

\* Other programs come and go and take the ids our processes leave; they never
\* exhaust them.
ForeignStart(x) ==
  /\ ~PidAlive(x) /\ foreign \cup {x} # Pid
  /\ foreign' = foreign \cup {x}
  /\ UNCHANGED <<pc, pid, attempt, lockVars, rowVars, verdict, overtaken, twin, faults>>

ForeignExit(x) ==
  /\ x \in foreign
  /\ foreign' = foreign \ {x}
  /\ UNCHANGED <<pc, pid, attempt, lockVars, rowVars, verdict, overtaken, twin, faults>>

-----------------------------------------------------------------------------
(* The flock.                                                               *)

\* Slip: only other probes are looked at.
FlockFree_IgnoringHolder == shared = {}

FlockFree == excl = NoProc /\ shared = {}

\* flock(LOCK_EX | LOCK_NB) succeeds.  `db upgrade` opens its row at once, the
\* other two sweep first.
Acquire(p) ==
  /\ pc[p] = "locking" /\ FlockFree
  /\ excl' = p
  /\ attempt' = [attempt EXCEPT ![p] = 1]
  /\ Goto(p, IF p \in Upgrades THEN "start" ELSE "recover")
  /\ UNCHANGED <<pid, shared, foreign, rowVars, verdict, overtaken, twin, faults>>

\* It is refused, by an exclusive holder or by a shared probe, and tries again
\* after a pause that outlasts every probe in progress (50 ms against microseconds).
Retry(p) ==
  /\ pc[p] = "locking" /\ ~FlockFree /\ attempt[p] < LockAttempts
  /\ attempt' = [attempt EXCEPT ![p] = @ + 1]
  /\ shared' = {}
  /\ UNCHANGED <<pc, pid, excl, foreign, rowVars, verdict, overtaken, twin, faults>>

\* Slip: the loop runs out of attempts and falls through into the body.
GiveUp_IntoTheBody(p) ==
  /\ pc[p] = "locking" /\ ~FlockFree /\ attempt[p] >= LockAttempts
  /\ attempt' = [attempt EXCEPT ![p] = 1]
  /\ Goto(p, "recover")
  /\ UNCHANGED <<pid, lockVars, foreign, rowVars, verdict, overtaken, twin, faults>>

\* LockHeldError after the last attempt; `db init` records nothing.
GiveUp(p) ==
  /\ pc[p] = "locking" /\ ~FlockFree /\ attempt[p] >= LockAttempts
  /\ attempt' = [attempt EXCEPT ![p] = 1]
  /\ Goto(p, IF p \in Inits THEN "exit" ELSE "skip")
  /\ UNCHANGED <<pid, lockVars, foreign, rowVars, verdict, overtaken, twin, faults>>

\* The context manager closes the description on every path out of the body.
Release(p) ==
  /\ pc[p] = "release"
  /\ excl' = NoProc
  /\ Goto(p, "exit")
  /\ UNCHANGED <<pid, attempt, shared, foreign, rowVars, verdict, overtaken, twin, faults>>

\* is_held: a shared probe, refused only by an exclusive holder, dropped at once.
ProbeBegin(d) ==
  /\ excl = NoProc /\ d \notin shared
  /\ shared' = shared \cup {d}
  /\ UNCHANGED <<pc, pid, attempt, excl, foreign, rowVars, verdict, overtaken, twin, faults>>

ProbeEnd(d) ==
  /\ d \in shared
  /\ shared' = shared \ {d}
  /\ UNCHANGED <<pc, pid, attempt, excl, foreign, rowVars, verdict, overtaken, twin, faults>>

-----------------------------------------------------------------------------
(* A refused command records the attempt, without the flock.  Its commit    *)
(* invalidates the read snapshot of a stale sweep in progress.              *)

Sweeping == {p \in Proc : pc[p] = "mark"}

RecordSkippedLocked(p) ==
  /\ pc[p] = "skip"
  /\ status' = [status EXCEPT ![p] = "skipped_locked"]
  /\ overtaken' = overtaken \cup Sweeping
  /\ Goto(p, "exit")
  /\ UNCHANGED <<pid, attempt, lockVars, foreign, age, announced, verdict, twin, faults>>

\* DatabaseError: the holder is busy or mid-migration; the attempt goes unrecorded.
SkipUnrecorded(p) ==
  /\ pc[p] = "skip"
  /\ Goto(p, "exit")
  /\ UNCHANGED <<pid, attempt, lockVars, foreign, rowVars, verdict, overtaken, twin, faults>>

-----------------------------------------------------------------------------
(* The stale sweep (T1): one deferred transaction that reads every running  *)
(* row, judges it against the process table, and then writes.               *)

\* Slip: the clause about late heartbeats is dropped.
IsCrashed_ByPidOnly(q, p) == ~PidAlive(pid[q]) \/ pid[q] = pid[p]

IsCrashed(q, p) ==
  \/ ~PidAlive(pid[q])
  \/ pid[q] = pid[p]
  \/ age[q] > StaleAfter

\* Slip: this_run_pk is not excluded.
SweepRead_OwnRowToo(p) ==
  /\ pc[p] = "recover"
  /\ verdict' = [verdict EXCEPT ![p] = {q \in Proc : status[q] = "running" /\ IsCrashed(q, p)}]
  /\ Goto(p, "mark")
  /\ UNCHANGED <<pid, attempt, lockVars, foreign, rowVars, overtaken, twin, faults>>

\* Slip: the crashed rows are announced inside the transaction, before its commit.
SweepRead_Announcing(p) ==
  /\ pc[p] = "recover"
  /\ verdict' = [verdict EXCEPT ![p] =
       {q \in Proc : status[q] = "running" /\ q # p /\ IsCrashed(q, p)}]
  /\ announced' = announced \cup verdict'[p]
  /\ Goto(p, "mark")
  /\ UNCHANGED <<pid, attempt, lockVars, foreign, status, age, overtaken, twin, faults>>

\* `this_run_pk`: only `db upgrade` has opened its own row before it sweeps.
SweepRead(p) ==
  /\ pc[p] = "recover"
  /\ verdict' = [verdict EXCEPT ![p] =
       {q \in Proc : status[q] = "running" /\ q # p /\ IsCrashed(q, p)}]
  /\ Goto(p, "mark")
  /\ UNCHANGED <<pid, attempt, lockVars, foreign, rowVars, overtaken, twin, faults>>

AfterSweep(p) == IF p \in Upgrades THEN "close" ELSE "start"

\* mark_runs and the commit.  `run` goes on to announce what it found; the
\* lifecycle commands do not.
SweepWrite(p) ==
  /\ pc[p] = "mark" /\ (verdict[p] = {} \/ p \notin overtaken)
  /\ status' = [q \in Proc |-> IF q \in verdict[p] THEN "crashed" ELSE status[q]]
  /\ age' = [q \in Proc |-> IF q \in verdict[p] THEN 0 ELSE age[q]]
  /\ IF p \in Runs
     THEN Goto(p, "announce") /\ UNCHANGED verdict
     ELSE Goto(p, AfterSweep(p)) /\ verdict' = [verdict EXCEPT ![p] = {}]
  /\ overtaken' = overtaken \ {p}
  /\ UNCHANGED <<pid, attempt, lockVars, foreign, announced, twin, faults>>

\* SQLITE_BUSY_SNAPSHOT: the write is refused at once, whatever the busy timeout,
\* and the OperationalError escapes the command.
SweepOvertaken(p) ==
  /\ pc[p] = "mark" /\ verdict[p] # {} /\ p \in overtaken
  /\ verdict' = [verdict EXCEPT ![p] = {}]
  /\ overtaken' = overtaken \ {p}
  /\ Goto(p, "release")
  /\ UNCHANGED <<pid, attempt, lockVars, foreign, rowVars, twin, faults>>

\* One notification per condemned row, after the commit.
Announce(p) ==
  /\ pc[p] = "announce"
  /\ \/ \E q \in verdict[p] :
          /\ announced' = announced \cup {q}
          /\ verdict' = [verdict EXCEPT ![p] = @ \ {q}]
          /\ UNCHANGED pc
     \/ /\ verdict[p] = {}
        /\ Goto(p, "start")
        /\ UNCHANGED <<announced, verdict>>
  /\ UNCHANGED <<pid, attempt, lockVars, foreign, status, age, overtaken, twin, faults>>

-----------------------------------------------------------------------------
(* A command's own row.                                                     *)

\* T2 (T9 in `db upgrade`): the row is committed before any work.
StartRun(p) ==
  /\ pc[p] = "start"
  /\ status' = [status EXCEPT ![p] = "running"]
  /\ age' = [age EXCEPT ![p] = 0]
  /\ Goto(p, "work")
  /\ UNCHANGED <<pid, attempt, lockVars, foreign, announced, verdict, overtaken, twin, faults>>

\* T4.  The UPDATE is by primary key, whatever the row's status.
Heartbeat(p) ==
  /\ pc[p] = "work"
  /\ age' = [age EXCEPT ![p] = 0]
  /\ UNCHANGED <<pc, pid, attempt, lockVars, foreign, status, announced, verdict,
                 overtaken, twin, faults>>

\* The body is over: `run` evaluates its invariants, `db upgrade` has reached
\* head and sweeps, `db init` closes.
EndWork(p) ==
  /\ pc[p] = "work"
  /\ Goto(p, IF p \in Runs THEN "check" ELSE IF p \in Upgrades THEN "recover" ELSE "close")
  /\ UNCHANGED <<pid, attempt, lockVars, foreign, rowVars, verdict, overtaken, twin, faults>>

\* `db upgrade` aborts or restores its backup: the row is closed, nothing swept.
UpgradeFails(p) ==
  /\ pc[p] = "work" /\ p \in Upgrades
  /\ status' = [status EXCEPT ![p] = "failed"]
  /\ age' = [age EXCEPT ![p] = 0]
  /\ Goto(p, "release")
  /\ UNCHANGED <<pid, attempt, lockVars, foreign, announced, verdict, overtaken, twin, faults>>

\* T7: the invariant no_other_running_rows.
CheckInvariants(p) ==
  /\ pc[p] = "check"
  /\ twin' = IF \E q \in Proc \ {p} : status[q] = "running" THEN twin \cup {p} ELSE twin
  /\ Goto(p, "close")
  /\ UNCHANGED <<pid, attempt, lockVars, foreign, rowVars, verdict, overtaken, faults>>

\* T8: finish_run is an unguarded UPDATE by primary key.  A failure violation
\* outranks whatever the body ended with.
Close(p) ==
  /\ pc[p] = "close"
  /\ \E o \in (IF p \in Runs THEN Outcomes ELSE IF p \in Inits THEN {"ok", "failed"} ELSE {"ok"}) :
       status' = [status EXCEPT ![p] = IF p \in twin THEN "failed" ELSE o]
  /\ age' = [age EXCEPT ![p] = 0]
  /\ twin' = twin \ {p}
  /\ Goto(p, IF p \in Runs THEN "checkpoint" ELSE "release")
  /\ UNCHANGED <<pid, attempt, lockVars, foreign, announced, verdict, overtaken, faults>>

\* Ctrl-C during the sweep of the sources: the one place it is caught.
Cancel(p) ==
  /\ pc[p] = "work" /\ p \in Runs /\ faults < MaxFaults
  /\ status' = [status EXCEPT ![p] = "cancelled"]
  /\ age' = [age EXCEPT ![p] = 0]
  /\ Goto(p, "checkpoint")
  /\ faults' = faults + 1
  /\ UNCHANGED <<pid, attempt, lockVars, foreign, announced, verdict, overtaken, twin>>

\* The closing checkpoint meets a reader on some attempts, perhaps on all.
CheckpointDone(p) ==
  /\ pc[p] = "checkpoint"
  /\ attempt' = [attempt EXCEPT ![p] = 1]
  /\ Goto(p, "release")
  /\ UNCHANGED <<pid, lockVars, foreign, rowVars, verdict, overtaken, twin, faults>>

\* Slip: the retry loop has no bound.
CheckpointBusy_Unbounded(p) ==
  /\ pc[p] = "checkpoint"
  /\ attempt' = [attempt EXCEPT ![p] = IF @ < CheckpointAttempts THEN @ + 1 ELSE 1]
  /\ UNCHANGED <<pc, pid, lockVars, foreign, rowVars, verdict, overtaken, twin, faults>>

CheckpointBusy(p) ==
  /\ pc[p] = "checkpoint"
  /\ IF attempt[p] < CheckpointAttempts
     THEN attempt' = [attempt EXCEPT ![p] = @ + 1] /\ UNCHANGED pc
     ELSE attempt' = [attempt EXCEPT ![p] = 1] /\ Goto(p, "reclose")
  /\ UNCHANGED <<pid, lockVars, foreign, rowVars, verdict, overtaken, twin, faults>>

\* Slip: the second close forgets what the first one said.
WithWarning_Always(s) == "partial"

\* The row is closed a second time with the warning: only an `ok` becomes `partial`.
WithWarning(s) == IF s = "ok" THEN "partial" ELSE s

Reclose(p) ==
  /\ pc[p] = "reclose"
  /\ status' = [status EXCEPT ![p] = WithWarning(@)]
  /\ Goto(p, "release")
  /\ UNCHANGED <<pid, attempt, lockVars, foreign, age, announced, verdict, overtaken,
                 twin, faults>>

-----------------------------------------------------------------------------
(* Faults.  What the process had in memory goes with it.                    *)

Forget(p) ==
  /\ verdict' = [verdict EXCEPT ![p] = {}]
  /\ attempt' = [attempt EXCEPT ![p] = 1]
  /\ overtaken' = overtaken \ {p}
  /\ twin' = twin \ {p}

\* An exception, or an interrupt outside the one catch site, escapes: the flock
\* is released on the way out and the row stays as it was.
Fail(p) ==
  /\ pc[p] \in Holding \ {"release"} /\ faults < MaxFaults
  /\ Goto(p, "release")
  /\ Forget(p)
  /\ faults' = faults + 1
  /\ UNCHANGED <<pid, lockVars, foreign, rowVars>>

\* The process is killed anywhere: the system closes its descriptions.
Kill(p) ==
  /\ pc[p] # "gone" /\ faults < MaxFaults
  /\ Goto(p, "gone")
  /\ excl' = IF excl = p THEN NoProc ELSE excl
  /\ Forget(p)
  /\ faults' = faults + 1
  /\ UNCHANGED <<pid, shared, foreign, rowVars>>

\* Time passes for every running row; past the threshold only "stale" matters.
Tick ==
  /\ age' = [p \in Proc |-> IF status[p] = "running" /\ age[p] <= StaleAfter
                            THEN age[p] + 1 ELSE age[p]]
  /\ age' # age
  /\ UNCHANGED <<pc, pid, attempt, lockVars, foreign, status, announced, verdict,
                 overtaken, twin, faults>>

-----------------------------------------------------------------------------
\* What a process does by itself, faults left out.
Step(p) ==
  \/ Exit(p) \/ Acquire(p) \/ Retry(p) \/ GiveUp(p) \/ Release(p)
  \/ RecordSkippedLocked(p) \/ SkipUnrecorded(p)
  \/ SweepRead(p) \/ SweepWrite(p) \/ SweepOvertaken(p) \/ Announce(p)
  \/ StartRun(p) \/ EndWork(p) \/ UpgradeFails(p) \/ CheckInvariants(p)
  \/ Close(p) \/ CheckpointDone(p) \/ CheckpointBusy(p) \/ Reclose(p)

Next ==
  \/ \E p \in Proc : Launch(p) \/ Step(p) \/ Heartbeat(p) \/ Cancel(p) \/ Fail(p) \/ Kill(p)
  \/ \E d \in Probers : ProbeBegin(d) \/ ProbeEnd(d)
  \/ \E x \in Pid : ForeignStart(x) \/ ForeignExit(x)
  \/ Tick

Spec == Init /\ [][Next]_vars
-----------------------------------------------------------------------------
(* Properties.                                                              *)

\* The command of slot p is executing and its row, if closed, may still change.
Live(p) == \/ pc[p] \in {"work", "check", "close", "checkpoint", "reclose"}
           \/ p \in Upgrades /\ pc[p] \in {"recover", "mark"}

Executing == {p \in Proc : Live(p)}

\* Two commands are never inside the lock together: the bounded retry gives up
\* rather than enter, and a shared probe never stands in for a holder.
MutualExclusion ==
  \A p, q \in Proc : pc[p] \in Holding /\ pc[q] \in Holding => p = q

\* The sweep condemns only rows whose command is over, although it judges by
\* pids that are reused and by heartbeats that may be late, and although
\* `db upgrade` sweeps while its own row is open.
SweepSparesTheLiving == \A p \in Proc : status[p] = "crashed" => ~Live(p)

\* A notification only ever names a row that really was closed `crashed`: the
\* sweep announces after its commit, which may be refused.
AnnouncedAreCrashed == announced \subseteq {p \in Proc : status[p] = "crashed"}

\* A settled row is history.  Within the life of one command the only rewrite
\* is the one that adds the checkpoint warning to a clean close; nothing makes a
\* failed, cancelled or crashed row look better, or a cancelled one differ.
RowsStand ==
  \A p \in Proc : status[p] \notin {"none", "running"} /\ pc[p] # "gone" =>
    \/ status'[p] = status[p]
    \/ status[p] = "ok" /\ status'[p] = "partial"

SettledRowsStand == [][RowsStand]_vars

\* The rows behave as the ledger promises whatever the pids, the clock, the
\* probes and the kills do.
Ledger == INSTANCE RunLedger
            WITH Row <- Proc, status <- status, live <- Executing
ImplementsLedger == Ledger!Spec

-----------------------------------------------------------------------------
(* Fairness.  A process that can step does, a probe is dropped at once, the *)
(* clock runs, launchd keeps starting commands.  Two strong conditions rule *)
(* out schedules the code's delays make absurd: a free flock missed at every *)
(* attempt of every command for ever, and another command's skip record     *)
(* landing in the instant between read and write of every sweep for ever.   *)

Fairness ==
  /\ \A p \in Proc : /\ SF_vars(Launch(p))
                     /\ WF_vars(Step(p))
                     /\ SF_vars(Acquire(p))
                     /\ SF_vars(SweepWrite(p))
  /\ \A d \in Probers : WF_vars(ProbeEnd(d))
  /\ WF_vars(Tick)

FairSpec == Spec /\ Fairness

\* No command waits for ever: not on the flock, not on a reader's checkpoint.
EveryCommandEnds == \A p \in Proc : pc[p] # "gone" ~> pc[p] = "gone"

\* The row a killed command left `running` is closed by a later one, even when
\* its pid now belongs to a program that never ends.
DeadRowsSettle ==
  \A p \in Proc : status[p] = "running" /\ pc[p] = "gone" ~> status[p] # "running"
=============================================================================
