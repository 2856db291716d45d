------------------------------ MODULE RunBody ------------------------------
(***************************************************************************)
(* The body of `run` over all the sources, one run after another: the      *)
(* source list, the ping, one sweep per source with its terminal           *)
(* transaction and the announcements that follow it, the invariants, the   *)
(* status, the row, the exit code -- and `doctor`, which looks on.  What   *)
(* happens inside one sweep is SourceSweep, inside one fetch FetchLadder,  *)
(* inside the lock Collector.                                              *)
(***************************************************************************)
EXTENDS Doctor, Sequences

CONSTANTS
  Sources,        \* the configured sources, numbered as name_lower orders them
  RedirectLimit, QuarantineLimit,   \* REDIRECT_ and QUARANTINE_DISABLE_AFTER
  Window,         \* FRESHNESS_WINDOW
  Outages,        \* what besides "failed" can end a run: "rate_limited", "network"
  MaxRuns,        \* bound: rows
  MaxFaults       \* bound: whatever does not go as it should

ASSUME RunBodyAssumption ==
  /\ Sources \subseteq Nat /\ IsFiniteSet(Sources)
  /\ {RedirectLimit, QuarantineLimit, Window} \subseteq Nat \ {0}
  /\ Window <= RedirectLimit + 1 /\ Window <= QuarantineLimit + 1
  /\ Outages \subseteq {"rate_limited", "network"} /\ {MaxRuns, MaxFaults} \subseteq Nat

VARIABLES
  disk,       \* the database file: "missing", "empty" (no schema), "ok", "damaged" (opens,
              \* reads fail), "sealed" (will not open), "behind" (below this build's head)
  src,        \* subreddits: enabled, status, consecutive_failures
  runs,       \* the runs table, with the stop reasons of run_subreddits
  stage,      \* where the process is: "idle" for none
  me, dry,    \* its row (0 for none), and whether it writes nothing
  queue,      \* the sources still to sweep
  warned, terminal, override,   \* RunContext.warnings, SweepResult's status and exit code
  complaints, \* the violations' severities
  unsaid,     \* what a committed terminal transaction has earned and nobody has said yet
  told,       \* history: notifications sent: rows, and sources that left collection
  exit,       \* the last exit code
  owed,       \* history: the sources enabled when the run read its list
  done,       \* history: those it swept to the end with nothing to warn of
  left,       \* history: sources that failures drove out of collection
  refused,    \* history: sources last found private or gone
  silenced,   \* history: a kill or a Ctrl-C swallowed an announcement
  view,       \* what the doctor has read of the rows; it has yet to look at the lock
  report,     \* how the doctor's list came out: "none", "green", "red", "traceback"
  faults

world  == <<disk, src, runs>>
run    == <<stage, me, dry, queue, warned, terminal, override, complaints, unsaid, exit>>
hist   == <<told, owed, done, left, refused, silenced>>
doctor == <<view, report>>
vars   == <<world, run, hist, doctor, faults>>

Closed == {"ok", "partial", "failed", "rate_limited", "network", "cancelled", "crashed",
           "skipped_locked"}
SourceStatuses == {"ok", "error", "forbidden", "not_found", "redirect", "quarantined"}
Stops == {"none", "short", "read"}  \* no row; null or error; exhausted or cap
Terminals == {"none", "failed"} \cup Outages
ExitCodes == {0, 1, 3, 4, 5, 75, 78, 130, 137}   \* 137: killed

RunRow == [status : Closed \cup {"running"}, stops : [Sources -> Stops]]
SourceRow == [enabled : BOOLEAN, status : SourceStatuses, failures : Nat]

TypeOK ==
  /\ disk \in {"missing", "empty", "ok", "damaged", "sealed", "behind"}
  /\ src \in [Sources -> SourceRow]
  /\ runs \in Seq(RunRow)
  /\ stage \in {"idle", "locked", "sources", "preflight", "sweep", "say", "judge", "close", "tell"}
  /\ me \in 0 .. Len(runs) /\ dry \in BOOLEAN
  /\ queue \subseteq Sources /\ warned \in BOOLEAN
  /\ terminal \in Terminals /\ override \in BOOLEAN
  /\ complaints \subseteq {"warning", "failure"}
  /\ exit \in ExitCodes /\ report \in {"none", "green", "red", "traceback"} /\ faults \in 0 .. MaxFaults

NoRows == [s \in Sources |-> "none"]
Nothing == [source |-> 0, disabled |-> FALSE, gap |-> FALSE]
NoView == [open |-> FALSE]
Idle ==  \* no process: nothing of the last one is left
  /\ stage' = "idle" /\ me' = 0 /\ dry' = FALSE /\ queue' = {} /\ warned' = FALSE
  /\ terminal' = "none" /\ override' = FALSE /\ complaints' = {} /\ unsaid' = Nothing
  /\ owed' = {} /\ done' = {}

Init ==
  /\ disk \in {"missing", "ok"}
  /\ src = [s \in Sources |-> [enabled |-> TRUE, status |-> "ok", failures |-> 0]]
  /\ runs = <<>> /\ stage = "idle" /\ me = 0 /\ dry = FALSE /\ queue = {}
  /\ warned = FALSE /\ terminal = "none" /\ override = FALSE /\ complaints = {}
  /\ unsaid = Nothing /\ exit = 0
  /\ told = {} /\ owed = {} /\ done = {} /\ left = {} /\ refused = {}
  /\ silenced = FALSE /\ view = NoView /\ report = "none" /\ faults = 0

Fault == faults < MaxFaults /\ faults' = faults + 1
Fine  == UNCHANGED faults

-----------------------------------------------------------------------------
(* Around the commands.                                                     *)

\* `db init`, which may die when it has made the file and not the schema.
DbInit ==
  /\ stage = "idle" /\ disk \in {"missing", "empty"}
  /\ \/ disk' = "ok" /\ Fine
     \/ disk' = "empty" /\ Fault
  /\ UNCHANGED <<src, runs, run, hist, doctor>>

\* The disk loses a page, the header, or the file; or a newer build is installed.
Damage ==
  /\ stage = "idle" /\ disk = "ok" /\ Fault
  /\ disk' \in {"damaged", "sealed", "missing", "behind"}
  /\ UNCHANGED <<src, runs, run, hist, doctor>>

\* A source muted by hand, or taken in again.
ByHand(s) ==
  /\ stage = "idle" /\ disk = "ok" /\ Fault
  /\ src' = [src EXCEPT ![s].enabled = ~@]
  /\ left' = left \ {s}
  /\ UNCHANGED <<disk, runs, run, told, owed, done, refused, silenced, doctor>>

-----------------------------------------------------------------------------
(* The command, up to its row.                                              *)

CanLaunch == stage = "idle" /\ disk = "ok" /\ Len(runs) < MaxRuns

\* _run_ordered, on a database at head: a run takes the lock.
Launch ==
  /\ CanLaunch /\ stage' = "locked"
  /\ UNCHANGED <<world, me, dry, queue, warned, terminal, override, complaints, unsaid, exit, hist,
                 doctor, faults>>

\* dry_context: a dry run looks at the lock, opens the file read-only and has no row.
LaunchDry ==
  /\ CanLaunch /\ stage' = "sources" /\ dry' = TRUE
  /\ UNCHANGED <<world, me, queue, warned, terminal, override, complaints, unsaid, exit, hist,
                 doctor, faults>>

\* Another `run` finds the lock held and leaves a row that swept nothing.
SkippedLocked ==
  /\ stage # "idle" /\ ~dry /\ me # 0 /\ Len(runs) < MaxRuns
  /\ Fault
  /\ runs' = Append(runs, [status |-> "skipped_locked", stops |-> NoRows])
  /\ UNCHANGED <<disk, src, run, hist, doctor>>

\* T1 closes and announces the rows of dead processes; T2 opens this one's.
StartRun ==
  /\ stage = "locked"
  /\ LET dead == {i \in DOMAIN runs : runs[i].status = "running"}
     IN  /\ runs' = Append([i \in DOMAIN runs |->
                              IF i \in dead THEN [runs[i] EXCEPT !.status = "crashed"]
                              ELSE runs[i]],
                           [status |-> "running", stops |-> NoRows])
         /\ told' = told \cup {[row |-> i] : i \in dead}
  /\ me' = Len(runs) + 1 /\ stage' = "sources"
  /\ UNCHANGED <<disk, src, dry, queue, warned, terminal, override, complaints, unsaid, exit, owed,
                 done, left, refused, silenced, doctor, faults>>

-----------------------------------------------------------------------------
(* sweep_all.                                                               *)

Warn == warned' = TRUE
Quiet == UNCHANGED warned

\* RunTerminalError, or a database that cannot be read: the run goes to its end.
EndsWith(status) ==
  /\ terminal' = status /\ stage' = "judge"
  /\ UNCHANGED <<disk, src, me, dry, queue, warned, complaints, unsaid, exit, told, owed, done,
                 left, refused, silenced, doctor>>

Enabled == {s \in Sources : src[s].enabled}

ReadSources ==
  /\ stage = "sources"
  /\ queue' = Enabled /\ owed' = Enabled
  /\ IF Enabled = {} THEN Warn /\ stage' = "judge" ELSE Quiet /\ stage' = "preflight"
  /\ UNCHANGED <<world, me, dry, terminal, override, complaints, unsaid, exit, told, done, left, refused,
                 silenced, doctor, faults>>

SourcesUnreadable ==
  /\ stage = "sources" /\ Fault
  /\ EndsWith("failed") /\ UNCHANGED <<override, runs>>

\* A source's own 403 or 404 proves the credentials; an unclear failure is a warning.
Preflight ==
  /\ stage = "preflight" /\ stage' = "sweep"
  /\ \/ Quiet /\ Fine
     \/ Warn /\ Fault
  /\ UNCHANGED <<world, me, dry, queue, terminal, override, complaints, unsaid, exit, hist, doctor>>

\* Rejected credentials end the run with exit code 78.
AuthFailed == override' = TRUE /\ EndsWith("failed")

PreflightEnds ==
  /\ stage = "preflight" /\ Fault /\ UNCHANGED runs
  /\ \/ AuthFailed
     \/ UNCHANGED override /\ \E t \in Terminals \ {"none"} : EndsWith(t)

IsNext(s) == stage = "sweep" /\ s \in queue /\ \A t \in queue : s <= t

\* The row of one source in this run.
Recorded(s, stop) == IF dry THEN runs ELSE [runs EXCEPT ![me].stops[s] = stop]

Swept == stage = "sweep" /\ queue = {} /\ stage' = "judge"
         /\ UNCHANGED <<world, me, dry, queue, warned, terminal, override, complaints, unsaid, exit,
                        hist, doctor, faults>>

\* The ceiling or the budget, before a source.
StopsShort(s) ==
  /\ IsNext(s) /\ Fault
  /\ Warn /\ stage' = "judge"
  /\ UNCHANGED <<world, me, dry, queue, terminal, override, complaints, unsaid, exit, hist, doctor>>

\* The same inside a source: its row has no stop reason, its status stays.
Interrupted(s) ==
  /\ IsNext(s) /\ Fault
  /\ Warn /\ queue' = queue \ {s}
  /\ runs' = Recorded(s, "short")
  /\ UNCHANGED <<disk, src, stage, me, dry, terminal, override, complaints, unsaid, exit, hist,
                 doctor>>

\* A run-level failure inside a source's paging, with or without a page committed.
SweepEnds(s) ==
  /\ IsNext(s) /\ Fault
  /\ runs' \in {runs, Recorded(s, "short")}
  /\ \/ AuthFailed
     \/ UNCHANGED override /\ \E t \in Terminals \ {"none"} : EndsWith(t)

\* The terminal transaction is refused: the progress row stands, the status stays.
FinishFails(s) ==
  /\ IsNext(s) /\ ~dry /\ Fault
  /\ Warn /\ queue' = queue \ {s}
  /\ runs' \in {runs, Recorded(s, "short")}
  /\ UNCHANGED <<disk, src, stage, me, dry, terminal, override, complaints, unsaid, exit, hist,
                 doctor>>

\* The listing was read to its end or to the cap -- then with a gap in it or not -- and T6 committed.
SweptWell(s) ==
  /\ IsNext(s)
  /\ runs' = Recorded(s, "read")
  /\ src' = IF dry THEN src ELSE [src EXCEPT ![s] = [@ EXCEPT !.status = "ok", !.failures = 0]]
  /\ \E gap \in BOOLEAN :
       /\ unsaid' = IF dry THEN Nothing ELSE [Nothing EXCEPT !.source = s, !.gap = gap]
       /\ done' = IF gap /\ ~dry THEN done ELSE done \cup {s}
       /\ refused' = IF dry THEN refused ELSE refused \ {s}
  /\ queue' = queue \ {s} /\ stage' = IF dry THEN "sweep" ELSE "say"
  /\ UNCHANGED <<disk, me, dry, warned, terminal, override, complaints, exit, told, owed, left,
                 silenced, doctor, faults>>

\* _FAILURE_TABLE: how many failures in all disable the source, 0 for never.
Limit(status) ==
  CASE status = "redirect" -> RedirectLimit [] status = "quarantined" -> QuarantineLimit
    [] OTHER -> 0

\* record_subreddit_failure.
Failed(row, status) ==
  [row EXCEPT !.status = status, !.failures = @ + 1,
              !.enabled = @ /\ ~(Limit(status) > 0 /\ row.failures + 1 >= Limit(status))]

\* A failure of this source alone (a 404 for a 403 too: they differ in the status): the warning first, then T6, then what T6 earned.
SourceFails(s) ==
  /\ IsNext(s) /\ Fault
  /\ Warn /\ queue' = queue \ {s} /\ stage' = IF dry THEN "sweep" ELSE "say"
  /\ runs' = Recorded(s, "short")
  /\ \E status \in SourceStatuses \ {"ok", "forbidden"} :
       /\ src' = IF dry THEN src ELSE [src EXCEPT ![s] = Failed(@, status)]
       /\ unsaid' = IF dry THEN Nothing
                    ELSE [source |-> s, disabled |-> ~src'[s].enabled, gap |-> FALSE]
       /\ left' = IF ~dry /\ ~src'[s].enabled THEN left \cup {s} ELSE left
       /\ refused' = IF dry THEN refused
                     ELSE IF status \in {"forbidden", "not_found"} THEN refused \cup {s}
                     ELSE refused \ {s}
  /\ UNCHANGED <<disk, me, dry, terminal, override, complaints, exit, told, owed, done, silenced,
                 doctor>>

\* After the commit: the disable is warned of and notified, the gap warned of.
Say ==
  /\ stage = "say"
  /\ stage' = "sweep" /\ unsaid' = Nothing
  /\ warned' = (warned \/ unsaid.disabled \/ unsaid.gap)
  /\ told' = IF unsaid.disabled THEN told \cup {[source |-> unsaid.source]} ELSE told
  /\ UNCHANGED <<world, me, dry, queue, terminal, override, complaints, exit, owed, done, left, refused,
                 silenced, doctor, faults>>

-----------------------------------------------------------------------------
(* The end of the run.                                                      *)

\* recent_sweeping_runs: rows with some source's row, closed or this run's own.
Sweeping(i) ==
  /\ \E s \in Sources : runs[i].stops[s] # "none"
  /\ i = me \/ runs[i].status \in Closed \ {"skipped_locked"}

Newest(n, set) == {i \in set : Cardinality({j \in set : j > i}) < n}

\* Slip: a source that failures disabled leaves the population with them.
Population_EnabledOnly == Enabled

\* all_sources_for_freshness.
Population == {s \in Sources : src[s].enabled \/ src[s].status # "ok"}

\* per_source_freshness.
Stale ==
  LET window == Newest(Window, {i \in 1 .. me : Sweeping(i)})
  IN  IF terminal # "none" \/ Cardinality(window) < Window THEN {}
      ELSE {s \in Population : \A i \in window : runs[i].stops[s] # "read"}

\* check_all: freshness; the statistics of the rows written; the counters, the index and an
\* invariant that crashes.
Judge ==
  /\ stage = "judge" /\ stage' = "close"
  /\ \/ complaints' = (IF ~dry /\ Stale # {} THEN {"warning"} ELSE {}) /\ Fine
     \/ ~dry /\ Fault /\ \E c \in {"warning", "failure"} :
          complaints' = {c} \cup (IF Stale # {} THEN {"warning"} ELSE {})
  /\ UNCHANGED <<world, me, dry, queue, warned, terminal, override, unsaid, exit, hist, doctor>>

\* Slip: a violation's severity is taken for the status of the run.
Resolve_Severity(warn) ==
  IF complaints # {} THEN CHOOSE c \in complaints : TRUE
  ELSE IF terminal # "none" THEN terminal ELSE IF warn THEN "partial" ELSE "ok"

\* resolve_status.
Resolve(warn) ==
  IF "failure" \in complaints THEN "failed"
  ELSE IF terminal # "none" THEN terminal
  ELSE IF warn \/ "warning" \in complaints THEN "partial" ELSE "ok"

\* EXIT_CODES.
ExitCode(status) ==
  CASE status = "ok" -> 0 [] status = "failed" -> 1 [] status = "partial" -> 3
    [] status = "rate_limited" -> 4 [] status = "network" -> 5 [] status = "cancelled" -> 130
    [] OTHER -> 75

RowClosed(status) == [runs EXCEPT ![me].status = status]

\* T8.
Close ==
  /\ stage = "close" /\ stage' = "tell"
  /\ runs' = IF dry THEN runs ELSE RowClosed(Resolve(warned))
  /\ UNCHANGED <<disk, src, me, dry, queue, warned, terminal, override, complaints, unsaid, exit,
                 hist, doctor, faults>>

\* Slip: an alarm is raised for what ended the sweep, not for how the run ended.
Notifies_Terminal(status) == terminal # "none"

\* NOTIFYING_STATUSES.
Notifies(status) == status \in {"failed", "rate_limited", "network"}

\* The checkpoint, which a reader may keep busy; then the notification and the exit code.
Finish ==
  /\ stage = "tell" /\ ~dry /\ Idle
  /\ \E busy \in BOOLEAN :
       /\ IF busy THEN Fault ELSE Fine
       /\ LET status == Resolve(warned \/ busy)
          IN  /\ runs' = IF busy THEN RowClosed(status) ELSE runs
              /\ told' = IF Notifies(status) THEN told \cup {[row |-> me]} ELSE told
              /\ exit' = IF override THEN 78 ELSE ExitCode(status)
  /\ UNCHANGED <<disk, src, left, refused, silenced, doctor>>

\* _collect_dry: the same status, from warnings alone, and nothing else.
FinishDry ==
  /\ stage = "tell" /\ dry /\ Idle
  /\ exit' = IF override THEN 78 ELSE ExitCode(Resolve(warned))
  /\ UNCHANGED <<world, told, left, refused, silenced, doctor, faults>>

\* Ctrl-C during the sweep: the row is closed, the invariants are not asked.
Cancel ==
  /\ stage \in {"sources", "preflight", "sweep", "say"} /\ Fault
  /\ runs' = IF dry THEN runs ELSE RowClosed("cancelled")
  /\ Idle /\ exit' = 130
  /\ silenced' = (silenced \/ unsaid.disabled)
  /\ UNCHANGED <<disk, src, told, left, refused, doctor>>

\* SIGKILL, or an exception nobody catches (the heartbeat's).
Kill ==
  /\ stage # "idle" /\ Fault
  /\ Idle /\ exit' = 137
  /\ silenced' = (silenced \/ unsaid.disabled \/ (stage = "tell" /\ ~dry /\ Notifies(Resolve(warned))))
  /\ UNCHANGED <<world, told, left, refused, doctor>>

-----------------------------------------------------------------------------
(* doctor.                                                                  *)

Verdict(list) == IF Red(list) THEN "red" ELSE "green"

\* No file or no connection: the short list.
DoctorShort ==
  /\ ~view.open /\ disk \in {"missing", "sealed"}
  /\ report' = Verdict(WithoutDatabase(disk))
  /\ UNCHANGED <<world, run, hist, view, faults>>

\* A file that opens and whose tables cannot be read raises out of the first query.
DoctorRaises ==
  /\ ~view.open /\ disk \in {"empty", "damaged"}
  /\ report' = "traceback"
  /\ UNCHANGED <<world, run, hist, view, faults>>

WithStatus(status) == {i \in DOMAIN runs : runs[i].status = status}

\* The first read pins the snapshot every check on this connection sees.  A damaged page may
\* lie where no check reads.
DoctorReads ==
  /\ ~view.open /\ disk \in {"ok", "damaged", "behind"}
  /\ \E late \in BOOLEAN :
     view' = [open |-> TRUE, running |-> WithStatus("running"),
              dead |-> disk # "ok" \/ (Sources # {} /\ Sources \subseteq left \cup refused),
              said |-> Database(disk) \cup EnabledSources(src)
                         \cup LastRunAge(WithStatus("ok") # {}, late)]
  /\ UNCHANGED <<world, run, hist, report, faults>>

\* The lock, the processes and Reddit are asked later.
Listed(beating, answer, wrong, checkout) ==
  LET held  == stage # "idle" /\ ~dry
      alive == view.running = {me}
  IN  view.said \cup Site(wrong) \cup HooksInstalled(checkout)
        \cup LockNotStale(held, view.running, alive, beating)
        \cup StaleRows(view.running, alive, beating)
        \cup (IF answer = "unasked" THEN {} ELSE AuthPing(Collectable(src) # {}, answer))

Installed == [git |-> TRUE, pre |-> "runs", push |-> "runs"]
Checkouts == {[git |-> FALSE]} \cup {[Installed EXCEPT !.push = "stale"]}

DoctorJudges ==
  /\ view.open /\ view' = NoView
  /\ \/ \E answer \in {"unasked", "ok"} : report' = Verdict(Listed(TRUE, answer, {}, Installed))
        /\ Fine
     \/ /\ \/ report' = Verdict(Listed(FALSE, "unasked", {}, Installed))
           \/ report' = Verdict(Listed(TRUE, "limited", {}, Installed))
           \/ \E w \in {"settings_valid", "free_disk"} :
                report' = Verdict(Listed(TRUE, "ok", {w}, Installed))
           \/ \E c \in Checkouts : report' = Verdict(Listed(TRUE, "unasked", {}, c))
        /\ Fault
  /\ UNCHANGED <<world, run, hist>>

DoctorStep == DoctorShort \/ DoctorRaises \/ DoctorReads \/ DoctorJudges

RunStep ==
  \/ StartRun \/ ReadSources \/ SourcesUnreadable \/ Preflight \/ PreflightEnds \/ Swept \/ Say
  \/ Judge \/ Close \/ Finish \/ FinishDry \/ Cancel \/ Kill \/ SkippedLocked
  \/ \E s \in Sources :
       \/ StopsShort(s) \/ Interrupted(s) \/ SweepEnds(s) \/ FinishFails(s) \/ SweptWell(s)
       \/ SourceFails(s)

\* doctor writes nothing: what could follow its list is what could happen without it.
Next ==
  report = "none" /\
  (\/ DbInit \/ Damage \/ Launch \/ LaunchDry \/ RunStep \/ DoctorStep
   \/ \E s \in Sources : ByHand(s))

Spec == Init /\ [][Next]_vars

-----------------------------------------------------------------------------
(* Properties.                                                              *)

\* A command that ends with exit code 0 had sources to sweep, swept every one it found
\* enabled to its end without a gap, and -- unless it was a dry run -- no source is missing
\* from the list because failures drove it out of collection, in this run or an earlier one.
OkMeansAll ==
  [][stage = "tell" /\ stage' = "idle" /\ exit' = 0 =>
       /\ owed # {} /\ owed = done
       /\ ~dry => left = {} /\ runs'[me].status = "ok"]_vars

\* Whatever ends badly is announced: a run that closed red, a source that left collection,
\* and a run that died, at the latest when the next one opens its row -- unless a kill or a
\* Ctrl-C fell between a commit and its announcement.  (And the state keeps its types.)
RedIsLoud ==
  /\ TypeOK
  /\ stage \notin {"say", "tell"} /\ ~silenced =>
    /\ \A i \in DOMAIN runs : runs[i].status \in {"failed", "rate_limited", "network", "crashed"} =>
         [row |-> i] \in told
    /\ \A s \in left : [source |-> s] \in told

\* doctor is red exactly when somebody must act: not because a healthy command happens to
\* open or close its row between two of its reads, and always when the database is unusable or
\* every source has left collection or refuses it.
DoctorIsRight ==
  [][view.open /\ ~view'.open =>
       /\ faults' = 0 /\ Complaint("last_run_age", "error") \cap view.said = {} => report' = "green"
       /\ view.dead => report' = "red"]_vars
=============================================================================
