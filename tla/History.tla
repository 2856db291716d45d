------------------------------ MODULE History -------------------------------
(***************************************************************************)
(* The run rows as their readers see them, while commands go on writing    *)
(* them: the pages of the run history, the redirect from /reports to a     *)
(* day, the digest of a day, and how stale the digest calls each source    *)
(* next to what the freshness invariant made of it when the run ended.     *)
(***************************************************************************)
EXTENDS Integers, Sequences, FiniteSets, FiniteSetsExt

CONSTANTS
  Sources,
  StaleAfter,   \* STALE_AFTER_RUNS, FRESHNESS_WINDOW
  PageSize,     \* PAGE_SIZE
  MaxRuns, MaxDays   \* bounds: rows, days

ASSUME HistoryAssumption ==
  /\ IsFiniteSet(Sources)
  /\ {StaleAfter, PageSize} \subseteq Nat \ {0} /\ {MaxRuns, MaxDays} \subseteq Nat

VARIABLES
  runs,      \* rows by pk, with the stop reasons of run_subreddits and, as a set of at most
             \* one, the sources the freshness invariant named when the run ended
  held,      \* the row of the command under way, 0 for none
  today,
  shown, more,   \* the history page a reader has before him: the pks so far, and a next link
  link       \* the day /reports sent a reader to, 0 for none

historyVars == <<runs, held, today, shown, more, link>>

Swept == [Sources -> {"none", "short", "read"}]
NoRows == [s \in Sources |-> "none"]

HistoryInit ==
  /\ runs = <<>> /\ held = 0 /\ today = 1
  /\ shown = <<>> /\ more = FALSE /\ link = 0

Row(kind, status) ==
  [kind |-> kind, status |-> status, day |-> today, finished |-> status # "running",
   stops |-> NoRows, verdict |-> {}]

-----------------------------------------------------------------------------
(* The reads.                                                               *)

Newest(n, set) == {i \in set : Cardinality({j \in set : j > i}) < n}

\* Slip: the window ends at the newest row, whichever run is asked about.
SweepingRuns_Newest(i, limit) ==
  Newest(limit, {j \in DOMAIN runs : runs[j].kind = "run" /\ runs[j].stops # NoRows
                                     /\ runs[j].status \notin {"running", "skipped_locked"}})

\* recent_sweeping_runs: up to row i, the rows with some source's row; any closed status but
\* skipped_locked, or row i itself.
SweepingRuns(i, limit) ==
  Newest(limit, {j \in 1 .. i : runs[j].kind = "run" /\ runs[j].stops # NoRows
                                /\ (j = i \/ runs[j].status \notin {"running", "skipped_locked"})})

\* _runs_since_fetched, the window one longer than the threshold.
RunsSinceFetched(i, s) ==
  LET window == SweepingRuns(i, StaleAfter + 1)
      hits   == {j \in window : runs[j].stops[s] = "read"}
  IN  IF hits = {} THEN Cardinality(window) ELSE Cardinality({j \in window : j > Max(hits)})

\* SubredditLine.stale.
IsStale(i, s) == RunsSinceFetched(i, s) >= StaleAfter

\* _subreddit_lines: the sources the digest of row i marks.
StaleSources(i) == {s \in Sources : IsStale(i, s)}

\* per_source_freshness.
Unfetched(i) ==
  LET window == SweepingRuns(i, StaleAfter)
  IN  IF Cardinality(window) < StaleAfter THEN {}
      ELSE {s \in Sources : \A j \in window : runs[j].stops[s] # "read"}

\* run_for_window: the newest finished run of a day, 0 for none.
RunFor(day) ==
  LET found == {i \in DOMAIN runs : runs[i].kind = "run" /\ runs[i].finished /\ runs[i].day = day}
  IN  IF found = {} THEN 0 ELSE Max(found)

\* Slip: the newest row, finished or not.
LatestDay_Any == IF runs = <<>> THEN 0 ELSE runs[Len(runs)].day

\* latest_report_date.
LatestDay ==
  LET found == {i \in DOMAIN runs : runs[i].kind = "run" /\ runs[i].finished}
  IN  IF found = {} THEN 0 ELSE runs[Max(found)].day

-----------------------------------------------------------------------------
(* The writers.                                                             *)

\* start_run: the row of a dead process is closed, then this one's is opened.
StartRun ==
  /\ held = 0 /\ Len(runs) < MaxRuns
  /\ runs' = Append([i \in DOMAIN runs |->
                       IF runs[i].status = "running"
                       THEN [runs[i] EXCEPT !.status = "crashed", !.finished = TRUE] ELSE runs[i]],
                    Row("run", "running"))
  /\ held' = Len(runs) + 1
  /\ UNCHANGED <<today, shown, more, link>>

\* The sweep writes a row for the sources it reaches, some, all, or none of them.
SweepSources(stops) ==
  /\ held # 0 /\ runs[held].stops = NoRows /\ stops # NoRows
  /\ runs' = [runs EXCEPT ![held].stops = stops]
  /\ UNCHANGED <<held, today, shown, more, link>>

\* The invariants look -- unless the run was ended early -- and the row is closed.
EndRun(status) ==
  /\ held # 0
  /\ runs' = [runs EXCEPT ![held].status = status, ![held].finished = TRUE,
                          ![held].verdict = IF status = "ended" THEN {Unfetched(held)} ELSE {}]
  /\ held' = 0
  /\ UNCHANGED <<today, shown, more, link>>

Die == held # 0 /\ held' = 0 /\ UNCHANGED <<runs, today, shown, more, link>>

\* A second `run` finds the lock held.
SkipLocked ==
  /\ held # 0 /\ Len(runs) < MaxRuns
  /\ runs' = Append(runs, Row("run", "skipped_locked"))
  /\ UNCHANGED <<held, today, shown, more, link>>

\* A row of another command.
OtherCommand ==
  /\ held = 0 /\ Len(runs) < MaxRuns
  /\ runs' = Append(runs, Row("migrate", "ended"))
  /\ UNCHANGED <<held, today, shown, more, link>>

Midnight ==
  /\ today < MaxDays /\ today' = today + 1
  /\ UNCHANGED <<runs, held, shown, more, link>>

-----------------------------------------------------------------------------
(* The readers.                                                             *)

\* Slip: the cursor includes the row it was taken from.
Before_Inclusive(i, cursor) == i <= cursor

Before(i, cursor) == i < cursor

Descending(set) == [n \in 1 .. Cardinality(set) |->
  CHOOSE i \in set : Cardinality({j \in set : j > i}) = n - 1]

\* runs_page: one row more than a page is read, and decides whether there is a next link.
RunsPage(cursor) ==
  LET found == Newest(PageSize + 1, {i \in DOMAIN runs : Before(i, cursor)})
      page  == Newest(PageSize, found)
  IN  /\ shown' = IF cursor > MaxRuns THEN Descending(page) ELSE shown \o Descending(page)
      /\ more' = (found # page)

OpenRuns == RunsPage(MaxRuns + 1) /\ UNCHANGED <<runs, held, today, link>>
NextRuns == more /\ RunsPage(shown[Len(shown)]) /\ UNCHANGED <<runs, held, today, link>>

\* /reports, and the page it leads to.
OpenReports ==
  /\ link = 0 /\ LatestDay # 0 /\ link' = LatestDay
  /\ UNCHANGED <<runs, held, today, shown, more>>
OpenDigest == link # 0 /\ link' = 0 /\ UNCHANGED <<runs, held, today, shown, more>>

Writers ==
  \/ StartRun \/ Die \/ SkipLocked \/ OtherCommand
  \/ \E status \in {"ended", "network"} : EndRun(status)

Sweeps == \E stops \in Swept : SweepSources(stops)
Reads  == OpenRuns \/ NextRuns \/ OpenReports \/ OpenDigest

HistoryNext == Writers \/ Sweeps \/ Midnight \/ Reads

HistorySpec == HistoryInit /\ [][HistoryNext]_historyVars

-----------------------------------------------------------------------------
(* Properties.                                                              *)

\* A source is stale in the digest of a run exactly when the run's own invariant said so,
\* however long after it, and after whichever later runs, the digest is read.
StaleAgrees ==
  \A i \in DOMAIN runs : \A stale \in runs[i].verdict : StaleSources(i) = stale

\* A reader who pages through the history sees each row once, newest first, although rows
\* are added while he reads; the last page is where the history begins.
HistoryIsWhole ==
  shown # <<>> =>
    LET top  == shown[1]
        last == IF more THEN shown[Len(shown)] ELSE 1
    IN  shown = [n \in 1 .. top - last + 1 |-> top - n + 1]

\* The day /reports redirects to has a digest when the reader arrives.
RedirectLands == link # 0 => RunFor(link) # 0

\* Together: what the readers of the rows are told is what the runs did.
ReadersAreTold == StaleAgrees /\ HistoryIsWhole /\ RedirectLands

\* The comment on SubredditLine.runs_since_fetched: "0 when fetched successfully this run"
\* (and the line then reads "fetched this run").
FetchedMeansThisRun ==
  \A i \in DOMAIN runs, s \in Sources :
    runs[i].kind = "run" /\ runs[i].finished /\ RunsSinceFetched(i, s) = 0
      /\ SweepingRuns(i, StaleAfter + 1) # {} => runs[i].stops[s] = "read"
=============================================================================
