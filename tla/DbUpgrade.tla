----------------------------- MODULE DbUpgrade -----------------------------
(***************************************************************************)
(* `db init` and `db upgrade` at work on the database file: the online     *)
(* copy, its check, the migration one revision at a time, the two checks   *)
(* after it, the restore, and the pruning of old copies -- with the        *)
(* process killed, or the power lost, between any two steps.               *)
(*                                                                         *)
(* `db` is what a program that opens the file reads.  `main` is the file   *)
(* without its -wal: what a power loss leaves (synchronous=NORMAL), and    *)
(* what is left when the restore has removed the sidecars and not yet      *)
(* swapped.  A commit reaches `main` when SQLite checkpoints, sooner or    *)
(* later.  The flock (Collector) admits one command at a time; what other  *)
(* commands do meanwhile is leave a row of their refused attempt.          *)
(***************************************************************************)
EXTENDS Naturals, FiniteSets

CONSTANTS
  MaxHead,       \* bound: revisions the builds ship, 1 .. MaxHead
  Try,           \* bound: invocations, 1 .. Try; a try names its copy and its row
  Keep,          \* KEEP_PRE_MIGRATE_BACKUPS
  MaxFaults,     \* bound: kills, damage, failing statements
  MaxData,       \* bound: collecting runs between the lifecycles
  MaxRefused,    \* bound: refused commands that leave a row
  PowerFails,    \* whether a kill may be a power loss
  NoFile

ASSUME UpgradeAssumption ==
  /\ {MaxHead, Try, Keep, MaxFaults, MaxData, MaxRefused} \subseteq Nat
  /\ MaxHead > 0 /\ PowerFails \in BOOLEAN

VARIABLES
  db, main,   \* the database read through its -wal, and the bare file
  file,       \* file[b]: the copy of try b under backups/; file[0] lies elsewhere
  head,       \* the revision the installed build ships
  pc, cmd,    \* where the lifecycle is, and which it is
  try,        \* the current try
  frm,        \* the revision it found
  before,     \* history: the database as it found it
  doomed,     \* copies whose rows are deleted and whose files are not yet
  said,       \* what the last lifecycle reported
  blind,      \* history: a run collected into a damaged database, or a torn one
  torn,       \* history: a kill fell between the restore's unlink and its swap
  revived,    \* history: rows without a file that such a kill brought back with the bare file
  written, noted,   \* history: collecting runs, rows of refused attempts
  faults

disk == <<db, main, file>>
local == <<cmd, frm, before>>
hist == <<blind, torn, revived, written, noted>>
vars == <<disk, head, pc, local, try, doomed, said, hist, faults>>

Backups == 0 .. Try
RowStates == {"none", "running", "ok", "failed", "crashed"}
Contents ==
  [rev : 0 .. MaxHead, state : {"sound", "orphans", "corrupt"}, data : 0 .. MaxData,
   rows : [1 .. Try -> RowStates], backups : SUBSET Backups]

ASSUME NoFileAssumption == NoFile \notin Contents

Phases == {"idle", "open", "start", "backup", "check", "record", "migrate", "verify",
           "restore", "swap", "book", "sweep", "prune", "unlink", "seed", "close"}

TypeOK ==
  /\ {db, main} \subseteq Contents \cup {NoFile}
  /\ file \in [Backups -> Contents \cup {NoFile}]
  /\ head \in 1 .. MaxHead /\ frm \in 0 .. MaxHead
  /\ pc \in Phases /\ cmd \in {"init", "upgrade"} /\ try \in 0 .. Try
  /\ doomed \subseteq Backups /\ revived \subseteq Backups
  /\ said \in {"nothing", "refused", "raised", "ok", "failed", "restored", "unbooked"}
  /\ faults \in 0 .. MaxFaults

Empty == [rev |-> 0, state |-> "sound", data |-> 0,
          rows |-> [t \in 1 .. Try |-> "none"], backups |-> {}]

\* A new installation, or a database of revision 1 brought from elsewhere,
\* with the row of a copy whose recorded path is outside backups/.
Init ==
  /\ db \in {NoFile, [Empty EXCEPT !.rev = 1, !.backups = {0}]}
  /\ main = db
  /\ file = [b \in Backups |-> IF b = 0 THEN Empty ELSE NoFile]
  /\ head \in 1 .. MaxHead /\ pc = "idle" /\ cmd = "init" /\ try = 0 /\ frm = 0
  /\ doomed = {} /\ said = "nothing" /\ before = NoFile
  /\ blind = FALSE /\ torn = FALSE /\ revived = {} /\ written = 0 /\ noted = 0 /\ faults = 0

-----------------------------------------------------------------------------
(* Shapes of a step.                                                        *)

Goto(phase) == pc' = phase

\* One transaction.  SQLite may checkpoint after it, or not yet.
Commit(c) == db' = c /\ main' \in {main, c} /\ UNCHANGED file

\* engine.dispose(): the last connection to close checkpoints, unless a reader
\* (the web pages) has the file open.
Return(what, c) ==
  /\ pc' = "idle" /\ said' = what
  /\ db' = c /\ main' \in {main, c}

\* What a lifecycle knows ends with it.
Locals ==
  IF pc' = "idle" THEN cmd' = "init" /\ frm' = 0 /\ before' = NoFile ELSE UNCHANGED local

Row(c, s) == [c EXCEPT !.rows[try] = s]
Keeping == UNCHANGED <<head, try, doomed, hist, faults>> /\ Locals

-----------------------------------------------------------------------------
(* Around the lifecycles.                                                   *)

Deploy ==
  /\ pc = "idle"
  /\ \E h \in 1 .. MaxHead : h \in {head - 1, head + 1} /\ head' = h
  /\ UNCHANGED <<disk, pc, local, try, doomed, said, hist, faults>>

\* `run` refuses a database that is not at head (require_head).
Collect ==
  /\ pc = "idle" /\ db # NoFile /\ db.rev = head /\ written < MaxData
  /\ Commit([db EXCEPT !.data = @ + 1])
  /\ written' = written + 1
  /\ blind' = (blind \/ db.state # "sound" \/ (torn /\ db.data # written))
  /\ UNCHANGED <<head, pc, local, try, doomed, said, torn, revived, noted, faults>>

\* A command finds the flock held.  A refused `db upgrade` inserts a row any
\* revision takes; a refused `run` also fills columns only head has.  Of the row
\* only its commit matters here, after which SQLite may checkpoint.
Refused(kind) ==
  /\ pc # "idle" /\ db # NoFile /\ db.rev > 0 /\ noted < MaxRefused
  /\ kind = "run" => db.rev = head
  /\ Commit(db)
  /\ noted' = noted + 1
  /\ UNCHANGED <<head, pc, local, try, doomed, said, blind, torn, revived, written, faults>>

Begin ==
  /\ pc = "idle" /\ try < Try
  /\ cmd' \in {"init", "upgrade"}
  /\ try' = try + 1 /\ before' = db /\ said' = "nothing" /\ Goto("open")
  /\ UNCHANGED <<disk, head, frm, doomed, blind, torn, revived, written, noted, faults>>

-----------------------------------------------------------------------------
(* Preconditions: no row, no copy, and no new file, before they hold.       *)

UpgradeOpens ==
  /\ pc = "open" /\ cmd = "upgrade"
  /\ IF db = NoFile \/ db.rev > head
     THEN pc' = "idle" /\ said' = "refused"
     ELSE Goto("start") /\ UNCHANGED said
  /\ UNCHANGED disk /\ Keeping

\* engine_for creates the file.
InitOpens ==
  /\ pc = "open" /\ cmd = "init"
  /\ db' = IF db = NoFile THEN Empty ELSE db
  /\ main' = IF main = NoFile THEN Empty ELSE main
  /\ IF db'.rev \in {0, head}
     THEN Goto("migrate") /\ UNCHANGED said
     ELSE pc' = "idle" /\ said' = "refused"
  /\ UNCHANGED file /\ Keeping

\* T9, before the copy; a file without a schema has no table to insert into.
StartRun ==
  /\ pc = "start" /\ db.rev > 0
  /\ Commit(Row(db, "running"))
  /\ frm' = db.rev
  /\ Goto(IF cmd = "init" THEN "seed" ELSE IF db.rev = head THEN "sweep" ELSE "backup")
  /\ UNCHANGED <<head, cmd, before, try, doomed, said, hist, faults>>

NoSuchTable ==
  /\ pc = "start" /\ db.rev = 0
  /\ Return("raised", db)
  /\ UNCHANGED file /\ Keeping

-----------------------------------------------------------------------------
(* The copy.                                                                *)

\* Slip: the copy is taken of the bare file, as a plain file copy would.
OnlineBackup_FileCopy ==
  /\ pc = "backup"
  /\ file' = [file EXCEPT ![try] = main]
  /\ Goto("check")
  /\ UNCHANGED <<db, main, said>> /\ Keeping

\* The backup API copies what a reader sees, to a sibling that is renamed when
\* it is complete; the disk may damage it.
OnlineBackup ==
  /\ pc = "backup"
  /\ \/ file' = [file EXCEPT ![try] = db] /\ UNCHANGED faults
     \/ /\ faults < MaxFaults /\ faults' = faults + 1
        /\ file' = [file EXCEPT ![try] = [db EXCEPT !.state = "corrupt"]]
  /\ Goto("check")
  /\ UNCHANGED <<db, main, head, local, try, doomed, said, hist>>

\* Slip: the verdict is not looked at.
QuickCheck_Ignored(c) == "ok"

\* PRAGMA quick_check sees malformed pages; it does not look at references.
QuickCheck(c) == IF c.state = "corrupt" THEN "malformed" ELSE "ok"

CheckCopy ==
  /\ pc = "check" /\ QuickCheck(file[try]) = "ok"
  /\ Goto("record")
  /\ UNCHANGED <<disk, said>> /\ Keeping

\* The unusable copy goes, and the row is closed in a database below head.
CopyIsBad ==
  /\ pc = "check" /\ QuickCheck(file[try]) # "ok"
  /\ file' = [file EXCEPT ![try] = NoFile]
  /\ Return("failed", Row(db, "failed"))
  /\ Keeping

\* T10.
RecordBackup ==
  /\ pc = "record"
  /\ Commit([db EXCEPT !.backups = @ \cup {try}])
  /\ Goto("migrate")
  /\ UNCHANGED said /\ Keeping

-----------------------------------------------------------------------------
(* The migration: one transaction per revision.  It may lose references or  *)
(* damage pages of an old database; a new one has nothing to damage.        *)

\* Slip: the database is not asked where it stands.
Pending_Always == TRUE

Pending == db.rev < head

Migrate ==
  /\ pc = "migrate" /\ Pending
  /\ \/ Commit([db EXCEPT !.rev = @ + 1]) /\ UNCHANGED faults
     \/ /\ cmd = "upgrade" /\ faults < MaxFaults /\ faults' = faults + 1
        /\ \E s \in {"orphans", "corrupt"} : Commit([db EXCEPT !.rev = @ + 1, !.state = s])
  /\ UNCHANGED <<head, pc, local, try, doomed, said, hist>>

Migrated ==
  /\ pc = "migrate" /\ ~Pending
  /\ Goto(IF cmd = "init" THEN "sweep" ELSE "verify")
  /\ UNCHANGED <<disk, said>> /\ Keeping

\* DatabaseError, CommandError or OSError: its own revision is rolled back, the
\* ones before it stay.  `db init` has no copy to go back to.
MigrateFails ==
  /\ pc = "migrate" /\ Pending /\ faults < MaxFaults
  /\ faults' = faults + 1
  /\ IF cmd = "init" THEN Return("raised", db) ELSE Goto("restore") /\ UNCHANGED <<db, main, said>>
  /\ UNCHANGED <<file, head, try, doomed, hist>> /\ Locals

\* Slip: only the pages are checked.
Sound_PagesOnly(c) == c.state # "corrupt"

\* integrity_check and foreign_key_check on the live file.
Sound(c) == c.state = "sound"

Verify ==
  /\ pc = "verify"
  /\ Goto(IF Sound(db) THEN "sweep" ELSE "restore")
  /\ UNCHANGED <<disk, said>> /\ Keeping

-----------------------------------------------------------------------------
(* The restore.                                                             *)

\* The copy is staged first; only then are the live sidecars removed.
Unlink ==
  /\ pc = "restore"
  /\ db' = main /\ Goto("swap")
  /\ UNCHANGED <<main, file, said>> /\ Keeping

Swap ==
  /\ pc = "swap"
  /\ db' = file[try] /\ main' = file[try] /\ Goto("book")
  /\ UNCHANGED <<file, said>> /\ Keeping

\* T12, in the restored file: the copy's row again, and the run's.
Book ==
  /\ pc = "book"
  /\ Return("restored", Row([db EXCEPT !.backups = @ \cup {try}], "failed"))
  /\ UNCHANGED file /\ Keeping

BookFails ==
  /\ pc = "book" /\ faults < MaxFaults
  /\ faults' = faults + 1
  /\ Return("unbooked", db)
  /\ UNCHANGED <<file, head, try, doomed, hist>> /\ Locals

-----------------------------------------------------------------------------
(* At head.                                                                 *)

\* T1: this is the only holder of the flock; every other open row is over.
Sweep ==
  /\ pc = "sweep"
  /\ Commit([db EXCEPT !.rows = [t \in 1 .. Try |->
       IF @[t] = "running" /\ (t # try \/ cmd = "init") THEN "crashed" ELSE @[t]]])
  /\ Goto(IF cmd = "init" THEN "start" ELSE IF frm = head THEN "close" ELSE "prune")
  /\ UNCHANGED said /\ Keeping

\* Slip: a path is unlinked wherever it points.
Inside_Anywhere(b) == TRUE

\* The recorded path resolves under backups/.
Inside(b) == b # 0

\* backups_of_kind orders by created_at, and a later try has the newer copy; all but the newest
\* Keep, those of them that are inside.
Old(c) == {b \in c.backups : Inside(b) /\ Cardinality({n \in c.backups : n > b}) >= Keep}

\* Slip: the files go before the rows' deletion is committed.
Prune_FilesFirst ==
  /\ pc = "prune"
  /\ IF doomed = {} /\ Old(db) # {}
     THEN /\ doomed' = Old(db)
          /\ file' = [b \in Backups |-> IF b \in Old(db) THEN NoFile ELSE file[b]]
          /\ UNCHANGED <<db, main, pc>>
     ELSE /\ Commit([db EXCEPT !.backups = @ \ doomed])
          /\ doomed' = {} /\ Goto("close")
  /\ UNCHANGED <<head, local, try, said, hist, faults>>

\* The rows go first, in one transaction; the files after its commit.
Prune ==
  /\ pc = "prune"
  /\ Commit([db EXCEPT !.backups = @ \ Old(db)])
  /\ doomed' = Old(db)
  /\ Goto("unlink")
  /\ UNCHANGED <<head, local, try, said, hist, faults>>

UnlinkOld ==
  /\ pc = "unlink"
  /\ IF doomed = {}
     THEN Goto("close") /\ UNCHANGED <<file, doomed>>
     ELSE \E b \in doomed : /\ file' = [file EXCEPT ![b] = NoFile]
                            /\ doomed' = doomed \ {b}
                            /\ UNCHANGED pc
  /\ UNCHANGED <<db, main, head, local, try, said, hist, faults>>

\* T14: every source of the seed file, or none and the row closed `failed`.
Seed ==
  /\ pc = "seed"
  /\ \/ Goto("close") /\ UNCHANGED <<disk, said, faults>>
     \/ /\ faults < MaxFaults /\ faults' = faults + 1
        /\ Return("raised", Row(db, "failed")) /\ UNCHANGED file
  /\ UNCHANGED <<head, try, doomed, hist>> /\ Locals

Close ==
  /\ pc = "close"
  /\ Return("ok", Row(db, "ok"))
  /\ UNCHANGED file /\ Keeping

-----------------------------------------------------------------------------
(* The process ends in the middle: killed, by an exception nobody catches,  *)
(* or with the power.                                                       *)

Killed ==
  /\ pc # "idle" /\ faults < MaxFaults
  /\ faults' = faults + 1
  /\ pc' = "idle" /\ said' = "raised" /\ doomed' = {}
  /\ torn' = (torn \/ pc = "swap")
  /\ \/ UNCHANGED <<db, main>>
     \/ PowerFails /\ db' = main /\ UNCHANGED main
  /\ revived' = IF pc = "swap" THEN revived \cup {b \in db'.backups : file[b] = NoFile} ELSE revived
  /\ UNCHANGED <<file, head, try, blind, written, noted>> /\ Locals

Lifecycle ==
  \/ UpgradeOpens \/ InitOpens \/ StartRun \/ NoSuchTable
  \/ OnlineBackup \/ CheckCopy \/ CopyIsBad \/ RecordBackup
  \/ Migrate \/ Migrated \/ MigrateFails \/ Verify
  \/ Unlink \/ Swap \/ Book \/ BookFails
  \/ Sweep \/ Prune \/ UnlinkOld \/ Seed \/ Close

Next ==
  \/ Deploy \/ Collect \/ Begin \/ Lifecycle \/ Killed
  \/ \E kind \in {"run", "upgrade"} : Refused(kind)

Spec == Init /\ [][Next]_vars
-----------------------------------------------------------------------------
(* Properties.                                                              *)

\* A row of `backups` names a file that is there: a copy that is recorded can be restored
\* from, whatever step of the pruning was the last, and after a kill as well.  While the restore
\* stands between its unlink and its swap the bare file has the rows of before the log, some of
\* them pruned since; a kill just there leaves those, and nothing else ever does.
RowsHaveFiles ==
  db # NoFile /\ pc # "swap" => \A b \in db.backups : file[b] # NoFile \/ b \in revived

\* Whatever the migration does to the live file, and wherever the process dies,
\* everything collected is in some sound place: the live database or a copy.
\* (`blind` is the exception: a kill between the damage and its check, or between the
\* restore's unlink and its swap, and then a run that collects into what is left.)
NothingUnrecoverable ==
  written > 0 /\ ~blind =>
    \E c \in {db} \cup {file[b] : b \in Backups \ {0}} :
       c # NoFile /\ c.state = "sound" /\ c.data = written

\* Together: what the copies are there for.
CopiesSave == TypeOK /\ RowsHaveFiles /\ NothingUnrecoverable

\* A lifecycle that reports to its caller has done all of it or nothing: at
\* head and sound, or the database it found.
Returns == pc # "idle" /\ pc' = "idle" /\ said' \notin {"raised", "refused"}
AllOrNothing ==
  Returns =>
    \/ said' = "ok" /\ db'.rev = head /\ (db'.state = "sound" \/ before.rev = head)
    \/ /\ said' # "ok"
       /\ db'.rev = before.rev /\ db'.state = before.state /\ db'.data = before.data
UpgradeIsAtomic == [][AllOrNothing]_vars

\* What it reports is what its row says, in the file that is now live: the row
\* was committed before the copy was taken, so a restore does not lose it.  Only
\* `unbooked` leaves it open, and says so.
ReportOnRecord ==
  pc = "idle" /\ said \in {"ok", "failed", "restored", "unbooked"} =>
    db.rows[try] = CASE said = "ok" -> "ok" [] said = "unbooked" -> "running" [] OTHER -> "failed"

\* A copy recorded under another path is not this installation's to delete.
OutsideIsUntouched ==
  [][file'[0] = file[0] /\ (db # NoFile /\ 0 \in db.backups /\ pc = "prune" => 0 \in db'.backups)]_vars
=============================================================================
