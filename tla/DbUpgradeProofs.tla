--------------------------- MODULE DbUpgradeProofs ---------------------------
(***************************************************************************)
(* Of the database lifecycles, for any number of revisions, tries, copies  *)
(* kept, runs that collect and faults: a lifecycle that reports has done   *)
(* all or nothing, its row says what it reported, no file outside backups/ *)
(* is touched, and, unless the power fails, what was collected is in some  *)
(* sound place and every recorded copy is there.  None of these is         *)
(* inductive: they speak of the end of a lifecycle and of the worst        *)
(* moment, and IInv says what is so at each step between.                  *)
(***************************************************************************)
EXTENDS DbUpgrade, TLAPS

-----------------------------------------------------------------------------
(* The invariant.                                                           *)

\* What a restore gives back: the revision, the pages and the data.
Same(c, d) == c.rev = d.rev /\ c.state = d.state /\ c.data = d.data

\* The steps that `db upgrade` alone takes.
UpgradeOnly == {"backup", "check", "record", "verify", "restore", "swap", "book", "prune", "unlink"}
\* Before the copy is recorded.
Early       == {"open", "start", "backup", "check"}
\* From the recorded copy to the end of the restore.
Copied      == {"record", "migrate", "verify", "restore", "swap", "book"}

\* The variables that TypeOK leaves to the history.
Types ==
  /\ TypeOK
  /\ before \in Contents \cup {NoFile} /\ written \in 0 .. MaxData
  /\ blind \in BOOLEAN /\ torn \in BOOLEAN /\ revived \subseteq Backups

\* Where a lifecycle can be, and with what in hand.
Placed ==
  /\ pc # "idle" => try > 0
  /\ pc \in UpgradeOnly => cmd = "upgrade"
  /\ pc = "seed" => cmd = "init"
  /\ doomed # {} => pc = "unlink"
  /\ 0 \notin doomed
  /\ main = NoFile <=> db = NoFile
  /\ db = NoFile => pc \in {"idle", "open"} /\ written = 0
  /\ file[0] = Empty

\* What it found when it opened the file, step by step: nothing is collected meanwhile, and a
\* migration changes the revision and the pages alone.
Found ==
  /\ pc = "open" \/ (pc = "start" /\ cmd = "upgrade") => db = before
  /\ cmd = "upgrade" /\ pc \notin {"idle", "open"} => before # NoFile /\ before.rev <= head
  /\ cmd = "upgrade" /\ pc \notin {"idle", "open", "start"} => frm = before.rev /\ frm > 0
  /\ pc \in {"backup", "check", "record"} => db.backups = before.backups
  /\ pc \in {"backup", "check", "record", "book"} => Same(db, before) /\ db.rows[try] = "running"
  /\ pc \in {"migrate", "verify", "restore"} /\ cmd = "upgrade" =>
       db.data = before.data /\ (db.state = "sound" => before.state = "sound")
  /\ pc = "migrate" => db.rev <= head
  /\ pc = "verify" => db.rev = head
  /\ pc = "migrate" /\ cmd = "init" => db.state = "sound" \/ (before # NoFile /\ before.rev = head)

\* After the verification the database is at head, and sound unless it was there before.
AtHead ==
  /\ pc \in {"sweep", "prune", "unlink", "seed", "close"} \/ (pc = "start" /\ cmd = "init") =>
       db.rev = head /\ (db.state = "sound" \/ (before # NoFile /\ before.rev = head))
  /\ pc \in {"prune", "unlink"} \/ (pc = "sweep" /\ cmd = "upgrade" /\ frm # head) =>
       db.state = "sound"

\* The copy of this try is what was found, with the row of the try still open.
TheCopy ==
  /\ pc = "check" =>
       /\ file[try] # NoFile /\ file[try].rows[try] = "running"
       /\ file[try].state = "corrupt" \/ Same(file[try], before)
       /\ file[try].backups = db.backups
  /\ pc \in Copied /\ cmd = "upgrade" =>
       file[try] # NoFile /\ Same(file[try], before) /\ file[try].rows[try] = "running"

\* A database without a revision has never been written to, and none is copied.
NewIsSound ==
  /\ db # NoFile /\ db.rev = 0 => db.state = "sound"
  /\ main # NoFile /\ main.rev = 0 => main.state = "sound"
  /\ \A b \in Backups \ {0} : file[b] # NoFile => file[b].rev > 0

\* A try that has not recorded its copy; `db init` never does.
Young == pc \in Early \/ (pc # "idle" /\ cmd = "init")

\* The name of a try's copy is free until the copy is taken.
Free ==
  \A b \in Backups : b > try \/ (b = try /\ Young /\ pc # "check") => file[b] = NoFile

\* The state of a lifecycle, step by step.
Flow == Types /\ Placed /\ Found /\ AtHead /\ TheCopy /\ NewIsSound /\ Free

\* The tries whose copies are recorded or were.
Known(b) == b < try \/ (b = try /\ ~Young)
\* A version of the database holds no data and no row of a copy from later than it was taken.
Fits(c)  == c.data <= written
            /\ \A b \in c.backups : Known(b) /\ (file[b] # NoFile => file[b].data <= c.data)
\* No row before its copy, and no copy with more data than a database that has its row.
AllFit   == /\ db # NoFile => Fits(db)
            /\ main # NoFile => Fits(main)
            /\ \A b \in Backups : file[b] # NoFile => Fits(file[b])

\* The rows of the copies to be deleted are gone.
Doomed ==
  pc = "unlink" =>
    \A b \in doomed : b \notin db.backups /\ (file[b] # NoFile => file[b].data <= db.data)

\* Nobody but a kill in the middle of the restore separates the database from what was collected.
DataKept ==
  ~torn => /\ db # NoFile /\ pc # "swap" => db.data = written
           /\ pc # "idle" /\ before # NoFile => before.data = written

\* The rows in the copy have their files too, for the restore brings them back.
CopyRows ==
  cmd = "upgrade" /\ pc \in Copied \cup {"check"} =>
    \A b \in file[try].backups : file[b] # NoFile \/ b \in revived

\* A version that holds everything.
Saves(c)    == c # NoFile /\ c.state = "sound" /\ c.data = written
\* Some copy holds everything.
FileSaves   == \E b \in Backups \ {0} : Saves(file[b])
\* Everything collected is in some sound place; between the restore's unlink and its swap, in
\* a copy.
Recoverable == written > 0 /\ ~blind => FileSaves \/ (pc # "swap" /\ Saves(db))

\* What holds unless the power fails, which loses the last commits of the -wal file.
Kept == ~PowerFails => DataKept /\ CopyRows /\ RowsHaveFiles /\ Recoverable

\* Either every version of the database has the row of the outside copy, or none.
Foreign ==
  /\ db = NoFile => \A b \in Backups \ {0} : file[b] = NoFile
  /\ db # NoFile => (0 \in main.backups <=> 0 \in db.backups)
  /\ \A b \in Backups \ {0} : file[b] # NoFile => (0 \in file[b].backups <=> 0 \in db.backups)

\* The invariant of the lifecycles.
IInv == Flow /\ AllFit /\ Doomed /\ Foreign /\ ReportOnRecord /\ Kept

-----------------------------------------------------------------------------
\* The columns of a database.
LEMMA Fields ==
  ASSUME NEW c \in Contents
  PROVE  /\ c # NoFile /\ c.rev \in 0 .. MaxHead /\ c.state \in {"sound", "orphans", "corrupt"}
         /\ c.data \in 0 .. MaxData /\ c.data \in Nat /\ c.backups \subseteq Backups
         /\ c.rows \in [1 .. Try -> RowStates]
  BY NoFileAssumption DEF Contents

\* No database is the absent one, and the empty one is a database.
LEMMA NoFileIsNone ==
  /\ NoFile \notin Contents /\ Empty \in Contents
  /\ Empty.rev = 0 /\ Empty.state = "sound" /\ Empty.data = 0 /\ Empty.backups = {}
  BY NoFileAssumption, UpgradeAssumption DEF Contents, Empty, RowStates

\* Closing a row changes that row alone.
LEMMA RowOf ==
  ASSUME NEW c \in Contents, NEW n \in RowStates, try \in 1 .. Try
  PROVE  /\ Row(c, n) \in Contents /\ Same(Row(c, n), c) /\ Row(c, n).backups = c.backups
         /\ Row(c, n).rows[try] = n
  BY DEF Row, Contents, Same

\* A commit that adds no row of a copy and loses no data fits.
LEMMA CommitFits ==
  ASSUME Flow, AllFit, db \in Contents, db' \in Contents, db.data <= db'.data, db'.data <= written',
         db'.backups \subseteq db.backups, main' \in {main, db'}, file' = file, written <= written',
           written' \in Nat,
         \A b \in Backups : Known(b) => Known(b)'
  PROVE  AllFit'
<1>1. Fits(db)'
  BY Fields DEF Fits, AllFit, Flow, Types, TypeOK
<1>2. main # NoFile /\ main' = main => Fits(main)'
  BY Fields DEF Fits, AllFit, Flow, Types, TypeOK
<1>3. ASSUME NEW b \in Backups, file[b] # NoFile PROVE Fits(file[b])'
  BY <1>3, Fields DEF Fits, AllFit, Flow, Types, TypeOK
<1> QED BY <1>1, <1>2, <1>3 DEF AllFit

\* A version that fits still fits when copies go and data comes.
LEMMA StillFits ==
  ASSUME Flow, AllFit, written' \in Nat, written <= written',
         \A b \in Backups : Known(b) => Known(b)' /\ file'[b] \in {file[b], NoFile}
  PROVE  \A c \in Contents : Fits(c) =>
           /\ c.data <= written'
           /\ \A b \in c.backups : Known(b)' /\ (file'[b] # NoFile => file'[b].data <= c.data)
  BY Fields DEF Fits, Flow, Types

\* Where no file and no table changes, all still fit.
LEMMA FramesFit ==
  ASSUME Flow, AllFit, UNCHANGED <<db, main, file, written>>, \A b \in Backups :
           Known(b) => Known(b)'
  PROVE  AllFit'
<1>1. \A c \in Contents : Fits(c) => c.data <= written /\ \A b \in c.backups : b \in Backups
        /\ Known(b)' /\ (file[b] # NoFile => file[b].data <= c.data)
  BY Fields DEF Fits
<1> QED BY <1>1 DEF AllFit, Fits, Flow, Types, TypeOK

\* A newer build is installed.
LEMMA DeployStep ==
  ASSUME IInv, Deploy PROVE IInv'
<1>1. pc = "idle" /\ head' \in 1 .. MaxHead
  BY DEF Deploy
<1>2. UNCHANGED <<db, main, file, pc, cmd, frm, before, try, doomed, said, blind, torn, revived, written,
        faults>>
  BY DEF Deploy, disk, local, hist
<1>3. Types' /\ Placed'
  BY <1>1, <1>2 DEF IInv, Flow, Types, TypeOK, Placed
<1>4. Found' /\ AtHead'
  BY <1>1, <1>2 DEF Found, AtHead
<1>5. TheCopy'
  BY <1>2 DEF IInv, Flow, TheCopy
<1>6. NewIsSound' /\ Free'
  BY <1>2 DEF IInv, Flow, NewIsSound, Free, Young
<1>7. AllFit'
  <2>1. \A b \in Backups : Known(b) => Known(b)'
    BY <1>2 DEF Known, Young
  <2> QED BY <2>1, <1>2, FramesFit DEF IInv
<1>8. Doomed' /\ Foreign' /\ ReportOnRecord'
  BY <1>2 DEF IInv, Doomed, Foreign, ReportOnRecord
<1>9. ~PowerFails => DataKept'
  BY <1>2 DEF IInv, Kept, DataKept
<1>10. ~PowerFails => CopyRows' /\ RowsHaveFiles'
  BY <1>2 DEF IInv, Kept, CopyRows, RowsHaveFiles
<1>11. ~PowerFails => Recoverable'
  BY <1>2 DEF IInv, Kept, Recoverable, FileSaves, Saves
<1> QED BY <1>3, <1>4, <1>5, <1>6, <1>7, <1>8, <1>9, <1>10, <1>11 DEF IInv, Flow, Kept

\* A command opens the file.
LEMMA BeginStep ==
  ASSUME IInv, Begin PROVE IInv'
<1>1. pc = "idle" /\ pc' = "open" /\ cmd' \in {"init", "upgrade"} /\ try < Try /\ try \in Nat
        /\ try' = try + 1 /\ before' = db /\ said' = "nothing"
  BY DEF IInv, Flow, Types, TypeOK, Begin, Goto
<1>2. UNCHANGED <<db, main, file, head, frm, doomed, blind, torn, revived, written, faults>>
  BY DEF Begin, disk
<1>3. \A b \in Backups : b \in Nat /\ (b > try' \/ b = try' => b > try)
  BY <1>1 DEF Backups
<1>4. Types' /\ Placed'
  BY <1>1, <1>2, UpgradeAssumption DEF IInv, Flow, Types, TypeOK, Phases, Placed, UpgradeOnly
<1>5. Found' /\ AtHead'
  BY <1>1, <1>2 DEF Found, AtHead
<1>6. TheCopy'
  BY <1>1 DEF TheCopy, Copied
<1>7. NewIsSound' /\ Free'
  BY <1>2, <1>3 DEF IInv, Flow, NewIsSound, Free
<1>8. AllFit'
  <2>1. \A b \in Backups : Known(b) => Known(b)'
    BY <1>1 DEF Known, Backups
  <2> QED BY <2>1, <1>2, FramesFit DEF IInv
<1>9. Doomed' /\ Foreign' /\ ReportOnRecord'
  BY <1>1, <1>2 DEF IInv, Doomed, Foreign, ReportOnRecord
<1>10. ~PowerFails => DataKept'
  BY <1>1, <1>2 DEF IInv, Kept, DataKept
<1>11. ~PowerFails => CopyRows' /\ RowsHaveFiles'
  BY <1>1, <1>2 DEF IInv, Kept, CopyRows, RowsHaveFiles, Copied
<1>12. ~PowerFails => Recoverable'
  BY <1>1, <1>2 DEF IInv, Kept, Recoverable, FileSaves, Saves
<1> QED BY <1>4, <1>5, <1>6, <1>7, <1>8, <1>9, <1>10, <1>11, <1>12 DEF IInv, Flow, Kept

\* A run collects.
LEMMA CollectStep ==
  ASSUME IInv, Collect PROVE IInv'
<1>1. pc = "idle" /\ db \in Contents /\ written \in Nat /\ written + 1 \in 0 .. MaxData
  BY UpgradeAssumption DEF IInv, Flow, Types, TypeOK, Collect
<1>2. db' = [db EXCEPT !.data = @ + 1] /\ main' \in {main, db'} /\ written' = written + 1
        /\ blind' = (blind \/ db.state # "sound" \/ (torn /\ db.data # written))
  BY DEF Collect, Commit
<1>3. UNCHANGED <<file, pc, try, cmd, frm, before, head, doomed, said, torn, revived, faults>>
  BY DEF Collect, Commit, local
<1>4. db.data <= written
  BY <1>1, NoFileIsNone DEF IInv, AllFit, Fits
<1>5. db' \in Contents /\ db'.rev = db.rev /\ db'.state = db.state /\ db'.data = db.data + 1
        /\ db'.backups = db.backups /\ db'.rows = db.rows
  <2>1. db.data + 1 \in 0 .. MaxData
    <3>1. db.data \in Nat /\ MaxData \in Nat
      BY <1>1, Fields, UpgradeAssumption
    <3> QED BY <3>1, <1>1, <1>4
  <2> QED BY <2>1, <1>1, <1>2 DEF Contents
<1>6. Types' /\ Placed'
  BY <1>1, <1>2, <1>3, <1>4, <1>5, NoFileIsNone, Fields, UpgradeAssumption DEF IInv, Flow, Types,
       TypeOK, Phases, Same, Placed, UpgradeOnly
<1>7. Found' /\ AtHead'
  BY <1>1, <1>3 DEF Found, AtHead
<1>8. TheCopy'
  BY <1>3, <1>5 DEF IInv, Flow, TheCopy
<1>9. NewIsSound' /\ Free'
  BY <1>1, <1>2, <1>3, <1>4, <1>5, NoFileIsNone, Fields, UpgradeAssumption DEF IInv, Flow,
       NewIsSound, Found, Same, Placed, UpgradeOnly, Free, Young, Early
<1>10. AllFit'
  <2>1. \A b \in Backups : Known(b) => Known(b)'
    BY <1>3 DEF Known, Young
  <2>2. db.data <= db'.data /\ db'.data <= written' /\ db.data <= written
    BY <1>1, <1>2, <1>4, Fields
  <2> QED BY <2>1, <2>2, <1>1, <1>2, <1>3, <1>5, CommitFits DEF IInv
<1>11. Doomed' /\ Foreign' /\ ReportOnRecord'
  BY <1>1, <1>2, <1>3, <1>4, <1>5, NoFileIsNone, Fields, UpgradeAssumption DEF IInv, Flow, Placed,
       Doomed, Same, Foreign, Types, TypeOK, ReportOnRecord
<1>12. ~PowerFails => DataKept'
  BY <1>1, <1>2, <1>3, Fields DEF IInv, Kept, DataKept
<1>13. ~PowerFails => CopyRows' /\ RowsHaveFiles'
  BY <1>1, <1>3, <1>5, Fields DEF IInv, Kept, CopyRows, RowsHaveFiles
<1>14. ~PowerFails => Recoverable'
  BY <1>1, <1>2, <1>3, <1>4, <1>5, NoFileIsNone, Fields, UpgradeAssumption DEF IInv, Kept,
       Recoverable, FileSaves, Saves, DataKept, Flow, Placed, Found, TheCopy, Copied, Same,
       UpgradeOnly
<1> QED BY <1>6, <1>7, <1>8, <1>9, <1>10, <1>11, <1>12, <1>13, <1>14 DEF IInv, Flow, Kept

\* A command that finds the lock held leaves at most the row of its refusal.
LEMMA RefusedStep ==
  ASSUME IInv, NEW kind \in {"run", "upgrade"}, Refused(kind) PROVE IInv'
<1>1. pc # "idle" /\ db \in Contents /\ try \in 1 .. Try /\ try \in Backups
  BY DEF IInv, Flow, Types, TypeOK, Placed, Refused, Backups
<1>2. db' = db /\ main' \in {main, db} /\ UNCHANGED <<file, head, pc, cmd, frm, before, try, doomed,
        said, blind, torn, revived, written, faults>>
  BY DEF Refused, Commit, local
<1>3. Types' /\ Placed'
  BY <1>2 DEF IInv, Flow, Types, TypeOK, Placed
<1>4. Found' /\ AtHead'
  BY <1>2 DEF IInv, Flow, Found, AtHead
<1>5. TheCopy'
  BY <1>2 DEF IInv, Flow, TheCopy
<1>6. NewIsSound' /\ Free'
  BY <1>2 DEF IInv, Flow, NewIsSound, Free, Young
<1>7. AllFit'
  <2>1. \A b \in Backups : Known(b) => Known(b)'
    BY <1>2 DEF Known, Young
  <2>2. db.data <= db'.data /\ db'.data <= written' /\ db.data <= written
    BY <1>1, <1>2, Fields DEF IInv, AllFit, Fits
  <2> QED BY <2>1, <2>2, <1>1, <1>2, CommitFits DEF IInv, Flow, Types
<1>8. Doomed' /\ Foreign' /\ ReportOnRecord'
  BY <1>2 DEF IInv, Doomed, Foreign, ReportOnRecord
<1>9. ~PowerFails => DataKept'
  BY <1>2 DEF IInv, Kept, DataKept
<1>10. ~PowerFails => CopyRows' /\ RowsHaveFiles'
  BY <1>2 DEF IInv, Kept, CopyRows, RowsHaveFiles
<1>11. ~PowerFails => Recoverable'
  BY <1>2 DEF IInv, Kept, Recoverable, FileSaves, Saves
<1> QED BY <1>3, <1>4, <1>5, <1>6, <1>7, <1>8, <1>9, <1>10, <1>11 DEF IInv, Flow, Kept

\* `db upgrade` checks what it opened.
LEMMA UpgradeOpensStep ==
  ASSUME IInv, UpgradeOpens PROVE IInv'
<1>1. pc = "open" /\ cmd = "upgrade" /\ try \in 1 .. Try
  BY DEF IInv, Flow, Types, TypeOK, Placed, UpgradeOpens
<1>2. UNCHANGED <<db, main, file, head, try, doomed, blind, torn, revived, written, faults>>
  BY DEF UpgradeOpens, Keeping, disk, hist
<1>3. \/ said' = "refused" /\ pc' = "idle" /\ cmd' = "init" /\ frm' = 0 /\ before' = NoFile
      \/ pc' = "start" /\ UNCHANGED <<said, cmd, frm, before>> /\ db \in Contents /\ db.rev <= head
  BY Fields DEF IInv, Flow, Types, TypeOK, UpgradeOpens, Goto, Keeping, Locals, local
<1>4. Types' /\ Placed'
  BY <1>1, <1>2, <1>3, Fields, UpgradeAssumption DEF IInv, Flow, Types, TypeOK, Phases, Placed,
       UpgradeOnly
<1>5. Found' /\ AtHead'
  BY <1>1, <1>2, <1>3, Fields DEF IInv, Flow, Found, AtHead
<1>6. TheCopy'
  BY <1>1, <1>3 DEF TheCopy, Copied
<1>7. NewIsSound' /\ Free'
  BY <1>1, <1>2 DEF IInv, Flow, NewIsSound, Free, Young, Early
<1>8. AllFit'
  <2>1. \A b \in Backups : Known(b) => Known(b)'
    BY <1>1, <1>2 DEF Known, Young, Early
  <2> QED BY <2>1, <1>2, FramesFit DEF IInv
<1>9. Doomed' /\ Foreign' /\ ReportOnRecord'
  BY <1>2, <1>3 DEF IInv, Doomed, Foreign, ReportOnRecord
<1>10. ~PowerFails => DataKept'
  BY <1>1, <1>2, <1>3 DEF IInv, Kept, DataKept
<1>11. ~PowerFails => CopyRows' /\ RowsHaveFiles'
  BY <1>1, <1>2, <1>3 DEF IInv, Kept, CopyRows, RowsHaveFiles, Copied
<1>12. ~PowerFails => Recoverable'
  BY <1>2, <1>3 DEF IInv, Kept, Recoverable, FileSaves, Saves
<1> QED BY <1>4, <1>5, <1>6, <1>7, <1>8, <1>9, <1>10, <1>11, <1>12 DEF IInv, Flow, Kept

\* `db init` makes a file if there is none.
LEMMA InitOpensStep ==
  ASSUME IInv, InitOpens PROVE IInv'
<1>1. pc = "open" /\ cmd = "init" /\ try \in 1 .. Try /\ before = db
  BY DEF IInv, Flow, Types, TypeOK, Placed, InitOpens, Found
<1>2. UNCHANGED <<file, head, try, doomed, blind, torn, revived, written, faults>>
  BY DEF InitOpens, Keeping, hist
<1>3. db' = (IF db = NoFile THEN Empty ELSE db) /\ main' = (IF main = NoFile THEN Empty ELSE main)
  BY DEF InitOpens
<1>4. \/ said' = "refused" /\ pc' = "idle" /\ cmd' = "init" /\ frm' = 0 /\ before' = NoFile
      \/ pc' = "migrate" /\ UNCHANGED <<said, cmd, frm, before>> /\ db'.rev \in {0, head}
  BY DEF InitOpens, Goto, Keeping, Locals, local
<1>5. db' \in Contents /\ main' \in Contents
  BY <1>3, NoFileIsNone DEF IInv, Flow, Types, TypeOK
<1>6. Types' /\ Placed'
  BY <1>1, <1>2, <1>3, <1>4, NoFileIsNone, UpgradeAssumption DEF IInv, Flow, Types, TypeOK, Phases,
       Placed, UpgradeOnly
<1>7. Found' /\ AtHead'
  BY <1>1, <1>2, <1>3, <1>4, <1>5, NoFileIsNone, Fields, UpgradeAssumption DEF IInv, Flow, Types,
       TypeOK, Placed, Found, AtHead, TheCopy, NewIsSound, Same, UpgradeOnly, Copied
<1>8. TheCopy'
  BY <1>1, <1>4 DEF TheCopy
<1>9. NewIsSound' /\ Free'
  BY <1>1, <1>2, <1>3, NoFileIsNone DEF IInv, Flow, NewIsSound, Free, Young
<1>10. AllFit'
  <2>1. \A b \in Backups : Known(b) => Known(b)' /\ file'[b] \in {file[b], NoFile}
    BY <1>1, <1>2 DEF Known, Young
  <2>2. \A c \in Contents : Fits(c) =>
           /\ c.data <= written'
           /\ \A b \in c.backups : Known(b)' /\ (file'[b] # NoFile => file'[b].data <= c.data)
    BY <2>1, <1>2, StillFits DEF IInv, Flow, Types
  <2> QED BY <2>2, <1>2, <1>3, NoFileIsNone DEF IInv, AllFit, Fits, Flow, Types, TypeOK
<1>11. Doomed' /\ Foreign' /\ ReportOnRecord'
  BY <1>2, <1>3, <1>4, <1>5 DEF IInv, Flow, Placed, Doomed, Foreign, ReportOnRecord
<1>12. ~PowerFails => DataKept'
  BY <1>1, <1>2, <1>3, <1>4, NoFileIsNone DEF IInv, Kept, DataKept, Flow, Placed
<1>13. ~PowerFails => CopyRows' /\ RowsHaveFiles'
  BY <1>1, <1>2, <1>3, <1>4, NoFileIsNone DEF IInv, Kept, CopyRows, RowsHaveFiles
<1>14. ~PowerFails => Recoverable'
  BY <1>2, <1>3, <1>4 DEF IInv, Kept, Recoverable, FileSaves, Saves
<1> QED BY <1>6, <1>7, <1>8, <1>9, <1>10, <1>11, <1>12, <1>13, <1>14 DEF IInv, Flow, Kept

\* The command's own row.
LEMMA StartRunStep ==
  ASSUME IInv, StartRun PROVE IInv'
<1>1. pc = "start" /\ db.rev > 0 /\ db \in Contents /\ try \in 1 .. Try /\ try \in Backups
  BY DEF IInv, Flow, Types, TypeOK, Placed, StartRun, Backups
<1>2. UNCHANGED <<file, head, cmd, before, try, doomed, blind, torn, revived, written, faults, said>>
        /\ frm' = db.rev
  BY DEF StartRun, Commit, hist
<1>3. pc' = (IF cmd = "init" THEN "seed" ELSE IF db.rev = head THEN "sweep" ELSE "backup")
  BY DEF StartRun, Goto
<1>4. db' = Row(db, "running") /\ main' \in {main, db'}
  BY DEF StartRun, Commit
<1>5. db' \in Contents /\ Same(db', db) /\ db'.backups = db.backups /\ db'.rows[try] = "running"
  BY <1>1, <1>4, RowOf DEF RowStates
<1>6. Types' /\ Placed'
  BY <1>1, <1>2, <1>3, <1>4, <1>5, NoFileIsNone, Fields, UpgradeAssumption DEF IInv, Flow, Types,
       TypeOK, Phases, Same, Placed, UpgradeOnly
<1>7. Found' /\ AtHead'
  BY <1>1, <1>2, <1>3, <1>4, <1>5, NoFileIsNone, Fields, UpgradeAssumption DEF IInv, Flow, Types,
       TypeOK, Placed, Found, AtHead, TheCopy, NewIsSound, Same, UpgradeOnly, Copied
<1>8. TheCopy'
  BY <1>3 DEF TheCopy, Copied
<1>9. NewIsSound' /\ Free'
  BY <1>1, <1>2, <1>4, <1>5 DEF IInv, Flow, NewIsSound, Same, Free, Young, Early
<1>10. AllFit'
  <2>1. \A b \in Backups : Known(b) => Known(b)'
    BY <1>1, <1>2 DEF Known, Young, Early
  <2>2. db.data <= db'.data /\ db'.data <= written' /\ db.data <= written
    BY <1>1, <1>2, <1>5, Fields DEF IInv, AllFit, Fits, Same
  <2> QED BY <2>1, <2>2, <1>1, <1>2, <1>4, <1>5, CommitFits DEF IInv, Flow, Types
<1>11. Doomed' /\ Foreign' /\ ReportOnRecord'
  BY <1>2, <1>3, <1>4, <1>5, Fields DEF IInv, Flow, Placed, Doomed, Foreign, ReportOnRecord
<1>12. ~PowerFails => DataKept'
  BY <1>1, <1>2, <1>5 DEF IInv, Kept, DataKept, Flow, Placed, Same
<1>13. ~PowerFails => CopyRows' /\ RowsHaveFiles'
  BY <1>1, <1>2, <1>3, <1>5 DEF IInv, Kept, CopyRows, RowsHaveFiles, Flow, Placed, Copied
<1>14. ~PowerFails => Recoverable'
  BY <1>2, <1>3, <1>5, Fields DEF IInv, Kept, Recoverable, FileSaves, Saves, Same
<1> QED BY <1>6, <1>7, <1>8, <1>9, <1>10, <1>11, <1>12, <1>13, <1>14 DEF IInv, Flow, Kept

\* A file without a schema has no row.
LEMMA NoSuchTableStep ==
  ASSUME IInv, NoSuchTable PROVE IInv'
<1>1. pc = "start" /\ db \in Contents /\ try \in 1 .. Try /\ try \in Backups
  BY DEF IInv, Flow, Types, TypeOK, Placed, NoSuchTable, Backups
<1>2. pc' = "idle" /\ cmd' = "init" /\ frm' = 0 /\ before' = NoFile /\ said' = "raised" /\ db' = db
        /\ main' \in {main, db} /\ UNCHANGED <<file, head, try, doomed, blind, torn, revived, written,
        faults>>
  BY DEF NoSuchTable, Keeping, Locals, Return, hist
<1>3. Types' /\ Placed'
  BY <1>1, <1>2, UpgradeAssumption DEF IInv, Flow, Types, TypeOK, Phases, Placed, UpgradeOnly
<1>4. Found' /\ AtHead'
  BY <1>2 DEF Found, AtHead
<1>5. TheCopy'
  BY <1>2 DEF TheCopy
<1>6. NewIsSound' /\ Free'
  BY <1>2 DEF IInv, Flow, NewIsSound, Free, Young, Early
<1>7. AllFit'
  <2>1. \A b \in Backups : Known(b) => Known(b)'
    BY <1>2 DEF Known, Young, Early
  <2>2. db.data <= db'.data /\ db'.data <= written' /\ db.data <= written
    BY <1>1, <1>2, Fields DEF IInv, AllFit, Fits
  <2> QED BY <2>1, <2>2, <1>1, <1>2, CommitFits DEF IInv, Flow, Types
<1>8. Doomed' /\ Foreign' /\ ReportOnRecord'
  BY <1>2 DEF IInv, Doomed, Foreign, ReportOnRecord
<1>9. ~PowerFails => DataKept'
  BY <1>1, <1>2 DEF IInv, Kept, DataKept
<1>10. ~PowerFails => CopyRows' /\ RowsHaveFiles'
  BY <1>1, <1>2 DEF IInv, Kept, CopyRows, RowsHaveFiles
<1>11. ~PowerFails => Recoverable'
  BY <1>2 DEF IInv, Kept, Recoverable, FileSaves, Saves
<1> QED BY <1>3, <1>4, <1>5, <1>6, <1>7, <1>8, <1>9, <1>10, <1>11 DEF IInv, Flow, Kept

\* The copy of the live file.
LEMMA OnlineBackupStep ==
  ASSUME IInv, OnlineBackup PROVE IInv'
<1>1. pc = "backup" /\ pc' = "check" /\ cmd = "upgrade" /\ db \in Contents /\ try \in 1 .. Try
        /\ try \in Backups
  BY DEF IInv, Flow, Types, TypeOK, Placed, UpgradeOnly, OnlineBackup, Backups, Goto
<1>2. UNCHANGED <<db, main, head, cmd, frm, before, try, doomed, said, blind, torn, revived, written>>
        /\ faults' \in 0 .. MaxFaults
  BY UpgradeAssumption DEF IInv, Flow, Types, TypeOK, OnlineBackup, local, hist
<1>3. PICK c \in Contents : /\ file' = [file EXCEPT ![try] = c]
                            /\ Same(c, db) \/ (c.state = "corrupt" /\ c.rev = db.rev
                                 /\ c.data = db.data)
                            /\ c.rows = db.rows /\ c.backups = db.backups
  <2> DEFINE d == [db EXCEPT !.state = "corrupt"]
  <2>1. d \in Contents /\ d.state = "corrupt" /\ d.rev = db.rev /\ d.data = db.data
          /\ d.rows = db.rows /\ d.backups = db.backups
    BY <1>1 DEF Contents
  <2>2. file' = [file EXCEPT ![try] = db] \/ file' = [file EXCEPT ![try] = d]
    BY DEF OnlineBackup
  <2> QED BY <1>1, <2>1, <2>2 DEF Same
<1>4. file' \in [Backups -> Contents \cup {NoFile}] /\ file'[try] = c /\ \A b \in Backups :
        b # try => file'[b] = file[b]
  BY <1>1, <1>3 DEF IInv, Flow, Types, TypeOK
<1>5. db.rev > 0 /\ file[try] = NoFile /\ try # 0
  BY <1>1 DEF IInv, Flow, Found, Same, Free, Young, Early
<1>6. Types' /\ Placed'
  BY <1>1, <1>2, <1>3, <1>5, NoFileIsNone DEF IInv, Flow, Types, TypeOK, Phases, Placed
<1>7. Found' /\ AtHead'
  BY <1>1, <1>2 DEF IInv, Flow, Found, AtHead
<1>8. TheCopy'
  BY <1>1, <1>2, <1>3, Fields DEF IInv, Flow, Types, TypeOK, Found, TheCopy, Same, Copied
<1>9. NewIsSound' /\ Free'
  BY <1>1, <1>2, <1>3 DEF IInv, Flow, NewIsSound, Found, Same, Free, Young
<1>10. AllFit'
  <2>1. \A b \in Backups : Known(b) => Known(b)' /\ file'[b] \in {file[b], NoFile}
    BY <1>1, <1>2, <1>4 DEF Known, Young, Early
  <2>2. \A d \in Contents : Fits(d) =>
           /\ d.data <= written'
           /\ \A b \in d.backups : Known(b)' /\ (file'[b] # NoFile => file'[b].data <= d.data)
    BY <2>1, <1>2, StillFits DEF IInv, Flow, Types
  <2>3. Fits(db)
    BY <1>1, NoFileIsNone DEF IInv, AllFit
  <2>4. c.data <= written' /\ \A b \in c.backups : Known(b)'
          /\ (file'[b] # NoFile => file'[b].data <= c.data)
    BY <2>2, <2>3, <1>1, <1>3 DEF Same
  <2> QED BY <2>2, <2>4, <1>2, <1>4 DEF IInv, AllFit, Fits, Flow, Types, TypeOK
<1>11. Doomed' /\ Foreign' /\ ReportOnRecord'
  BY <1>1, <1>2, <1>3 DEF IInv, Flow, Placed, Doomed, Foreign, ReportOnRecord
<1>12. ~PowerFails => DataKept'
  BY <1>1, <1>2 DEF IInv, Kept, DataKept
<1>13. ~PowerFails => CopyRows' /\ RowsHaveFiles'
  BY <1>1, <1>2, <1>3, <1>4, Fields DEF IInv, Kept, CopyRows, RowsHaveFiles
<1>14. ~PowerFails => Recoverable'
  BY <1>1, <1>2, <1>4, <1>5 DEF IInv, Kept, Recoverable, FileSaves, Saves
<1> QED BY <1>6, <1>7, <1>8, <1>9, <1>10, <1>11, <1>12, <1>13, <1>14 DEF IInv, Flow, Kept

\* The check of the copy.
LEMMA CheckCopyStep ==
  ASSUME IInv, CheckCopy PROVE IInv'
<1>1. pc = "check" /\ pc' = "record" /\ cmd = "upgrade" /\ file[try].state # "corrupt"
        /\ db \in Contents /\ try \in 1 .. Try /\ try \in Backups
  BY DEF IInv, Flow, Types, TypeOK, Placed, UpgradeOnly, CheckCopy, Backups, Goto, QuickCheck
<1>2. UNCHANGED <<db, main, file, head, cmd, frm, before, try, doomed, said, blind, torn, revived, written,
        faults>>
  BY DEF CheckCopy, Goto, Keeping, Locals, disk, local, hist
<1>3. Types' /\ Placed'
  BY <1>1, <1>2 DEF IInv, Flow, Types, TypeOK, Phases, Placed
<1>4. Found' /\ AtHead'
  BY <1>1, <1>2 DEF IInv, Flow, Found, AtHead
<1>5. TheCopy'
  BY <1>1, <1>2 DEF IInv, Flow, TheCopy
<1>6. NewIsSound' /\ Free'
  BY <1>1, <1>2 DEF IInv, Flow, NewIsSound, Free, Young, Early
<1>7. AllFit'
  <2>1. \A b \in Backups : Known(b) => Known(b)'
    BY <1>1, <1>2 DEF Known, Young, Early
  <2> QED BY <2>1, <1>2, FramesFit DEF IInv
<1>8. Doomed' /\ Foreign' /\ ReportOnRecord'
  BY <1>1, <1>2 DEF IInv, Doomed, Foreign, ReportOnRecord
<1>9. ~PowerFails => DataKept'
  BY <1>1, <1>2 DEF IInv, Kept, DataKept
<1>10. ~PowerFails => CopyRows' /\ RowsHaveFiles'
  BY <1>1, <1>2 DEF IInv, Kept, CopyRows, RowsHaveFiles
<1>11. ~PowerFails => Recoverable'
  BY <1>1, <1>2 DEF IInv, Kept, Recoverable, FileSaves, Saves
<1> QED BY <1>3, <1>4, <1>5, <1>6, <1>7, <1>8, <1>9, <1>10, <1>11 DEF IInv, Flow, Kept

\* A copy that fails its check is removed, and the lifecycle ends.
LEMMA CopyIsBadStep ==
  ASSUME IInv, CopyIsBad PROVE IInv'
<1>1. pc = "check" /\ cmd = "upgrade" /\ file[try].state = "corrupt" /\ db \in Contents
        /\ try \in 1 .. Try /\ try \in Backups
  BY DEF IInv, Flow, Types, TypeOK, Placed, UpgradeOnly, CopyIsBad, Backups, QuickCheck
<1>2. pc' = "idle" /\ cmd' = "init" /\ frm' = 0 /\ before' = NoFile /\ said' = "failed"
        /\ UNCHANGED <<head, try, doomed, blind, torn, revived, written, faults>>
  BY DEF CopyIsBad, Keeping, Locals, Return, hist
<1>3. db' = Row(db, "failed") /\ main' \in {main, db'} /\ file' = [file EXCEPT ![try] = NoFile]
  BY DEF CopyIsBad, Return
<1>4. db' \in Contents /\ Same(db', db) /\ db'.backups = db.backups /\ db'.rows[try] = "failed"
  BY <1>1, <1>3, RowOf DEF RowStates
<1>5. file' \in [Backups -> Contents \cup {NoFile}] /\ file'[try] = NoFile /\ \A b \in Backups :
        b # try => file'[b] = file[b]
  BY <1>1, <1>3 DEF IInv, Flow, Types, TypeOK
<1>6. ~Known(try)
  BY <1>1 DEF Known, Young, Early
<1>7. Types' /\ Placed'
  <2>1. Types'
    BY <1>1, <1>2, <1>3, <1>4, <1>5, NoFileIsNone, UpgradeAssumption DEF IInv, Flow, Types, TypeOK,
         Phases, CopyIsBad, Keeping, hist
  <2>2. Placed'
    BY <1>1, <1>2, <1>3, <1>4, <1>5, NoFileIsNone DEF IInv, Flow, Types, TypeOK, Placed,
         UpgradeOnly
  <2> QED BY <2>1, <2>2
<1>8. Found' /\ AtHead'
  BY <1>2 DEF Found, AtHead
<1>9. TheCopy'
  BY <1>2 DEF TheCopy
<1>10. NewIsSound' /\ Free'
  BY <1>1, <1>2, <1>3, <1>4 DEF IInv, Flow, NewIsSound, Same, Placed, Free, Young, Early
<1>11. AllFit'
  <2>1. \A b \in Backups : Known(b) => Known(b)' /\ file'[b] \in {file[b], NoFile}
    BY <1>2, <1>5 DEF Known, Young, Early
  <2>2. \A c \in Contents : Fits(c) =>
           /\ c.data <= written'
           /\ \A b \in c.backups : Known(b)' /\ (file'[b] # NoFile => file'[b].data <= c.data)
    BY <2>1, <1>2, StillFits DEF IInv, Flow, Types
  <2>3. Fits(db)
    BY <1>1, NoFileIsNone DEF IInv, AllFit
  <2>4. db'.data <= written' /\ \A b \in db'.backups : Known(b)'
          /\ (file'[b] # NoFile => file'[b].data <= db'.data)
    BY <2>2, <2>3, <1>1, <1>4 DEF Same
  <2> QED BY <2>2, <2>4, <1>1, <1>2, <1>3, <1>4, <1>5, <1>6, NoFileIsNone DEF IInv, AllFit, Fits,
      Flow, Types, TypeOK
<1>12. Doomed' /\ Foreign' /\ ReportOnRecord'
  BY <1>1, <1>2, <1>3, <1>4, <1>5, <1>6, NoFileIsNone, Fields, UpgradeAssumption DEF IInv, Flow,
       Placed, Doomed, Same, Foreign, Types, TypeOK, ReportOnRecord
<1>13. ~PowerFails => DataKept'
  BY <1>1, <1>2, <1>4 DEF IInv, Kept, DataKept, Flow, Found, Same
<1>14. ~PowerFails => CopyRows'
  BY <1>2 DEF CopyRows
<1>15. ~PowerFails => RowsHaveFiles'
  <2>1. \A b \in db.backups : b # try /\ b \in Backups
    BY <1>1, <1>6, Fields DEF IInv, AllFit, Fits
  <2> QED BY <2>1, <1>1, <1>2, <1>3, <1>4, NoFileIsNone DEF IInv, Kept, RowsHaveFiles
<1>16. ~PowerFails => Recoverable'
  BY <1>1, <1>2, <1>4, <1>5, Fields DEF IInv, Kept, Recoverable, FileSaves, Saves, Same
<1> QED BY <1>7, <1>8, <1>9, <1>10, <1>11, <1>12, <1>13, <1>14, <1>15, <1>16 DEF IInv, Flow, Kept

\* The row of the copy.
LEMMA RecordBackupStep ==
  ASSUME IInv, RecordBackup PROVE IInv'
<1>1. pc = "record" /\ pc' = "migrate" /\ cmd = "upgrade" /\ file[try] # NoFile
        /\ Same(file[try], before) /\ Same(db, before) /\ db \in Contents /\ try \in 1 .. Try
        /\ try \in Backups
  BY DEF IInv, Flow, Types, TypeOK, Placed, UpgradeOnly, RecordBackup, Backups, Goto, TheCopy,
       Found, Copied
<1>2. UNCHANGED <<file, head, cmd, frm, before, try, doomed, said, blind, torn, revived, written, faults>>
  BY DEF RecordBackup, Goto, Keeping, Locals, Commit, local, hist
<1>3. db' = [db EXCEPT !.backups = @ \cup {try}] /\ main' \in {main, db'}
  BY DEF RecordBackup, Commit
<1>4. db' \in Contents /\ Same(db', db) /\ db'.rows = db.rows /\ db'.backups = db.backups \cup {try}
  BY <1>1, <1>3 DEF Contents, Same
<1>5. Types'
  BY <1>1, <1>2, <1>3, <1>4, NoFileIsNone, Fields, UpgradeAssumption DEF IInv, Flow, Types, TypeOK,
       Phases, Same
<1>6. Placed'
  BY <1>1, <1>2, <1>3, <1>4, NoFileIsNone, Fields, UpgradeAssumption DEF IInv, Flow, Types, TypeOK,
       Placed, UpgradeOnly
<1>7. Found' /\ AtHead'
  BY <1>1, <1>2, <1>3, <1>4, NoFileIsNone, Fields, UpgradeAssumption DEF IInv, Flow, Types, TypeOK,
       Placed, Found, AtHead, TheCopy, NewIsSound, Same, UpgradeOnly, Copied
<1>8. TheCopy'
  BY <1>1, <1>2 DEF IInv, Flow, TheCopy, Copied
<1>9. NewIsSound' /\ Free'
  BY <1>1, <1>2, <1>3, <1>4, NoFileIsNone, Fields, UpgradeAssumption DEF IInv, Flow, NewIsSound,
       Found, Same, Placed, UpgradeOnly, Free, Young, Early
<1>10. AllFit'
  <2>1. \A b \in Backups : Known(b) => Known(b)' /\ file'[b] \in {file[b], NoFile}
    BY <1>1, <1>2 DEF Known, Young, Early
  <2>2. \A c \in Contents : Fits(c) =>
           /\ c.data <= written'
           /\ \A b \in c.backups : Known(b)' /\ (file'[b] # NoFile => file'[b].data <= c.data)
    BY <2>1, <1>2, StillFits DEF IInv, Flow, Types
  <2>3. Fits(db)
    BY <1>1, NoFileIsNone DEF IInv, AllFit
  <2>4. Known(try)' /\ file'[try].data = db'.data
    BY <1>1, <1>2, <1>4 DEF Known, Young, Early, Same
  <2>5. db'.data <= written' /\ \A b \in db'.backups : Known(b)'
          /\ (file'[b] # NoFile => file'[b].data <= db'.data)
    BY <2>2, <2>3, <2>4, <1>1, <1>2, <1>4, Fields DEF Same
  <2> QED BY <2>2, <2>5, <1>1, <1>2, <1>3, <1>4, NoFileIsNone DEF IInv, AllFit, Fits, Flow, Types,
      TypeOK
<1>11. Doomed'
  BY <1>1 DEF Doomed
<1>12. Foreign'
  <2>1. try # 0 /\ db # NoFile
    BY <1>1, Fields
  <2>2. 0 \in db'.backups <=> 0 \in db.backups
    BY <1>1, <1>4
  <2> QED BY <2>1, <2>2, <1>1, <1>2, <1>3, <1>4, NoFileIsNone DEF IInv, Foreign
<1>13. ReportOnRecord'
  BY <1>1 DEF ReportOnRecord
<1>14. ~PowerFails => DataKept'
  BY <1>1, <1>2, <1>4 DEF IInv, Kept, DataKept, Flow, Found, Same
<1>15. ~PowerFails => CopyRows' /\ RowsHaveFiles'
  BY <1>1, <1>2, <1>4 DEF IInv, Kept, CopyRows, RowsHaveFiles, Flow, Placed, Copied
<1>16. ~PowerFails => Recoverable'
  BY <1>1, <1>2 DEF IInv, Kept, Recoverable, FileSaves, Saves, Same
<1> QED BY <1>5, <1>6, <1>7, <1>8, <1>9, <1>10, <1>11, <1>12, <1>13, <1>14, <1>15, <1>16 DEF IInv,
    Flow, Kept

\* One revision up.
LEMMA MigrateStep ==
  ASSUME IInv, Migrate PROVE IInv'
<1>1. pc = "migrate" /\ pc' = "migrate" /\ db.rev < head /\ db \in Contents /\ try \in 1 .. Try
        /\ try \in Backups
  BY DEF IInv, Flow, Types, TypeOK, Placed, Migrate, Backups, Pending
<1>2. db.rev + 1 \in 0 .. MaxHead /\ db.rev + 1 > 0 /\ db.rev + 1 <= head
  BY <1>1, Fields, UpgradeAssumption DEF IInv, Flow, Types, TypeOK
<1>3. UNCHANGED <<file, head, cmd, frm, before, try, doomed, said, blind, torn, revived, written>>
        /\ faults' \in 0 .. MaxFaults
  BY UpgradeAssumption DEF IInv, Flow, Types, TypeOK, Migrate, Commit, local, hist
<1>4. \/ db' = [db EXCEPT !.rev = @ + 1]
      \/ cmd = "upgrade" /\ \E n \in {"orphans", "corrupt"} :
           db' = [db EXCEPT !.rev = @ + 1, !.state = n]
  BY DEF Migrate, Commit
<1>5. main' \in {main, db'}
  BY DEF Migrate, Commit
<1>6. db' \in Contents /\ db'.rev = db.rev + 1 /\ db'.data = db.data /\ db'.rows = db.rows
        /\ db'.backups = db.backups
      /\ (db'.state = db.state \/ (cmd = "upgrade" /\ db'.state # "sound"))
  BY <1>1, <1>2, <1>4 DEF Contents
<1>7. Types' /\ Placed'
  BY <1>1, <1>2, <1>3, <1>4, <1>5, <1>6, NoFileIsNone, Fields, UpgradeAssumption DEF IInv, Flow,
       Types, TypeOK, Phases, Same, Placed, UpgradeOnly
<1>8. Found' /\ AtHead'
  BY <1>1, <1>2, <1>3, <1>5, <1>6, NoFileIsNone DEF IInv, Flow, Found, AtHead
<1>9. TheCopy'
  BY <1>1, <1>3 DEF IInv, Flow, TheCopy
<1>10. NewIsSound' /\ Free'
  BY <1>1, <1>2, <1>3, <1>5, <1>6 DEF IInv, Flow, NewIsSound, Free, Young
<1>11. AllFit'
  <2>1. \A b \in Backups : Known(b) => Known(b)'
    BY <1>1, <1>3 DEF Known, Young
  <2>2. db.data <= db'.data /\ db'.data <= written' /\ db.data <= written
    BY <1>1, <1>3, <1>6, Fields DEF IInv, AllFit, Fits
  <2> QED BY <2>1, <2>2, <1>1, <1>3, <1>5, <1>6, CommitFits DEF IInv, Flow, Types
<1>12. Doomed' /\ Foreign' /\ ReportOnRecord'
  BY <1>1, <1>2, <1>3, <1>4, <1>5, <1>6, NoFileIsNone, Fields, UpgradeAssumption DEF IInv, Flow,
       Placed, Doomed, Same, Foreign, Types, TypeOK, ReportOnRecord
<1>13. ~PowerFails => DataKept'
  BY <1>1, <1>3, <1>6 DEF IInv, Kept, DataKept, Flow, Placed
<1>14. ~PowerFails => CopyRows' /\ RowsHaveFiles'
  BY <1>1, <1>3, <1>6 DEF IInv, Kept, CopyRows, RowsHaveFiles, Flow, Placed
<1>15. ~PowerFails => Recoverable'
  BY <1>1, <1>3, <1>5, <1>6, NoFileIsNone DEF IInv, Kept, Recoverable, FileSaves, Saves, Flow,
       Found, TheCopy, Copied, Same
<1> QED BY <1>7, <1>8, <1>9, <1>10, <1>11, <1>12, <1>13, <1>14, <1>15 DEF IInv, Flow, Kept

\* At head.
LEMMA MigratedStep ==
  ASSUME IInv, Migrated PROVE IInv'
<1>1. pc = "migrate" /\ pc' = (IF cmd = "init" THEN "sweep" ELSE "verify") /\ db.rev = head
        /\ db \in Contents /\ try \in 1 .. Try /\ try \in Backups
  BY Fields DEF IInv, Flow, Types, TypeOK, Placed, Migrated, Backups, Goto, Pending, Found
<1>2. UNCHANGED <<db, main, file, head, cmd, frm, before, try, doomed, said, blind, torn, revived, written,
        faults>>
  BY DEF Migrated, Goto, Keeping, Locals, disk, local, hist
<1>3. Types' /\ Placed'
  BY <1>1, <1>2 DEF IInv, Flow, Types, TypeOK, Phases, Placed, UpgradeOnly
<1>4. Found' /\ AtHead'
  BY <1>1, <1>2 DEF IInv, Flow, Found, AtHead
<1>5. TheCopy'
  BY <1>1, <1>2 DEF IInv, Flow, TheCopy, Copied
<1>6. NewIsSound' /\ Free'
  BY <1>1, <1>2 DEF IInv, Flow, NewIsSound, Free, Young, Early
<1>7. AllFit'
  <2>1. \A b \in Backups : Known(b) => Known(b)'
    BY <1>1, <1>2 DEF Known, Young, Early
  <2> QED BY <2>1, <1>2, FramesFit DEF IInv
<1>8. Doomed' /\ Foreign' /\ ReportOnRecord'
  BY <1>1, <1>2 DEF IInv, Doomed, Foreign, ReportOnRecord
<1>9. ~PowerFails => DataKept'
  BY <1>1, <1>2 DEF IInv, Kept, DataKept
<1>10. ~PowerFails => CopyRows' /\ RowsHaveFiles'
  BY <1>1, <1>2 DEF IInv, Kept, CopyRows, RowsHaveFiles, Copied
<1>11. ~PowerFails => Recoverable'
  BY <1>1, <1>2 DEF IInv, Kept, Recoverable, FileSaves, Saves
<1> QED BY <1>3, <1>4, <1>5, <1>6, <1>7, <1>8, <1>9, <1>10, <1>11 DEF IInv, Flow, Kept

\* A statement of a migration fails.
LEMMA MigrateFailsStep ==
  ASSUME IInv, MigrateFails PROVE IInv'
<1>1. pc = "migrate" /\ cmd \in {"init", "upgrade"} /\ db \in Contents /\ try \in 1 .. Try
        /\ try \in Backups
  BY DEF IInv, Flow, Types, TypeOK, Placed, MigrateFails, Backups
<1>2. UNCHANGED <<head, try, doomed, blind, torn, revived, written, file, db>> /\ faults' \in 0 .. MaxFaults
        /\ main' \in {main, db}
  BY UpgradeAssumption DEF IInv, Flow, Types, TypeOK, MigrateFails, Return, hist
<1>3. \/ cmd = "init" /\ said' = "raised" /\ pc' = "idle" /\ cmd' = "init" /\ frm' = 0
           /\ before' = NoFile
      \/ cmd = "upgrade" /\ pc' = "restore" /\ UNCHANGED <<main, cmd, frm, before, said>>
  BY DEF IInv, Flow, Types, TypeOK, MigrateFails, Goto, Locals, Return, local
<1>4. Types' /\ Placed'
  BY <1>1, <1>2, <1>3, NoFileIsNone, Fields, UpgradeAssumption DEF IInv, Flow, Types, TypeOK,
       Phases, Same, Placed, UpgradeOnly
<1>5. Found' /\ AtHead'
  BY <1>1, <1>2, <1>3, NoFileIsNone, Fields, UpgradeAssumption DEF IInv, Flow, Types, TypeOK,
       Placed, Found, AtHead, TheCopy, NewIsSound, Same, UpgradeOnly, Copied
<1>6. TheCopy'
  BY <1>1, <1>2, <1>3, NoFileIsNone, Fields, UpgradeAssumption DEF IInv, Flow, Types, TypeOK,
       Placed, Found, AtHead, TheCopy, NewIsSound, Same, UpgradeOnly, Copied
<1>7. NewIsSound' /\ Free'
  BY <1>2, <1>3 DEF IInv, Flow, NewIsSound, Free, Young, Early
<1>8. AllFit'
  <2>1. \A b \in Backups : Known(b) => Known(b)'
    BY <1>2, <1>3 DEF Known, Young, Early
  <2>2. db.data <= db'.data /\ db'.data <= written' /\ db.data <= written
    BY <1>1, <1>2, Fields DEF IInv, AllFit, Fits
  <2> QED BY <2>1, <2>2, <1>1, <1>2, CommitFits DEF IInv, Flow, Types
<1>9. Doomed' /\ Foreign' /\ ReportOnRecord'
  BY <1>2, <1>3 DEF IInv, Doomed, Foreign, ReportOnRecord
<1>10. ~PowerFails => DataKept'
  BY <1>1, <1>2, <1>3 DEF IInv, Kept, DataKept
<1>11. ~PowerFails => CopyRows' /\ RowsHaveFiles'
  BY <1>1, <1>2, <1>3 DEF IInv, Kept, CopyRows, RowsHaveFiles, Copied
<1>12. ~PowerFails => Recoverable'
  BY <1>2, <1>3 DEF IInv, Kept, Recoverable, FileSaves, Saves
<1> QED BY <1>4, <1>5, <1>6, <1>7, <1>8, <1>9, <1>10, <1>11, <1>12 DEF IInv, Flow, Kept

\* The check of the migrated file.
LEMMA VerifyStep ==
  ASSUME IInv, Verify PROVE IInv'
<1>1. pc = "verify" /\ pc' = (IF db.state = "sound" THEN "sweep" ELSE "restore") /\ cmd = "upgrade"
        /\ db \in Contents /\ try \in 1 .. Try /\ try \in Backups
  BY DEF IInv, Flow, Types, TypeOK, Placed, UpgradeOnly, Verify, Backups, Goto, Sound
<1>2. UNCHANGED <<db, main, file, head, cmd, frm, before, try, doomed, said, blind, torn, revived, written,
        faults>>
  BY DEF Verify, Goto, Keeping, Locals, disk, local, hist
<1>3. Types' /\ Placed'
  BY <1>1, <1>2 DEF IInv, Flow, Types, TypeOK, Phases, Placed
<1>4. Found' /\ AtHead'
  BY <1>1, <1>2 DEF IInv, Flow, Found, AtHead
<1>5. TheCopy'
  BY <1>1, <1>2 DEF IInv, Flow, TheCopy, Copied
<1>6. NewIsSound' /\ Free'
  BY <1>1, <1>2 DEF IInv, Flow, NewIsSound, Free, Young, Early
<1>7. AllFit'
  <2>1. \A b \in Backups : Known(b) => Known(b)'
    BY <1>1, <1>2 DEF Known, Young, Early
  <2> QED BY <2>1, <1>2, FramesFit DEF IInv
<1>8. Doomed' /\ Foreign' /\ ReportOnRecord'
  BY <1>1, <1>2 DEF IInv, Doomed, Foreign, ReportOnRecord
<1>9. ~PowerFails => DataKept'
  BY <1>1, <1>2 DEF IInv, Kept, DataKept
<1>10. ~PowerFails => CopyRows' /\ RowsHaveFiles'
  BY <1>1, <1>2 DEF IInv, Kept, CopyRows, RowsHaveFiles, Copied
<1>11. ~PowerFails => Recoverable'
  BY <1>1, <1>2 DEF IInv, Kept, Recoverable, FileSaves, Saves
<1> QED BY <1>3, <1>4, <1>5, <1>6, <1>7, <1>8, <1>9, <1>10, <1>11 DEF IInv, Flow, Kept

\* The restore removes the live sidecars.
LEMMA UnlinkStep ==
  ASSUME IInv, Unlink PROVE IInv'
<1>1. pc = "restore" /\ pc' = "swap" /\ cmd = "upgrade" /\ main \in Contents /\ db \in Contents
        /\ try \in 1 .. Try /\ try \in Backups
  BY DEF IInv, Flow, Types, TypeOK, Placed, UpgradeOnly, Unlink, Backups, Goto
<1>2. db' = main /\ UNCHANGED <<main, file, head, cmd, frm, before, try, doomed, said, blind, torn, revived,
        written, faults>>
  BY DEF Unlink, Goto, Keeping, Locals, local, hist
<1>3. Types' /\ Placed'
  BY <1>1, <1>2 DEF IInv, Flow, Types, TypeOK, Phases, Placed
<1>4. Found' /\ AtHead'
  BY <1>1, <1>2 DEF IInv, Flow, Found, AtHead
<1>5. TheCopy'
  BY <1>1, <1>2 DEF IInv, Flow, TheCopy, Copied
<1>6. NewIsSound' /\ Free'
  BY <1>1, <1>2 DEF IInv, Flow, NewIsSound, Free, Young, Early
<1>7. AllFit'
  <2>1. \A b \in Backups : Known(b) => Known(b)' /\ file'[b] \in {file[b], NoFile}
    BY <1>1, <1>2 DEF Known, Young, Early
  <2>2. \A c \in Contents : Fits(c) =>
           /\ c.data <= written'
           /\ \A b \in c.backups : Known(b)' /\ (file'[b] # NoFile => file'[b].data <= c.data)
    BY <2>1, <1>2, StillFits DEF IInv, Flow, Types
  <2> QED BY <2>2, <1>2 DEF IInv, AllFit, Fits, Flow, Types, TypeOK
<1>8. Doomed' /\ Foreign' /\ ReportOnRecord'
  BY <1>1, <1>2 DEF IInv, Flow, Placed, Doomed, Foreign, ReportOnRecord
<1>9. ~PowerFails => DataKept'
  BY <1>1, <1>2 DEF IInv, Kept, DataKept
<1>10. ~PowerFails => CopyRows' /\ RowsHaveFiles'
  BY <1>1, <1>2 DEF IInv, Kept, CopyRows, RowsHaveFiles, Copied
<1>11. ~PowerFails => Recoverable'
  BY <1>1, <1>2 DEF IInv, Kept, Recoverable, FileSaves, Saves, Flow, Found, TheCopy, Copied, Same
<1> QED BY <1>3, <1>4, <1>5, <1>6, <1>7, <1>8, <1>9, <1>10, <1>11 DEF IInv, Flow, Kept

\* The restore swaps the copy in.
LEMMA SwapStep ==
  ASSUME IInv, Swap PROVE IInv'
<1>1. pc = "swap" /\ pc' = "book" /\ cmd = "upgrade" /\ db \in Contents /\ try \in 1 .. Try
        /\ try \in Backups
  BY DEF IInv, Flow, Types, TypeOK, Placed, UpgradeOnly, Swap, Backups, Goto
<1>2. db' = file[try] /\ main' = file[try] /\ UNCHANGED <<file, head, cmd, frm, before, try, doomed,
        said, blind, torn, revived, written, faults>>
  BY DEF Swap, Goto, Keeping, Locals, local, hist
<1>3. file[try] \in Contents /\ Same(file[try], before) /\ file[try].rows[try] = "running"
  BY <1>1 DEF IInv, Flow, Types, TypeOK, TheCopy, Copied
<1>4. Types' /\ Placed'
  BY <1>1, <1>2, <1>3, Fields DEF IInv, Flow, Types, TypeOK, Phases, Placed
<1>5. Found' /\ AtHead'
  BY <1>1, <1>2 DEF IInv, Flow, Found, AtHead, TheCopy, Copied
<1>6. TheCopy'
  BY <1>2, <1>3, Fields DEF TheCopy
<1>7. NewIsSound'
  <2> QED BY <1>1, <1>2 DEF IInv, Flow, NewIsSound
<1>8. Free'
  BY <1>1, <1>2 DEF IInv, Flow, Free, Young, Early
<1>9. AllFit'
  <2>1. \A b \in Backups : Known(b) => Known(b)' /\ file'[b] \in {file[b], NoFile}
    BY <1>1, <1>2 DEF Known, Young, Early
  <2>2. \A c \in Contents : Fits(c) =>
           /\ c.data <= written'
           /\ \A b \in c.backups : Known(b)' /\ (file'[b] # NoFile => file'[b].data <= c.data)
    BY <2>1, <1>2, StillFits DEF IInv, Flow, Types
  <2> QED BY <2>2, <1>1, <1>2 DEF IInv, AllFit, Fits, Flow, Types, TypeOK
<1>10. Doomed' /\ Foreign' /\ ReportOnRecord'
  BY <1>1, <1>2, <1>3, Fields DEF IInv, Doomed, Foreign, ReportOnRecord
<1>11. ~PowerFails => DataKept'
  BY <1>1, <1>2 DEF IInv, Kept, DataKept, Flow, Found, TheCopy, Copied, Same
<1>12. ~PowerFails => CopyRows' /\ RowsHaveFiles'
  BY <1>1, <1>2 DEF IInv, Kept, CopyRows, RowsHaveFiles, Copied
<1>13. ~PowerFails => Recoverable'
  BY <1>1, <1>2 DEF IInv, Kept, Recoverable, FileSaves, Saves
<1> QED BY <1>4, <1>5, <1>6, <1>7, <1>8, <1>9, <1>10, <1>11, <1>12, <1>13 DEF IInv, Flow, Kept

\* The restore books the copy again.
LEMMA BookStep ==
  ASSUME IInv, Book PROVE IInv'
<1>1. pc = "book" /\ cmd = "upgrade" /\ file[try] # NoFile /\ Same(file[try], before)
        /\ Same(db, before) /\ db \in Contents /\ try \in 1 .. Try /\ try \in Backups
  BY DEF IInv, Flow, Types, TypeOK, Placed, UpgradeOnly, Book, Backups, TheCopy, Found, Copied
<1>2. pc' = "idle" /\ cmd' = "init" /\ frm' = 0 /\ before' = NoFile /\ said' = "restored"
        /\ UNCHANGED <<file, head, try, doomed, blind, torn, revived, written, faults>>
  BY DEF Book, Keeping, Locals, Return, hist
<1>3. db' = Row([db EXCEPT !.backups = @ \cup {try}], "failed") /\ main' \in {main, db'}
  BY DEF Book, Return
<1>4. db' \in Contents /\ Same(db', db) /\ db'.backups = db.backups \cup {try}
        /\ db'.rows[try] = "failed"
  <2> DEFINE d == [db EXCEPT !.backups = @ \cup {try}]
  <2>1. d \in Contents /\ Same(d, db) /\ d.backups = db.backups \cup {try}
    BY <1>1 DEF Contents, Same
  <2> QED BY <1>1, <1>3, <2>1, RowOf DEF RowStates, Same
<1>5. Types' /\ Placed'
  BY <1>1, <1>2, <1>3, <1>4, NoFileIsNone, UpgradeAssumption DEF IInv, Flow, Types, TypeOK, Phases,
       Placed, UpgradeOnly
<1>6. Found' /\ AtHead'
  BY <1>2 DEF Found, AtHead
<1>7. TheCopy'
  BY <1>2 DEF TheCopy
<1>8. NewIsSound' /\ Free'
  BY <1>1, <1>2, <1>3, <1>4 DEF IInv, Flow, NewIsSound, Same, Free, Young, Early
<1>9. AllFit'
  <2>1. \A b \in Backups : Known(b) => Known(b)' /\ file'[b] \in {file[b], NoFile}
    BY <1>2 DEF Known, Young, Early
  <2>2. \A c \in Contents : Fits(c) =>
           /\ c.data <= written'
           /\ \A b \in c.backups : Known(b)' /\ (file'[b] # NoFile => file'[b].data <= c.data)
    BY <2>1, <1>2, StillFits DEF IInv, Flow, Types
  <2>3. Fits(db)
    BY <1>1, NoFileIsNone DEF IInv, AllFit
  <2>4. Known(try)' /\ file'[try] = file[try] /\ file[try].data = db.data /\ db'.data = db.data
    BY <1>1, <1>2, <1>4 DEF Known, Young, Early, Same
  <2>5. \A b \in db'.backups : Known(b)' /\ (file'[b] # NoFile => file'[b].data <= db'.data)
    <3> TAKE b \in db'.backups
    <3>1. CASE b = try
      BY <3>1, <2>4, <1>2, <1>4, Fields
    <3>2. CASE b # try
      BY <3>2, <2>2, <2>3, <2>4, <1>1, <1>2, <1>3, <1>4
    <3> QED BY <3>1, <3>2
  <2> QED BY <2>2, <2>3, <2>4, <2>5, <1>1, <1>2, <1>3, <1>4, NoFileIsNone DEF IInv, AllFit, Fits,
      Flow, Types, TypeOK
<1>10. Doomed'
  BY <1>2 DEF Doomed
<1>11. Foreign'
  <2>1. try # 0 /\ db # NoFile
    BY <1>1, Fields
  <2>2. 0 \in db'.backups <=> 0 \in db.backups
    BY <1>1, <1>4
  <2> QED BY <2>1, <2>2, <1>1, <1>2, <1>3, <1>4, NoFileIsNone DEF IInv, Foreign
<1>12. ReportOnRecord'
  BY <1>2, <1>4 DEF ReportOnRecord
<1>13. ~PowerFails => DataKept'
  BY <1>1, <1>2, <1>4 DEF IInv, Kept, DataKept, Flow, Found, Same
<1>14. ~PowerFails => CopyRows' /\ RowsHaveFiles'
  BY <1>1, <1>2, <1>3, <1>4, NoFileIsNone, Fields, UpgradeAssumption DEF IInv, Kept, CopyRows,
       RowsHaveFiles, Flow, Placed, Found, TheCopy, Copied, Same, UpgradeOnly, Doomed
<1>15. ~PowerFails => Recoverable'
  BY <1>2, <1>4, Fields DEF IInv, Kept, Recoverable, FileSaves, Saves, Same
<1> QED BY <1>5, <1>6, <1>7, <1>8, <1>9, <1>10, <1>11, <1>12, <1>13, <1>14, <1>15 DEF IInv, Flow,
    Kept

\* The booking is refused.
LEMMA BookFailsStep ==
  ASSUME IInv, BookFails PROVE IInv'
<1>1. pc = "book" /\ cmd = "upgrade" /\ db.rows[try] = "running" /\ db \in Contents
        /\ try \in 1 .. Try /\ try \in Backups
  BY DEF IInv, Flow, Types, TypeOK, Placed, UpgradeOnly, BookFails, Backups, Found
<1>2. pc' = "idle" /\ cmd' = "init" /\ frm' = 0 /\ before' = NoFile /\ said' = "unbooked"
        /\ db' = db /\ main' \in {main, db} /\ UNCHANGED <<file, head, try, doomed, blind, torn, revived,
        written>> /\ faults' \in 0 .. MaxFaults
  BY UpgradeAssumption DEF IInv, Flow, Types, TypeOK, BookFails, Locals, Return, hist
<1>3. Types' /\ Placed'
  BY <1>1, <1>2, NoFileIsNone, Fields, UpgradeAssumption DEF IInv, Flow, Types, TypeOK, Phases,
       Same, Placed, UpgradeOnly
<1>4. Found' /\ AtHead'
  BY <1>2 DEF Found, AtHead
<1>5. TheCopy'
  BY <1>2 DEF TheCopy
<1>6. NewIsSound' /\ Free'
  BY <1>2 DEF IInv, Flow, NewIsSound, Free, Young, Early
<1>7. AllFit'
  <2>1. \A b \in Backups : Known(b) => Known(b)'
    BY <1>2 DEF Known, Young, Early
  <2>2. db.data <= db'.data /\ db'.data <= written' /\ db.data <= written
    BY <1>1, <1>2, Fields DEF IInv, AllFit, Fits
  <2> QED BY <2>1, <2>2, <1>1, <1>2, CommitFits DEF IInv, Flow, Types
<1>8. Doomed' /\ Foreign' /\ ReportOnRecord'
  BY <1>1, <1>2 DEF IInv, Doomed, Foreign, ReportOnRecord
<1>9. ~PowerFails => DataKept'
  BY <1>1, <1>2 DEF IInv, Kept, DataKept
<1>10. ~PowerFails => CopyRows' /\ RowsHaveFiles'
  BY <1>1, <1>2 DEF IInv, Kept, CopyRows, RowsHaveFiles
<1>11. ~PowerFails => Recoverable'
  BY <1>2 DEF IInv, Kept, Recoverable, FileSaves, Saves
<1> QED BY <1>3, <1>4, <1>5, <1>6, <1>7, <1>8, <1>9, <1>10, <1>11 DEF IInv, Flow, Kept

\* The stale sweep of the only holder.
LEMMA SweepStep ==
  ASSUME IInv, Sweep PROVE IInv'
<1>1. pc = "sweep" /\ pc' = (IF cmd = "init" THEN "start" ELSE IF frm = head THEN "close"
        ELSE "prune") /\ db \in Contents /\ try \in 1 .. Try /\ try \in Backups
  BY DEF IInv, Flow, Types, TypeOK, Placed, Sweep, Backups, Goto
<1>2. UNCHANGED <<file, head, cmd, frm, before, try, doomed, said, blind, torn, revived, written, faults>>
  BY DEF Sweep, Goto, Keeping, Locals, Commit, local, hist
<1>3. PICK r \in [1 .. Try -> RowStates] : db' = [db EXCEPT !.rows = r] /\ main' \in {main, db'}
  <2> DEFINE r == [t \in 1 .. Try |-> IF db.rows[t] = "running" /\ (t # try \/ cmd = "init")
                                      THEN "crashed" ELSE db.rows[t]]
  <2>1. r \in [1 .. Try -> RowStates]
    BY <1>1, Fields DEF RowStates
  <2>2. db' = [db EXCEPT !.rows = r] /\ main' \in {main, db'}
    BY DEF Sweep, Commit
  <2> QED BY <2>1, <2>2
<1>4. db' \in Contents /\ Same(db', db) /\ db'.backups = db.backups
  BY <1>1, <1>3 DEF Contents, Same
<1>5. Types' /\ Placed'
  BY <1>1, <1>2, <1>3, <1>4, NoFileIsNone, Fields, UpgradeAssumption DEF IInv, Flow, Types, TypeOK,
       Phases, Same, Placed, UpgradeOnly
<1>6. Found' /\ AtHead'
  BY <1>1, <1>2, <1>4 DEF IInv, Flow, Types, TypeOK, Found, AtHead, Same
<1>7. TheCopy'
  BY <1>1 DEF TheCopy, Copied
<1>8. NewIsSound' /\ Free'
  BY <1>1, <1>2, <1>3, <1>4, NoFileIsNone, Fields, UpgradeAssumption DEF IInv, Flow, NewIsSound,
       Found, Same, Placed, UpgradeOnly, Free, Young, Early
<1>9. AllFit'
  <2>1. \A b \in Backups : Known(b) => Known(b)'
    BY <1>1, <1>2 DEF Known, Young, Early
  <2>2. db.data <= db'.data /\ db'.data <= written' /\ db.data <= written
    BY <1>1, <1>2, <1>4, Fields DEF IInv, AllFit, Fits, Same
  <2> QED BY <2>1, <2>2, <1>1, <1>2, <1>3, <1>4, CommitFits DEF IInv, Flow, Types
<1>10. Doomed' /\ Foreign' /\ ReportOnRecord'
  BY <1>1, <1>2, <1>3, <1>4, NoFileIsNone, Fields, UpgradeAssumption DEF IInv, Flow, Placed, Doomed,
       Same, Foreign, Types, TypeOK, ReportOnRecord
<1>11. ~PowerFails => DataKept'
  BY <1>1, <1>2, <1>4 DEF IInv, Kept, DataKept, Flow, Placed, Same
<1>12. ~PowerFails => CopyRows' /\ RowsHaveFiles'
  BY <1>1, <1>2, <1>4 DEF IInv, Kept, CopyRows, RowsHaveFiles, Flow, Placed, Copied
<1>13. ~PowerFails => Recoverable'
  BY <1>1, <1>2, <1>4, Fields DEF IInv, Kept, Recoverable, FileSaves, Saves, Same
<1> QED BY <1>5, <1>6, <1>7, <1>8, <1>9, <1>10, <1>11, <1>12, <1>13 DEF IInv, Flow, Kept

\* The rows of old copies go.
LEMMA PruneStep ==
  ASSUME IInv, Prune PROVE IInv'
<1>1. pc = "prune" /\ pc' = "unlink" /\ cmd = "upgrade" /\ db \in Contents /\ try \in 1 .. Try
        /\ try \in Backups
  BY DEF IInv, Flow, Types, TypeOK, Placed, UpgradeOnly, Prune, Backups, Goto
<1>2. UNCHANGED <<file, head, cmd, frm, before, try, said, blind, torn, revived, written, faults>>
        /\ doomed' = Old(db)
  BY DEF Prune, Commit, local, hist
<1>3. db' = [db EXCEPT !.backups = @ \ Old(db)] /\ main' \in {main, db'}
  BY DEF Prune, Commit
<1>4. Old(db) \subseteq db.backups /\ Old(db) \subseteq Backups /\ 0 \notin Old(db)
  BY <1>1, Fields DEF Old, Inside
<1>5. db' \in Contents /\ Same(db', db) /\ db'.backups = db.backups \ Old(db)
  BY <1>1, <1>3 DEF Contents, Same
<1>6. Types' /\ Placed'
  BY <1>1, <1>2, <1>3, <1>4, <1>5, NoFileIsNone, Fields, UpgradeAssumption DEF IInv, Flow, Types,
       TypeOK, Phases, Same, Placed, UpgradeOnly
<1>7. Found' /\ AtHead'
  BY <1>1, <1>2, <1>5 DEF IInv, Flow, Found, AtHead, Same
<1>8. TheCopy'
  BY <1>1 DEF TheCopy, Copied
<1>9. NewIsSound' /\ Free'
  BY <1>1, <1>2, <1>3, <1>4, <1>5, NoFileIsNone, Fields, UpgradeAssumption DEF IInv, Flow,
       NewIsSound, Found, Same, Placed, UpgradeOnly, Free, Young, Early
<1>10. AllFit'
  <2>1. \A b \in Backups : Known(b) => Known(b)'
    BY <1>1, <1>2 DEF Known, Young, Early
  <2>2. db.data <= db'.data /\ db'.data <= written' /\ db.data <= written
    BY <1>1, <1>2, <1>5, Fields DEF IInv, AllFit, Fits, Same
  <2> QED BY <2>1, <2>2, <1>1, <1>2, <1>3, <1>5, CommitFits DEF IInv, Flow, Types
<1>11. Doomed'
  <2>1. Fits(db)
    BY <1>1, NoFileIsNone DEF IInv, AllFit
  <2> QED BY <2>1, <1>2, <1>4, <1>5 DEF Fits, Doomed, Same
<1>12. Foreign'
  BY <1>1, <1>2, <1>3, <1>4, <1>5, NoFileIsNone, Fields, UpgradeAssumption DEF IInv, Foreign, Flow,
       Types, TypeOK, Placed
<1>13. ReportOnRecord'
  BY <1>1 DEF ReportOnRecord
<1>14. ~PowerFails => DataKept'
  BY <1>1, <1>2, <1>5 DEF IInv, Kept, DataKept, Flow, Placed, Same
<1>15. ~PowerFails => CopyRows' /\ RowsHaveFiles'
  BY <1>1, <1>2, <1>5 DEF IInv, Kept, CopyRows, RowsHaveFiles, Flow, Placed, Copied
<1>16. ~PowerFails => Recoverable'
  BY <1>1, <1>2, <1>3, <1>4, <1>5, NoFileIsNone, Fields, UpgradeAssumption DEF IInv, Kept,
       Recoverable, FileSaves, Saves, DataKept, Flow, Placed, Found, TheCopy, Copied, Same,
       UpgradeOnly
<1> QED BY <1>6, <1>7, <1>8, <1>9, <1>10, <1>11, <1>12, <1>13, <1>14, <1>15, <1>16 DEF IInv, Flow,
    Kept

\* Then their files, one by one.
LEMMA UnlinkOldStep ==
  ASSUME IInv, UnlinkOld PROVE IInv'
<1>1. pc = "unlink" /\ cmd = "upgrade" /\ db \in Contents /\ try \in 1 .. Try /\ try \in Backups
  BY DEF IInv, Flow, Types, TypeOK, Placed, UpgradeOnly, UnlinkOld, Backups
<1>2. UNCHANGED <<db, main, head, cmd, frm, before, try, said, blind, torn, revived, written, faults>>
  BY DEF UnlinkOld, local, hist
<1>3. \/ doomed = {} /\ pc' = "close" /\ UNCHANGED <<file, doomed>>
      \/ \E b \in doomed : file' = [file EXCEPT ![b] = NoFile] /\ doomed' = doomed \ {b}
           /\ pc' = "unlink"
  BY DEF UnlinkOld, Goto
<1>4. doomed' \subseteq doomed /\ doomed \subseteq Backups \ {0}
  BY <1>3 DEF IInv, Flow, Types, TypeOK, Placed
<1>5. file' \in [Backups -> Contents \cup {NoFile}] /\ \A b \in Backups : file'[b] = file[b]
        \/ (file'[b] = NoFile /\ b \in doomed)
  BY <1>3 DEF IInv, Flow, Types, TypeOK
<1>6. file'[0] = file[0]
  BY <1>4, <1>5, UpgradeAssumption DEF Backups
<1>7. Types' /\ Placed'
  BY <1>1, <1>2, <1>3, <1>4, <1>5, <1>6, NoFileIsNone, Fields, UpgradeAssumption DEF IInv, Flow,
       Types, TypeOK, Phases, Same, Placed, UpgradeOnly
<1>8. Found' /\ AtHead'
  BY <1>1, <1>2, <1>3, <1>4, <1>5, <1>6, NoFileIsNone, Fields, UpgradeAssumption DEF IInv, Flow,
       Types, TypeOK, Placed, Found, AtHead, TheCopy, NewIsSound, Same, UpgradeOnly, Copied
<1>9. TheCopy'
  BY <1>1, <1>2, <1>3, NoFileIsNone DEF TheCopy, Copied
<1>10. NewIsSound' /\ Free'
  BY <1>1, <1>2, <1>3, <1>5 DEF IInv, Flow, NewIsSound, Free, Young, Early
<1>11. AllFit'
  <2>1. \A b \in Backups : Known(b) => Known(b)' /\ file'[b] \in {file[b], NoFile}
    BY <1>1, <1>2, <1>3, <1>5 DEF Known, Young, Early
  <2>2. \A c \in Contents : Fits(c) =>
           /\ c.data <= written'
           /\ \A b \in c.backups : Known(b)' /\ (file'[b] # NoFile => file'[b].data <= c.data)
    BY <2>1, <1>2, StillFits DEF IInv, Flow, Types
  <2> QED BY <2>2, <1>2, <1>5 DEF IInv, AllFit, Fits, Flow, Types, TypeOK
<1>12. Doomed' /\ Foreign' /\ ReportOnRecord'
  BY <1>2, <1>3, <1>5 DEF IInv, Flow, Placed, Doomed, Foreign, Types, TypeOK, ReportOnRecord
<1>13. ~PowerFails => DataKept'
  BY <1>1, <1>2 DEF IInv, Kept, DataKept
<1>14. ~PowerFails => CopyRows' /\ RowsHaveFiles'
  BY <1>1, <1>2, <1>3, <1>5, Fields DEF IInv, Kept, CopyRows, RowsHaveFiles, Copied, Doomed
<1>15. ~PowerFails => Recoverable'
  <2> SUFFICES ASSUME ~PowerFails, Recoverable, written > 0, ~blind
                 PROVE (FileSaves \/ (pc # "swap" /\ Saves(db)))'
    BY <1>2 DEF IInv, Kept, Recoverable
  <2>1. CASE Saves(db)
    BY <2>1, <1>2, <1>3 DEF Saves
  <2>2. CASE ~Saves(db)
    <3>1. PICK b \in Backups \ {0} : Saves(file[b])
      BY <2>2 DEF Recoverable, FileSaves
    <3>2. CASE file'[b] = file[b]
      BY <3>1, <3>2, <1>2 DEF FileSaves, Saves
    <3>3. CASE file'[b] # file[b]
      <4>1. b \in doomed /\ file[b] # NoFile
        BY <3>3, <1>5
      <4>2. file[b].data <= db.data /\ file[b].data = written
        BY <3>1, <4>1, <1>1 DEF IInv, Doomed, Saves
      <4>3. db.data <= written /\ db.state = "sound"
        BY <1>1, NoFileIsNone DEF IInv, AllFit, Fits, Flow, AtHead
      <4> QED BY <4>2, <4>3, <1>1, <2>2, Fields DEF Saves, IInv, Flow, Types
    <3> QED BY <3>2, <3>3
  <2> QED BY <2>1, <2>2
<1> QED BY <1>7, <1>8, <1>9, <1>10, <1>11, <1>12, <1>13, <1>14, <1>15 DEF IInv, Flow, Kept

\* The sources of the seed file.
LEMMA SeedStep ==
  ASSUME IInv, Seed PROVE IInv'
<1>1. pc = "seed" /\ cmd = "init" /\ db \in Contents /\ try \in 1 .. Try /\ try \in Backups
  BY DEF IInv, Flow, Types, TypeOK, Placed, Seed, Backups
<1>2. UNCHANGED <<file, head, try, doomed, blind, torn, revived, written>> /\ faults' \in 0 .. MaxFaults
  BY UpgradeAssumption DEF IInv, Flow, Types, TypeOK, Seed, disk, hist
<1>3. \/ pc' = "close" /\ UNCHANGED <<db, main, said, cmd, frm, before>>
      \/ pc' = "idle" /\ cmd' = "init" /\ frm' = 0 /\ before' = NoFile /\ said' = "raised"
           /\ db' = Row(db, "failed") /\ main' \in {main, db'}
  BY DEF Seed, Goto, Locals, Return, disk, local
<1>4. db' \in Contents /\ Same(db', db) /\ db'.backups = db.backups /\ main' \in {main, db'}
  BY <1>1, <1>3, RowOf DEF RowStates, Same
<1>5. Types'
  BY <1>1, <1>2, <1>3, <1>4, NoFileIsNone, Fields, UpgradeAssumption DEF IInv, Flow, Types, TypeOK,
       Phases, Same
<1>6. Placed'
  BY <1>1, <1>2, <1>3, <1>4, Fields DEF IInv, Flow, Placed, UpgradeOnly
<1>7. Found' /\ AtHead'
  BY <1>1, <1>2, <1>3, <1>4, NoFileIsNone, Fields, UpgradeAssumption DEF IInv, Flow, Types, TypeOK,
       Placed, Found, AtHead, TheCopy, NewIsSound, Same, UpgradeOnly, Copied
<1>8. TheCopy'
  BY <1>1, <1>3 DEF TheCopy
<1>9. NewIsSound' /\ Free'
  BY <1>1, <1>2, <1>4 DEF IInv, Flow, NewIsSound, Same, Placed, Free, Young
<1>10. AllFit'
  <2>1. \A b \in Backups : Known(b) => Known(b)'
    BY <1>1, <1>2 DEF Known, Young
  <2>2. db.data <= db'.data /\ db'.data <= written' /\ db.data <= written
    BY <1>1, <1>2, <1>4, Fields DEF IInv, AllFit, Fits, Same
  <2> QED BY <2>1, <2>2, <1>1, <1>2, <1>4, CommitFits DEF IInv, Flow, Types
<1>11. Doomed' /\ Foreign' /\ ReportOnRecord'
  BY <1>1, <1>2, <1>3, <1>4, NoFileIsNone, Fields, UpgradeAssumption DEF IInv, Flow, Placed, Doomed,
       Same, Foreign, Types, TypeOK, ReportOnRecord
<1>12. ~PowerFails => DataKept'
  BY <1>1, <1>2, <1>3, <1>4 DEF IInv, Kept, DataKept, Flow, Placed, Same
<1>13. ~PowerFails => CopyRows' /\ RowsHaveFiles'
  BY <1>1, <1>2, <1>3, <1>4 DEF IInv, Kept, CopyRows, RowsHaveFiles, Flow, Placed
<1>14. ~PowerFails => Recoverable'
  BY <1>2, <1>3, <1>4, Fields DEF IInv, Kept, Recoverable, FileSaves, Saves, Same
<1> QED BY <1>5, <1>6, <1>7, <1>8, <1>9, <1>10, <1>11, <1>12, <1>13, <1>14 DEF IInv, Flow, Kept

\* The lifecycle closes its row and reports.
LEMMA CloseStep ==
  ASSUME IInv, Close PROVE IInv'
<1>1. pc = "close" /\ db \in Contents /\ try \in 1 .. Try /\ try \in Backups
  BY DEF IInv, Flow, Types, TypeOK, Placed, Close, Backups
<1>2. pc' = "idle" /\ cmd' = "init" /\ frm' = 0 /\ before' = NoFile /\ said' = "ok"
        /\ UNCHANGED <<file, head, try, doomed, blind, torn, revived, written, faults>>
  BY DEF Close, Keeping, Locals, Return, hist
<1>3. db' = Row(db, "ok") /\ main' \in {main, db'}
  BY DEF Close, Return
<1>4. db' \in Contents /\ Same(db', db) /\ db'.backups = db.backups /\ db'.rows[try] = "ok"
  BY <1>1, <1>3, RowOf DEF RowStates
<1>5. Types' /\ Placed'
  BY <1>1, <1>2, <1>3, <1>4, NoFileIsNone, Fields, UpgradeAssumption DEF IInv, Flow, Types, TypeOK,
       Phases, Same, Placed, UpgradeOnly
<1>6. Found' /\ AtHead'
  BY <1>2 DEF Found, AtHead
<1>7. TheCopy'
  BY <1>2 DEF TheCopy
<1>8. NewIsSound' /\ Free'
  BY <1>1, <1>2, <1>3, <1>4 DEF IInv, Flow, NewIsSound, Same, Placed, Free, Young, Early
<1>9. AllFit'
  <2>1. \A b \in Backups : Known(b) => Known(b)'
    BY <1>2 DEF Known, Young, Early
  <2>2. db.data <= db'.data /\ db'.data <= written' /\ db.data <= written
    BY <1>1, <1>2, <1>4, Fields DEF IInv, AllFit, Fits, Same
  <2> QED BY <2>1, <2>2, <1>1, <1>2, <1>3, <1>4, CommitFits DEF IInv, Flow, Types
<1>10. Doomed' /\ Foreign' /\ ReportOnRecord'
  BY <1>2, <1>3, <1>4, Fields DEF IInv, Flow, Placed, Doomed, Foreign, ReportOnRecord
<1>11. ~PowerFails => DataKept'
  BY <1>1, <1>2, <1>4 DEF IInv, Kept, DataKept, Flow, Placed, Same
<1>12. ~PowerFails => CopyRows' /\ RowsHaveFiles'
  BY <1>1, <1>2, <1>4 DEF IInv, Kept, CopyRows, RowsHaveFiles, Flow, Placed
<1>13. ~PowerFails => Recoverable'
  BY <1>2, <1>4, Fields DEF IInv, Kept, Recoverable, FileSaves, Saves, Same
<1> QED BY <1>5, <1>6, <1>7, <1>8, <1>9, <1>10, <1>11, <1>12, <1>13 DEF IInv, Flow, Kept

\* The process ends in the middle.
LEMMA KilledStep ==
  ASSUME IInv, Killed PROVE IInv'
<1>1. pc # "idle" /\ try \in 1 .. Try
  BY DEF IInv, Flow, Types, TypeOK, Placed, Killed
<1>2. pc' = "idle" /\ cmd' = "init" /\ frm' = 0 /\ before' = NoFile /\ said' = "raised"
        /\ doomed' = {} /\ torn' = (torn \/ pc = "swap") /\ faults' \in 0 .. MaxFaults
  BY UpgradeAssumption DEF IInv, Flow, Types, TypeOK, Killed, Locals
<1>3. UNCHANGED <<main, file, head, try, blind, written>> /\ db' \in {db, main}
        /\ (~PowerFails => db' = db)
  BY DEF Killed
<1>r. /\ revived' \subseteq Backups /\ revived \subseteq revived'
      /\ pc = "swap" => \A b \in db'.backups : file[b] # NoFile \/ b \in revived'
  <2>1. revived' = IF pc = "swap" THEN revived \cup {b \in db'.backups : file[b] = NoFile} ELSE revived
    BY DEF Killed
  <2>2. pc = "swap" => db' \in Contents
    BY <1>3 DEF IInv, Flow, Types, TypeOK, Placed
  <2>3. revived \subseteq Backups
    BY DEF IInv, Flow, Types
  <2> QED BY <2>1, <2>2, <2>3, Fields
<1>4. Types' /\ Placed'
  BY <1>2, <1>3, <1>r, UpgradeAssumption DEF IInv, Flow, Types, TypeOK, Phases, Placed, UpgradeOnly
<1>5. Found' /\ AtHead'
  BY <1>2 DEF Found, AtHead
<1>6. TheCopy'
  BY <1>2 DEF TheCopy
<1>7. NewIsSound' /\ Free'
  BY <1>2, <1>3 DEF IInv, Flow, NewIsSound, Free, Young, Early
<1>8. AllFit'
  <2>1. \A b \in Backups : Known(b) => Known(b)' /\ file'[b] \in {file[b], NoFile}
    BY <1>2, <1>3 DEF Known, Young, Early
  <2>2. \A c \in Contents : Fits(c) =>
           /\ c.data <= written'
           /\ \A b \in c.backups : Known(b)' /\ (file'[b] # NoFile => file'[b].data <= c.data)
    BY <2>1, <1>3, StillFits DEF IInv, Flow, Types
  <2> QED BY <2>2, <1>3 DEF IInv, AllFit, Fits, Flow, Types, TypeOK
<1>9. Doomed' /\ Foreign' /\ ReportOnRecord'
  BY <1>2, <1>3 DEF IInv, Flow, Placed, Doomed, Foreign, ReportOnRecord
<1>10. ~PowerFails => DataKept'
  <2>1. torn' = (torn \/ pc = "swap")
    BY DEF Killed
  <2>2. ~torn' /\ ~PowerFails => db' = db /\ ~torn /\ pc # "swap"
    BY <2>1, <1>1, <1>2, <1>3 DEF IInv, Flow, Types
  <2> QED BY <2>2, <1>2, <1>3 DEF IInv, Kept, DataKept
<1>11. ~PowerFails => CopyRows' /\ RowsHaveFiles'
  <2>1. CopyRows'
    BY <1>2 DEF CopyRows
  <2>2. CASE pc # "swap"
    BY <2>1, <2>2, <1>2, <1>3, <1>r DEF IInv, Kept, RowsHaveFiles
  <2>3. CASE pc = "swap"
    BY <2>1, <2>3, <1>2, <1>3, <1>r DEF RowsHaveFiles
  <2> QED BY <2>1, <2>2, <2>3
<1>12. ~PowerFails => Recoverable'
  BY <1>2, <1>3 DEF IInv, Kept, Recoverable, FileSaves, Saves
<1> QED BY <1>4, <1>5, <1>6, <1>7, <1>8, <1>9, <1>10, <1>11, <1>12 DEF IInv, Flow, Kept

\* Nothing happens.
LEMMA StutterStep ==
  ASSUME IInv, UNCHANGED vars PROVE IInv'
<1>1. UNCHANGED <<db, main, file, head, pc, cmd, frm, before, try, doomed, said, blind, torn, revived,
        written, faults>>
  BY DEF vars, disk, local, hist
<1>2. Types' /\ Placed'
  BY <1>1 DEF IInv, Flow, Types, TypeOK, Placed
<1>3. Found' /\ AtHead'
  BY <1>1 DEF IInv, Flow, Found, AtHead
<1>4. TheCopy'
  BY <1>1 DEF IInv, Flow, TheCopy
<1>5. NewIsSound' /\ Free'
  BY <1>1 DEF IInv, Flow, NewIsSound, Free, Young
<1>6. AllFit'
  <2>1. \A b \in Backups : Known(b) => Known(b)'
    BY <1>1 DEF Known, Young
  <2> QED BY <2>1, <1>1, FramesFit DEF IInv
<1>7. Doomed' /\ Foreign' /\ ReportOnRecord'
  BY <1>1 DEF IInv, Doomed, Foreign, ReportOnRecord
<1>8. ~PowerFails => DataKept'
  BY <1>1 DEF IInv, Kept, DataKept
<1>9. ~PowerFails => CopyRows' /\ RowsHaveFiles'
  BY <1>1 DEF IInv, Kept, CopyRows, RowsHaveFiles
<1>10. ~PowerFails => Recoverable'
  BY <1>1 DEF IInv, Kept, Recoverable, FileSaves, Saves
<1> QED BY <1>2, <1>3, <1>4, <1>5, <1>6, <1>7, <1>8, <1>9, <1>10 DEF IInv, Flow, Kept

\* Every step of a lifecycle keeps the invariant.
LEMMA LifecycleStep ==
  ASSUME IInv, Lifecycle PROVE IInv'
  BY UpgradeOpensStep, InitOpensStep, StartRunStep, NoSuchTableStep, OnlineBackupStep,
       CheckCopyStep, CopyIsBadStep, RecordBackupStep, MigrateStep, MigratedStep, MigrateFailsStep,
       VerifyStep, UnlinkStep, SwapStep, BookStep, BookFailsStep, SweepStep, PruneStep,
       UnlinkOldStep, SeedStep, CloseStep DEF Lifecycle

\* A directory without a database, or with one at the first revision.
LEMMA InitIInv ==
  ASSUME Init PROVE IInv
<1>1. db \in Contents \cup {NoFile}
  <2>1. [Empty EXCEPT !.rev = 1, !.backups = {0}] \in Contents
    <3>1. 0 \in Backups /\ 1 \in 0 .. MaxHead
      BY UpgradeAssumption DEF Backups
    <3> QED BY <3>1, NoFileIsNone DEF Contents
  <2> QED BY <2>1 DEF Init
<1>2. main = db /\ (db # NoFile => db.backups = {0} /\ db.data = 0 /\ db.rev = 1)
  BY NoFileIsNone DEF Init, Empty
<1>3. Empty # NoFile /\ file \in [Backups -> Contents \cup {NoFile}] /\ file[0] = Empty
      /\ \A b \in Backups \ {0} : file[b] = NoFile
  BY NoFileIsNone, UpgradeAssumption DEF Init, Backups
<1>4. Types
  <2>1. 0 \in 0 .. MaxHead /\ 0 \in 0 .. Try /\ 0 \in 0 .. MaxFaults /\ 0 \in 0 .. MaxData
    BY UpgradeAssumption
  <2>2. TypeOK
    BY <1>1, <1>3, <2>1 DEF Init, TypeOK, Phases
  <2> QED BY <2>1, <2>2 DEF Init, Types
<1>5. Placed /\ Found /\ AtHead /\ TheCopy
  BY <1>3 DEF Init, Placed, Found, AtHead, TheCopy, UpgradeOnly
<1>6. NewIsSound /\ Free
  BY <1>2 DEF Init, NewIsSound, Free, Young, Early
<1>7. AllFit
  <2>1. written = 0 /\ Known(0)
    BY DEF Init, Known, Young, Early
  <2>2. db # NoFile => Fits(db)
    BY <1>2, <1>3, <2>1, NoFileIsNone DEF Fits
  <2>3. Fits(Empty)
    BY <2>1, NoFileIsNone DEF Fits
  <2> QED BY <1>2, <1>3, <2>2, <2>3 DEF AllFit
<1>8. Doomed /\ Foreign /\ ReportOnRecord
  BY DEF Init, Doomed, Foreign, ReportOnRecord
<1>9. Kept
  BY <1>2, <1>3 DEF Init, Kept, DataKept, CopyRows, RowsHaveFiles, Recoverable
<1> QED BY <1>4, <1>5, <1>6, <1>7, <1>8, <1>9 DEF IInv, Flow

\* The invariant holds of every history of the file.
LEMMA Inductive == Spec => []IInv
<1>1. IInv /\ [Next]_vars => IInv'
  BY DeployStep, CollectStep, BeginStep, LifecycleStep, KilledStep, RefusedStep, StutterStep
       DEF Next
<1> QED BY InitIInv, <1>1, PTL DEF Spec

\* The variables stay within their types.
THEOREM TypeCorrect == Spec => []TypeOK
<1>1. IInv => TypeOK
  BY DEF IInv, Flow, Types
<1> QED BY Inductive, <1>1, PTL

\* The row of a lifecycle says what its caller was told: `ok` only if it ended well, and
\* `failed` if it did not.
THEOREM ReportsOnRecord == Spec => []ReportOnRecord
<1>1. IInv => ReportOnRecord
  BY DEF IInv
<1> QED BY Inductive, <1>1, PTL

\* The four places where a lifecycle reports.
LEMMA Endings ==
  ASSUME IInv, [Next]_vars, Returns PROVE CopyIsBad \/ Book \/ BookFails \/ Close
  BY DEF Returns, Next, Lifecycle, vars, Deploy, Begin, Collect, Refused, UpgradeOpens, InitOpens,
       StartRun, NoSuchTable, OnlineBackup, CheckCopy, RecordBackup, Migrate, Migrated,
       MigrateFails, Verify, Unlink, Swap, Sweep, Prune, UnlinkOld, Seed, Killed, Return, Goto

\* `db init` and `db upgrade` do all or nothing: one that reports success left the database at
\* head, one that reports failure left what it found, whatever statement of a migration failed and
\* whichever check found the damage.
THEOREM UpgradeAtomic == Spec => UpgradeIsAtomic
<1>1. ASSUME IInv, [Next]_vars PROVE AllOrNothing
  <2> SUFFICES ASSUME Returns PROVE AllOrNothing!2
    BY DEF AllOrNothing
  <2>1. CopyIsBad \/ Book \/ BookFails \/ Close
    BY <1>1, Endings
  <2> db \in Contents /\ try \in 1 .. Try
    BY <1>1, <2>1 DEF IInv, Flow, Types, TypeOK, Placed, CopyIsBad, Book, BookFails, Close
  <2>2. CASE CopyIsBad
    <3>1. Same(db, before)
      BY <1>1, <2>2 DEF IInv, Flow, Found, CopyIsBad
    <3>2. Same(db', db) /\ said' = "failed"
      BY <2>2, RowOf DEF CopyIsBad, Return, RowStates
    <3> QED BY <3>1, <3>2 DEF Same
  <2>3. CASE Book
    <3>1. Same(db, before)
      BY <1>1, <2>3 DEF IInv, Flow, Found, Book
    <3>2. Same([db EXCEPT !.backups = @ \cup {try}], db)
            /\ [db EXCEPT !.backups = @ \cup {try}] \in Contents
      BY DEF Contents, Same, Backups
    <3>3. Same(db', [db EXCEPT !.backups = @ \cup {try}]) /\ said' = "restored"
      BY <2>3, <3>2, RowOf DEF Book, Return, RowStates
    <3> QED BY <3>1, <3>3 DEF Same
  <2>4. CASE BookFails
    BY <1>1, <2>4 DEF IInv, Flow, Found, BookFails, Return, Same
  <2>5. CASE Close
    <3>1. Same(db', db) /\ said' = "ok" /\ head' = head
      BY <2>5, RowOf DEF Close, Return, RowStates, Keeping
    <3>2. db.rev = head /\ (db.state = "sound" \/ before.rev = head)
      BY <1>1, <2>5 DEF IInv, Flow, AtHead, Close
    <3> QED BY <3>1, <3>2 DEF Same
  <2> QED BY <2>1, <2>2, <2>3, <2>4, <2>5
<1> QED BY Inductive, <1>1, PTL DEF Spec, UpgradeIsAtomic

\* What may happen while the pruning of rows is next.
LEMMA PruneIsLeft ==
  ASSUME [Next]_vars, pc = "prune" PROVE Prune \/ (\E kind \in {"run", "upgrade"} : Refused(kind))
           \/ Killed \/ UNCHANGED vars
  BY DEF Next, Lifecycle, Deploy, Begin, Collect, UpgradeOpens, InitOpens, StartRun, NoSuchTable,
       OnlineBackup, CheckCopy, CopyIsBad, RecordBackup, Migrate, Migrated, MigrateFails, Verify,
       Unlink, Swap, Book, BookFails, Sweep, UnlinkOld, Seed, Close

\* The steps that touch copies.
LEMMA FileWriters ==
  ASSUME [Next]_vars, file' # file PROVE OnlineBackup \/ CopyIsBad \/ UnlinkOld
  BY DEF Next, Lifecycle, vars, disk, Deploy, Begin, Collect, Refused, UpgradeOpens, InitOpens,
       StartRun, NoSuchTable, CheckCopy, RecordBackup, Migrate, Migrated, MigrateFails, Verify,
       Unlink, Swap, Book, BookFails, Sweep, Prune, Seed, Close, Killed, Commit

\* A recorded path outside backups/ is neither unlinked nor pruned (`Inside`).
THEOREM OutsideUntouched == Spec => OutsideIsUntouched
<1>1. ASSUME IInv, [Next]_vars PROVE file'[0] = file[0]
  <2>1. CASE OnlineBackup \/ CopyIsBad
    <3>1. try # 0
      BY <1>1, <2>1 DEF IInv, Flow, Placed, OnlineBackup, CopyIsBad
    <3>2. PICK c : file' = [file EXCEPT ![try] = c]
      BY <2>1 DEF OnlineBackup, CopyIsBad
    <3> QED BY <3>1, <3>2
  <2>2. CASE UnlinkOld
    <3>1. file' = file \/ \E b \in doomed : file' = [file EXCEPT ![b] = NoFile]
      BY <2>2 DEF UnlinkOld
    <3>2. 0 \notin doomed
      BY <1>1 DEF IInv, Flow, Placed
    <3> QED BY <1>1, <3>1, <3>2, UpgradeAssumption DEF IInv, Flow, Types, TypeOK, Backups
  <2> QED BY <1>1, <2>1, <2>2, FileWriters
<1>2. ASSUME IInv, [Next]_vars, db # NoFile, 0 \in db.backups, pc = "prune" PROVE 0 \in db'.backups
  <2>1. CASE Prune
    <3>1. db' = [db EXCEPT !.backups = @ \ Old(db)]
      BY <2>1 DEF Prune, Commit
    <3>2. 0 \notin Old(db)
      BY DEF Old, Inside
    <3>3. db'.backups = db.backups \ Old(db)
      BY <3>1
    <3> QED BY <1>2, <3>2, <3>3
  <2>2. CASE \E kind \in {"run", "upgrade"} : Refused(kind)
    BY <1>2, <2>2 DEF Refused, Commit
  <2>3. CASE Killed
    BY <1>2, <2>3 DEF Killed, IInv, Foreign
  <2>4. CASE UNCHANGED vars
    BY <1>2, <2>4 DEF vars, disk
  <2> QED BY <1>2, <2>1, <2>2, <2>3, <2>4, PruneIsLeft
<1>3. IInv /\ [Next]_vars =>
        file'[0] = file[0] /\ (db # NoFile /\ 0 \in db.backups /\ pc = "prune" => 0 \in db'.backups)
  BY <1>1, <1>2
<1> QED BY Inductive, <1>3, PTL DEF Spec, OutsideIsUntouched

\* What was collected is in some sound place, the live file or a copy (but for a run that
\* collected into a damaged or torn file, `blind`), and a recorded copy is there to be restored
\* from, wherever the process dies, but for the rows that a kill between the restore's unlink and
\* its swap brings back with the bare file (`revived`).  A loss of power is assumed away, against
\* which the code has `fsync` alone.
THEOREM CopiesAreSafe == ASSUME ~PowerFails PROVE Spec => []CopiesSave
<1>1. IInv => CopiesSave
  <2> SUFFICES ASSUME IInv PROVE CopiesSave
    OBVIOUS
  <2>1. TypeOK /\ RowsHaveFiles
    BY DEF IInv, Flow, Types, Kept
  <2>2. ASSUME written > 0, ~blind
        PROVE  \E c \in {db} \cup {file[b] : b \in Backups \ {0}} : c # NoFile /\ c.state = "sound"
                 /\ c.data = written
    <3>1. FileSaves \/ Saves(db)
      BY <2>2 DEF IInv, Kept, Recoverable
    <3> QED BY <3>1 DEF FileSaves, Saves
  <2> QED BY <2>1, <2>2 DEF CopiesSave, NothingUnrecoverable
<1> QED BY Inductive, <1>1, PTL
=============================================================================
