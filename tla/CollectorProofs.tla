-------------------------- MODULE CollectorProofs --------------------------
(***************************************************************************)
(* The safety of Collector for any number of commands, process ids,        *)
(* probers, faults, and any thresholds.  Everything rests on one inductive *)
(* invariant: whoever is inside the lock is its one exclusive holder, so   *)
(* every other row belongs to a process that is outside; the row of a      *)
(* process is determined by its phase; and a sweep's verdict names other   *)
(* rows only, running until its transaction commits and crashed after.     *)
(***************************************************************************)
EXTENDS Collector, TLAPS

\* A process inside the lock is the flock's exclusive holder.
HolderInv == \A p \in Proc : pc[p] \in Holding => excl = p

\* What a process's row holds in each phase of the process.
OwnRowInv ==
  \A p \in Proc :
    /\ pc[p] \in {"locking", "skip", "announce", "start"} => status[p] = "none"
    /\ pc[p] \in {"recover", "mark"} =>
         status[p] = IF p \in Upgrades THEN "running" ELSE "none"
    /\ pc[p] \in {"work", "check", "close"} => status[p] = "running"
    /\ pc[p] \in {"checkpoint", "reclose"} => status[p] \in Outcomes \cup {"cancelled"}

\* What a sweep remembers: nothing outside the sweep, other processes' rows in it.
VerdictInv ==
  \A p \in Proc :
    /\ verdict[p] # {} => pc[p] \in {"mark", "announce"}
    /\ \A q \in verdict[p] :
         /\ q # p
         /\ pc[p] = "mark" => status[q] = "running"
         /\ pc[p] = "announce" => status[q] = "crashed"

IInv == TypeOK /\ HolderInv /\ OwnRowInv /\ VerdictInv /\ AnnouncedAreCrashed
\* Every step keeps the types.
LEMMA TypeStep == TypeOK /\ [Next]_vars => TypeOK'
<1> SUFFICES ASSUME TypeOK, [Next]_vars PROVE TypeOK'
  OBVIOUS
<1> USE CollectorAssumption DEF TypeOK, lockVars, rowVars, Phases, Holding, Statuses, Outcomes
<1>1. ASSUME NEW p \in Proc, Launch(p) PROVE TypeOK'
  BY <1>1 DEF Launch, Goto
<1>2. ASSUME NEW p \in Proc, Exit(p) PROVE TypeOK'
  BY <1>2 DEF Exit, Goto
<1>3. ASSUME NEW p \in Proc, Acquire(p) PROVE TypeOK'
  BY <1>3 DEF Acquire, Goto
<1>4. ASSUME NEW p \in Proc, Retry(p) PROVE TypeOK'
  BY <1>4 DEF Retry
<1>5. ASSUME NEW p \in Proc, GiveUp(p) PROVE TypeOK'
  BY <1>5 DEF GiveUp, Goto
<1>6. ASSUME NEW p \in Proc, Release(p) PROVE TypeOK'
  BY <1>6 DEF Release, Goto
<1>7. ASSUME NEW p \in Proc, RecordSkippedLocked(p) PROVE TypeOK'
  BY <1>7 DEF RecordSkippedLocked, Goto, Sweeping
<1>8. ASSUME NEW p \in Proc, SkipUnrecorded(p) PROVE TypeOK'
  BY <1>8 DEF SkipUnrecorded, Goto
<1>9. ASSUME NEW p \in Proc, SweepRead(p) PROVE TypeOK'
  BY <1>9 DEF SweepRead, Goto
<1>10. ASSUME NEW p \in Proc, SweepWrite(p) PROVE TypeOK'
  BY <1>10 DEF SweepWrite, Goto, AfterSweep
<1>11. ASSUME NEW p \in Proc, SweepOvertaken(p) PROVE TypeOK'
  BY <1>11 DEF SweepOvertaken, Goto
<1>12. ASSUME NEW p \in Proc, Announce(p) PROVE TypeOK'
  BY <1>12 DEF Announce, Goto
<1>13. ASSUME NEW p \in Proc, StartRun(p) PROVE TypeOK'
  BY <1>13 DEF StartRun, Goto
<1>14. ASSUME NEW p \in Proc, Heartbeat(p) PROVE TypeOK'
  BY <1>14 DEF Heartbeat
<1>15. ASSUME NEW p \in Proc, EndWork(p) PROVE TypeOK'
  BY <1>15 DEF EndWork, Goto
<1>16. ASSUME NEW p \in Proc, UpgradeFails(p) PROVE TypeOK'
  BY <1>16 DEF UpgradeFails, Goto
<1>17. ASSUME NEW p \in Proc, CheckInvariants(p) PROVE TypeOK'
  BY <1>17 DEF CheckInvariants, Goto
<1>18. ASSUME NEW p \in Proc, Close(p) PROVE TypeOK'
  BY <1>18 DEF Close, Goto
<1>19. ASSUME NEW p \in Proc, Cancel(p) PROVE TypeOK'
  BY <1>19 DEF Cancel, Goto
<1>20. ASSUME NEW p \in Proc, CheckpointDone(p) PROVE TypeOK'
  BY <1>20 DEF CheckpointDone, Goto
<1>21. ASSUME NEW p \in Proc, CheckpointBusy(p) PROVE TypeOK'
  BY <1>21 DEF CheckpointBusy, Goto
<1>22. ASSUME NEW p \in Proc, Reclose(p) PROVE TypeOK'
  BY <1>22 DEF Reclose, Goto, WithWarning
<1>23. ASSUME NEW p \in Proc, Fail(p) PROVE TypeOK'
  BY <1>23 DEF Fail, Goto, Forget
<1>24. ASSUME NEW p \in Proc, Kill(p) PROVE TypeOK'
  BY <1>24 DEF Kill, Goto, Forget
<1>25. ASSUME NEW d \in Probers, ProbeBegin(d) PROVE TypeOK'
  BY <1>25 DEF ProbeBegin
<1>26. ASSUME NEW d \in Probers, ProbeEnd(d) PROVE TypeOK'
  BY <1>26 DEF ProbeEnd
<1>27. ASSUME NEW x \in Pid, ForeignStart(x) PROVE TypeOK'
  BY <1>27 DEF ForeignStart
<1>28. ASSUME NEW x \in Pid, ForeignExit(x) PROVE TypeOK'
  BY <1>28 DEF ForeignExit
<1>29. CASE Tick
  BY <1>29 DEF Tick
<1>30. CASE UNCHANGED vars
  BY <1>30 DEF vars
<1> QED
  BY <1>1, <1>2, <1>3, <1>4, <1>5, <1>6, <1>7, <1>8, <1>9, <1>10, <1>11, <1>12, <1>13,
     <1>14, <1>15, <1>16, <1>17, <1>18, <1>19, <1>20, <1>21, <1>22, <1>23, <1>24, <1>25,
     <1>26, <1>27, <1>28, <1>29, <1>30 DEF Next, Step

\* Only Acquire brings a process inside the lock, and only when nobody holds it;
\* only the holder, or its death, gives it up.
LEMMA HolderStep == TypeOK /\ HolderInv /\ [Next]_vars => HolderInv'
<1> SUFFICES ASSUME TypeOK /\ HolderInv, [Next]_vars PROVE HolderInv'
  OBVIOUS
<1> USE CollectorAssumption DEF TypeOK, HolderInv, lockVars, rowVars, Holding
<1>1. ASSUME NEW p \in Proc, Launch(p) PROVE HolderInv'
  BY <1>1 DEF Launch, Goto
<1>2. ASSUME NEW p \in Proc, Exit(p) PROVE HolderInv'
  BY <1>2 DEF Exit, Goto
<1>3. ASSUME NEW p \in Proc, Acquire(p) PROVE HolderInv'
  BY <1>3 DEF Acquire, Goto, FlockFree
<1>4. ASSUME NEW p \in Proc, Retry(p) PROVE HolderInv'
  BY <1>4 DEF Retry
<1>5. ASSUME NEW p \in Proc, GiveUp(p) PROVE HolderInv'
  BY <1>5 DEF GiveUp, Goto
<1>6. ASSUME NEW p \in Proc, Release(p) PROVE HolderInv'
  BY <1>6 DEF Release, Goto
<1>7. ASSUME NEW p \in Proc, RecordSkippedLocked(p) PROVE HolderInv'
  BY <1>7 DEF RecordSkippedLocked, Goto
<1>8. ASSUME NEW p \in Proc, SkipUnrecorded(p) PROVE HolderInv'
  BY <1>8 DEF SkipUnrecorded, Goto
<1>9. ASSUME NEW p \in Proc, SweepRead(p) PROVE HolderInv'
  BY <1>9 DEF SweepRead, Goto
<1>10. ASSUME NEW p \in Proc, SweepWrite(p) PROVE HolderInv'
  BY <1>10 DEF SweepWrite, Goto, AfterSweep
<1>11. ASSUME NEW p \in Proc, SweepOvertaken(p) PROVE HolderInv'
  BY <1>11 DEF SweepOvertaken, Goto
<1>12. ASSUME NEW p \in Proc, Announce(p) PROVE HolderInv'
  BY <1>12 DEF Announce, Goto
<1>13. ASSUME NEW p \in Proc, StartRun(p) PROVE HolderInv'
  BY <1>13 DEF StartRun, Goto
<1>14. ASSUME NEW p \in Proc, Heartbeat(p) PROVE HolderInv'
  BY <1>14 DEF Heartbeat
<1>15. ASSUME NEW p \in Proc, EndWork(p) PROVE HolderInv'
  BY <1>15 DEF EndWork, Goto
<1>16. ASSUME NEW p \in Proc, UpgradeFails(p) PROVE HolderInv'
  BY <1>16 DEF UpgradeFails, Goto
<1>17. ASSUME NEW p \in Proc, CheckInvariants(p) PROVE HolderInv'
  BY <1>17 DEF CheckInvariants, Goto
<1>18. ASSUME NEW p \in Proc, Close(p) PROVE HolderInv'
  BY <1>18 DEF Close, Goto
<1>19. ASSUME NEW p \in Proc, Cancel(p) PROVE HolderInv'
  BY <1>19 DEF Cancel, Goto
<1>20. ASSUME NEW p \in Proc, CheckpointDone(p) PROVE HolderInv'
  BY <1>20 DEF CheckpointDone, Goto
<1>21. ASSUME NEW p \in Proc, CheckpointBusy(p) PROVE HolderInv'
  BY <1>21 DEF CheckpointBusy, Goto
<1>22. ASSUME NEW p \in Proc, Reclose(p) PROVE HolderInv'
  BY <1>22 DEF Reclose, Goto, WithWarning
<1>23. ASSUME NEW p \in Proc, Fail(p) PROVE HolderInv'
  BY <1>23 DEF Fail, Goto, Forget
<1>24. ASSUME NEW p \in Proc, Kill(p) PROVE HolderInv'
  BY <1>24 DEF Kill, Goto, Forget
<1>25. ASSUME NEW d \in Probers, ProbeBegin(d) PROVE HolderInv'
  BY <1>25 DEF ProbeBegin
<1>26. ASSUME NEW d \in Probers, ProbeEnd(d) PROVE HolderInv'
  BY <1>26 DEF ProbeEnd
<1>27. ASSUME NEW x \in Pid, ForeignStart(x) PROVE HolderInv'
  BY <1>27 DEF ForeignStart
<1>28. ASSUME NEW x \in Pid, ForeignExit(x) PROVE HolderInv'
  BY <1>28 DEF ForeignExit
<1>29. CASE Tick
  BY <1>29 DEF Tick
<1>30. CASE UNCHANGED vars
  BY <1>30 DEF vars
<1> QED
  BY <1>1, <1>2, <1>3, <1>4, <1>5, <1>6, <1>7, <1>8, <1>9, <1>10, <1>11, <1>12, <1>13,
     <1>14, <1>15, <1>16, <1>17, <1>18, <1>19, <1>20, <1>21, <1>22, <1>23, <1>24, <1>25,
     <1>26, <1>27, <1>28, <1>29, <1>30 DEF Next, Step

\* A process alone writes its own row, except that a sweep condemns rows of
\* processes outside the lock that are past every phase the row is tied to.
LEMMA OwnRowStep == IInv /\ [Next]_vars => OwnRowInv'
<1> SUFFICES ASSUME IInv, [Next]_vars PROVE OwnRowInv'
  OBVIOUS
<1> USE CollectorAssumption DEF IInv, TypeOK, HolderInv, OwnRowInv, VerdictInv,
      lockVars, rowVars, Holding, Outcomes, Proc
<1>1. ASSUME NEW p \in Proc, Launch(p) PROVE OwnRowInv'
  BY <1>1 DEF Launch, Goto
<1>2. ASSUME NEW p \in Proc, Exit(p) PROVE OwnRowInv'
  BY <1>2 DEF Exit, Goto
<1>3. ASSUME NEW p \in Proc, Acquire(p) PROVE OwnRowInv'
  BY <1>3 DEF Acquire, Goto
<1>4. ASSUME NEW p \in Proc, Retry(p) PROVE OwnRowInv'
  BY <1>4 DEF Retry
<1>5. ASSUME NEW p \in Proc, GiveUp(p) PROVE OwnRowInv'
  BY <1>5 DEF GiveUp, Goto
<1>6. ASSUME NEW p \in Proc, Release(p) PROVE OwnRowInv'
  BY <1>6 DEF Release, Goto
<1>7. ASSUME NEW p \in Proc, RecordSkippedLocked(p) PROVE OwnRowInv'
  BY <1>7 DEF RecordSkippedLocked, Goto
<1>8. ASSUME NEW p \in Proc, SkipUnrecorded(p) PROVE OwnRowInv'
  BY <1>8 DEF SkipUnrecorded, Goto
<1>9. ASSUME NEW p \in Proc, SweepRead(p) PROVE OwnRowInv'
  BY <1>9 DEF SweepRead, Goto
<1>10. ASSUME NEW p \in Proc, SweepWrite(p) PROVE OwnRowInv'
  BY <1>10 DEF SweepWrite, Goto, AfterSweep
<1>11. ASSUME NEW p \in Proc, SweepOvertaken(p) PROVE OwnRowInv'
  BY <1>11 DEF SweepOvertaken, Goto
<1>12. ASSUME NEW p \in Proc, Announce(p) PROVE OwnRowInv'
  BY <1>12 DEF Announce, Goto
<1>13. ASSUME NEW p \in Proc, StartRun(p) PROVE OwnRowInv'
  BY <1>13 DEF StartRun, Goto
<1>14. ASSUME NEW p \in Proc, Heartbeat(p) PROVE OwnRowInv'
  BY <1>14 DEF Heartbeat
<1>15. ASSUME NEW p \in Proc, EndWork(p) PROVE OwnRowInv'
  BY <1>15 DEF EndWork, Goto
<1>16. ASSUME NEW p \in Proc, UpgradeFails(p) PROVE OwnRowInv'
  BY <1>16 DEF UpgradeFails, Goto
<1>17. ASSUME NEW p \in Proc, CheckInvariants(p) PROVE OwnRowInv'
  BY <1>17 DEF CheckInvariants, Goto
<1>18. ASSUME NEW p \in Proc, Close(p) PROVE OwnRowInv'
  BY <1>18 DEF Close, Goto
<1>19. ASSUME NEW p \in Proc, Cancel(p) PROVE OwnRowInv'
  BY <1>19 DEF Cancel, Goto
<1>20. ASSUME NEW p \in Proc, CheckpointDone(p) PROVE OwnRowInv'
  BY <1>20 DEF CheckpointDone, Goto
<1>21. ASSUME NEW p \in Proc, CheckpointBusy(p) PROVE OwnRowInv'
  BY <1>21 DEF CheckpointBusy, Goto
<1>22. ASSUME NEW p \in Proc, Reclose(p) PROVE OwnRowInv'
  BY <1>22 DEF Reclose, Goto, WithWarning
<1>23. ASSUME NEW p \in Proc, Fail(p) PROVE OwnRowInv'
  BY <1>23 DEF Fail, Goto, Forget
<1>24. ASSUME NEW p \in Proc, Kill(p) PROVE OwnRowInv'
  BY <1>24 DEF Kill, Goto, Forget
<1>25. ASSUME NEW d \in Probers, ProbeBegin(d) PROVE OwnRowInv'
  BY <1>25 DEF ProbeBegin
<1>26. ASSUME NEW d \in Probers, ProbeEnd(d) PROVE OwnRowInv'
  BY <1>26 DEF ProbeEnd
<1>27. ASSUME NEW x \in Pid, ForeignStart(x) PROVE OwnRowInv'
  BY <1>27 DEF ForeignStart
<1>28. ASSUME NEW x \in Pid, ForeignExit(x) PROVE OwnRowInv'
  BY <1>28 DEF ForeignExit
<1>29. CASE Tick
  BY <1>29 DEF Tick
<1>30. CASE UNCHANGED vars
  BY <1>30 DEF vars
<1> QED
  BY <1>1, <1>2, <1>3, <1>4, <1>5, <1>6, <1>7, <1>8, <1>9, <1>10, <1>11, <1>12, <1>13,
     <1>14, <1>15, <1>16, <1>17, <1>18, <1>19, <1>20, <1>21, <1>22, <1>23, <1>24, <1>25,
     <1>26, <1>27, <1>28, <1>29, <1>30 DEF Next, Step

\* Between the read and the write of a sweep, and until its last announcement,
\* nobody else can move the rows it has condemned.
LEMMA VerdictStep == IInv /\ [Next]_vars => VerdictInv'
<1> SUFFICES ASSUME IInv, [Next]_vars PROVE VerdictInv'
  OBVIOUS
<1> USE CollectorAssumption DEF IInv, TypeOK, HolderInv, OwnRowInv, VerdictInv,
      lockVars, rowVars, Holding, Outcomes, Proc
<1>1. ASSUME NEW p \in Proc, Launch(p) PROVE VerdictInv'
  BY <1>1 DEF Launch, Goto
<1>2. ASSUME NEW p \in Proc, Exit(p) PROVE VerdictInv'
  BY <1>2 DEF Exit, Goto
<1>3. ASSUME NEW p \in Proc, Acquire(p) PROVE VerdictInv'
  BY <1>3 DEF Acquire, Goto
<1>4. ASSUME NEW p \in Proc, Retry(p) PROVE VerdictInv'
  BY <1>4 DEF Retry
<1>5. ASSUME NEW p \in Proc, GiveUp(p) PROVE VerdictInv'
  BY <1>5 DEF GiveUp, Goto
<1>6. ASSUME NEW p \in Proc, Release(p) PROVE VerdictInv'
  BY <1>6 DEF Release, Goto
<1>7. ASSUME NEW p \in Proc, RecordSkippedLocked(p) PROVE VerdictInv'
  BY <1>7 DEF RecordSkippedLocked, Goto
<1>8. ASSUME NEW p \in Proc, SkipUnrecorded(p) PROVE VerdictInv'
  BY <1>8 DEF SkipUnrecorded, Goto
<1>9. ASSUME NEW p \in Proc, SweepRead(p) PROVE VerdictInv'
  BY <1>9 DEF SweepRead, Goto
<1>10. ASSUME NEW p \in Proc, SweepWrite(p) PROVE VerdictInv'
  BY <1>10 DEF SweepWrite, Goto, AfterSweep
<1>11. ASSUME NEW p \in Proc, SweepOvertaken(p) PROVE VerdictInv'
  BY <1>11 DEF SweepOvertaken, Goto
<1>12. ASSUME NEW p \in Proc, Announce(p) PROVE VerdictInv'
  BY <1>12 DEF Announce, Goto
<1>13. ASSUME NEW p \in Proc, StartRun(p) PROVE VerdictInv'
  BY <1>13 DEF StartRun, Goto
<1>14. ASSUME NEW p \in Proc, Heartbeat(p) PROVE VerdictInv'
  BY <1>14 DEF Heartbeat
<1>15. ASSUME NEW p \in Proc, EndWork(p) PROVE VerdictInv'
  BY <1>15 DEF EndWork, Goto
<1>16. ASSUME NEW p \in Proc, UpgradeFails(p) PROVE VerdictInv'
  BY <1>16 DEF UpgradeFails, Goto
<1>17. ASSUME NEW p \in Proc, CheckInvariants(p) PROVE VerdictInv'
  BY <1>17 DEF CheckInvariants, Goto
<1>18. ASSUME NEW p \in Proc, Close(p) PROVE VerdictInv'
  BY <1>18 DEF Close, Goto
<1>19. ASSUME NEW p \in Proc, Cancel(p) PROVE VerdictInv'
  BY <1>19 DEF Cancel, Goto
<1>20. ASSUME NEW p \in Proc, CheckpointDone(p) PROVE VerdictInv'
  BY <1>20 DEF CheckpointDone, Goto
<1>21. ASSUME NEW p \in Proc, CheckpointBusy(p) PROVE VerdictInv'
  BY <1>21 DEF CheckpointBusy, Goto
<1>22. ASSUME NEW p \in Proc, Reclose(p) PROVE VerdictInv'
  BY <1>22 DEF Reclose, Goto, WithWarning
<1>23. ASSUME NEW p \in Proc, Fail(p) PROVE VerdictInv'
  BY <1>23 DEF Fail, Goto, Forget
<1>24. ASSUME NEW p \in Proc, Kill(p) PROVE VerdictInv'
  BY <1>24 DEF Kill, Goto, Forget
<1>25. ASSUME NEW d \in Probers, ProbeBegin(d) PROVE VerdictInv'
  BY <1>25 DEF ProbeBegin
<1>26. ASSUME NEW d \in Probers, ProbeEnd(d) PROVE VerdictInv'
  BY <1>26 DEF ProbeEnd
<1>27. ASSUME NEW x \in Pid, ForeignStart(x) PROVE VerdictInv'
  BY <1>27 DEF ForeignStart
<1>28. ASSUME NEW x \in Pid, ForeignExit(x) PROVE VerdictInv'
  BY <1>28 DEF ForeignExit
<1>29. CASE Tick
  BY <1>29 DEF Tick
<1>30. CASE UNCHANGED vars
  BY <1>30 DEF vars
<1> QED
  BY <1>1, <1>2, <1>3, <1>4, <1>5, <1>6, <1>7, <1>8, <1>9, <1>10, <1>11, <1>12, <1>13,
     <1>14, <1>15, <1>16, <1>17, <1>18, <1>19, <1>20, <1>21, <1>22, <1>23, <1>24, <1>25,
     <1>26, <1>27, <1>28, <1>29, <1>30 DEF Next, Step

\* A row once announced stays crashed until its slot is launched again.
LEMMA AnnouncedStep == IInv /\ [Next]_vars => AnnouncedAreCrashed'
<1> SUFFICES ASSUME IInv, [Next]_vars PROVE AnnouncedAreCrashed'
  OBVIOUS
<1> USE CollectorAssumption DEF IInv, TypeOK, HolderInv, OwnRowInv, VerdictInv,
      AnnouncedAreCrashed, lockVars, rowVars, Holding, Outcomes, Proc
<1>1. ASSUME NEW p \in Proc, Launch(p) PROVE AnnouncedAreCrashed'
  BY <1>1 DEF Launch, Goto
<1>2. ASSUME NEW p \in Proc, Exit(p) PROVE AnnouncedAreCrashed'
  BY <1>2 DEF Exit, Goto
<1>3. ASSUME NEW p \in Proc, Acquire(p) PROVE AnnouncedAreCrashed'
  BY <1>3 DEF Acquire, Goto
<1>4. ASSUME NEW p \in Proc, Retry(p) PROVE AnnouncedAreCrashed'
  BY <1>4 DEF Retry
<1>5. ASSUME NEW p \in Proc, GiveUp(p) PROVE AnnouncedAreCrashed'
  BY <1>5 DEF GiveUp, Goto
<1>6. ASSUME NEW p \in Proc, Release(p) PROVE AnnouncedAreCrashed'
  BY <1>6 DEF Release, Goto
<1>7. ASSUME NEW p \in Proc, RecordSkippedLocked(p) PROVE AnnouncedAreCrashed'
  BY <1>7 DEF RecordSkippedLocked, Goto
<1>8. ASSUME NEW p \in Proc, SkipUnrecorded(p) PROVE AnnouncedAreCrashed'
  BY <1>8 DEF SkipUnrecorded, Goto
<1>9. ASSUME NEW p \in Proc, SweepRead(p) PROVE AnnouncedAreCrashed'
  BY <1>9 DEF SweepRead, Goto
<1>10. ASSUME NEW p \in Proc, SweepWrite(p) PROVE AnnouncedAreCrashed'
  BY <1>10 DEF SweepWrite, Goto, AfterSweep
<1>11. ASSUME NEW p \in Proc, SweepOvertaken(p) PROVE AnnouncedAreCrashed'
  BY <1>11 DEF SweepOvertaken, Goto
<1>12. ASSUME NEW p \in Proc, Announce(p) PROVE AnnouncedAreCrashed'
  BY <1>12 DEF Announce, Goto
<1>13. ASSUME NEW p \in Proc, StartRun(p) PROVE AnnouncedAreCrashed'
  BY <1>13 DEF StartRun, Goto
<1>14. ASSUME NEW p \in Proc, Heartbeat(p) PROVE AnnouncedAreCrashed'
  BY <1>14 DEF Heartbeat
<1>15. ASSUME NEW p \in Proc, EndWork(p) PROVE AnnouncedAreCrashed'
  BY <1>15 DEF EndWork, Goto
<1>16. ASSUME NEW p \in Proc, UpgradeFails(p) PROVE AnnouncedAreCrashed'
  BY <1>16 DEF UpgradeFails, Goto
<1>17. ASSUME NEW p \in Proc, CheckInvariants(p) PROVE AnnouncedAreCrashed'
  BY <1>17 DEF CheckInvariants, Goto
<1>18. ASSUME NEW p \in Proc, Close(p) PROVE AnnouncedAreCrashed'
  BY <1>18 DEF Close, Goto
<1>19. ASSUME NEW p \in Proc, Cancel(p) PROVE AnnouncedAreCrashed'
  BY <1>19 DEF Cancel, Goto
<1>20. ASSUME NEW p \in Proc, CheckpointDone(p) PROVE AnnouncedAreCrashed'
  BY <1>20 DEF CheckpointDone, Goto
<1>21. ASSUME NEW p \in Proc, CheckpointBusy(p) PROVE AnnouncedAreCrashed'
  BY <1>21 DEF CheckpointBusy, Goto
<1>22. ASSUME NEW p \in Proc, Reclose(p) PROVE AnnouncedAreCrashed'
  BY <1>22 DEF Reclose, Goto, WithWarning
<1>23. ASSUME NEW p \in Proc, Fail(p) PROVE AnnouncedAreCrashed'
  BY <1>23 DEF Fail, Goto, Forget
<1>24. ASSUME NEW p \in Proc, Kill(p) PROVE AnnouncedAreCrashed'
  BY <1>24 DEF Kill, Goto, Forget
<1>25. ASSUME NEW d \in Probers, ProbeBegin(d) PROVE AnnouncedAreCrashed'
  BY <1>25 DEF ProbeBegin
<1>26. ASSUME NEW d \in Probers, ProbeEnd(d) PROVE AnnouncedAreCrashed'
  BY <1>26 DEF ProbeEnd
<1>27. ASSUME NEW x \in Pid, ForeignStart(x) PROVE AnnouncedAreCrashed'
  BY <1>27 DEF ForeignStart
<1>28. ASSUME NEW x \in Pid, ForeignExit(x) PROVE AnnouncedAreCrashed'
  BY <1>28 DEF ForeignExit
<1>29. CASE Tick
  BY <1>29 DEF Tick
<1>30. CASE UNCHANGED vars
  BY <1>30 DEF vars
<1> QED
  BY <1>1, <1>2, <1>3, <1>4, <1>5, <1>6, <1>7, <1>8, <1>9, <1>10, <1>11, <1>12, <1>13,
     <1>14, <1>15, <1>16, <1>17, <1>18, <1>19, <1>20, <1>21, <1>22, <1>23, <1>24, <1>25,
     <1>26, <1>27, <1>28, <1>29, <1>30 DEF Next, Step

\* Every step of the processes is a step of the ledger or leaves it unchanged.
LEMMA LedgerStep == IInv /\ [Next]_vars => [Ledger!Next]_(Ledger!vars)
<1> SUFFICES ASSUME IInv, [Next]_vars PROVE [Ledger!Next]_(Ledger!vars)
  OBVIOUS
<1> USE CollectorAssumption DEF IInv, TypeOK, HolderInv, OwnRowInv, VerdictInv,
      lockVars, rowVars, Holding, Outcomes, Statuses, Proc, Executing, Live,
      Ledger!Next, Ledger!vars, Ledger!Closed, Ledger!Settled
<1>1. ASSUME NEW p \in Proc, Launch(p) PROVE [Ledger!Next]_(Ledger!vars)
  BY <1>1 DEF Launch, Goto, Ledger!Forget
<1>2. ASSUME NEW p \in Proc, Exit(p) PROVE [Ledger!Next]_(Ledger!vars)
  BY <1>2 DEF Exit, Goto
<1>3. ASSUME NEW p \in Proc, Acquire(p) PROVE [Ledger!Next]_(Ledger!vars)
  BY <1>3 DEF Acquire, Goto
<1>4. ASSUME NEW p \in Proc, Retry(p) PROVE [Ledger!Next]_(Ledger!vars)
  BY <1>4 DEF Retry
<1>5. ASSUME NEW p \in Proc, GiveUp(p) PROVE [Ledger!Next]_(Ledger!vars)
  BY <1>5 DEF GiveUp, Goto
<1>6. ASSUME NEW p \in Proc, Release(p) PROVE [Ledger!Next]_(Ledger!vars)
  BY <1>6 DEF Release, Goto
<1>7. ASSUME NEW p \in Proc, RecordSkippedLocked(p) PROVE [Ledger!Next]_(Ledger!vars)
  BY <1>7 DEF RecordSkippedLocked, Goto, Ledger!Skip
<1>8. ASSUME NEW p \in Proc, SkipUnrecorded(p) PROVE [Ledger!Next]_(Ledger!vars)
  BY <1>8 DEF SkipUnrecorded, Goto
<1>9. ASSUME NEW p \in Proc, SweepRead(p) PROVE [Ledger!Next]_(Ledger!vars)
  BY <1>9 DEF SweepRead, Goto
<1>10. ASSUME NEW p \in Proc, SweepWrite(p) PROVE [Ledger!Next]_(Ledger!vars)
  <2>1. Executing' = Executing
    BY <1>10 DEF SweepWrite, Goto, AfterSweep
  <2>2. verdict[p] \in SUBSET Proc
    BY <1>10 DEF SweepWrite
  <2>3. \A q \in verdict[p] : status[q] = "running" /\ q \notin Executing
    BY <1>10 DEF SweepWrite
  <2>4. Ledger!Condemn(verdict[p])
    BY <1>10, <2>1, <2>2, <2>3 DEF SweepWrite, Ledger!Condemn
  <2> QED
    BY <2>2, <2>4 DEF Ledger!Next
<1>11. ASSUME NEW p \in Proc, SweepOvertaken(p) PROVE [Ledger!Next]_(Ledger!vars)
  <2>1. status' = status
    BY <1>11 DEF SweepOvertaken
  <2>2. IF p \in Executing THEN Executing' = Executing \ {p} ELSE Executing' = Executing
    BY <1>11 DEF SweepOvertaken, Goto
  <2> QED
    BY <2>1, <2>2 DEF Ledger!Stop
<1>12. ASSUME NEW p \in Proc, Announce(p) PROVE [Ledger!Next]_(Ledger!vars)
  BY <1>12 DEF Announce, Goto
<1>13. ASSUME NEW p \in Proc, StartRun(p) PROVE [Ledger!Next]_(Ledger!vars)
  <2>1. Executing = {}
    BY <1>13 DEF StartRun
  <2>2. Executing' = {p}
    BY <1>13, <2>1 DEF StartRun, Goto
  <2>3. status[p] = "none"
    BY <1>13 DEF StartRun
  <2>4. Ledger!Open(p)
    BY <1>13, <2>1, <2>2, <2>3 DEF StartRun, Ledger!Open
  <2> QED
    BY <2>4 DEF Ledger!Next
<1>14. ASSUME NEW p \in Proc, Heartbeat(p) PROVE [Ledger!Next]_(Ledger!vars)
  BY <1>14 DEF Heartbeat
<1>15. ASSUME NEW p \in Proc, EndWork(p) PROVE [Ledger!Next]_(Ledger!vars)
  BY <1>15 DEF EndWork, Goto
<1>16. ASSUME NEW p \in Proc, UpgradeFails(p) PROVE [Ledger!Next]_(Ledger!vars)
  <2>1. p \in Executing
    BY <1>16 DEF UpgradeFails
  <2>2. Executing' = Executing \ {p}
    BY <1>16 DEF UpgradeFails, Goto
  <2>3. PICK s \in Ledger!Closed : status' = [status EXCEPT ![p] = s]
    BY <1>16 DEF UpgradeFails
  <2>4. Ledger!CloseAndStop(p)
    BY <2>1, <2>2, <2>3 DEF Ledger!CloseAndStop
  <2> QED
    BY <2>4 DEF Ledger!Next
<1>17. ASSUME NEW p \in Proc, CheckInvariants(p) PROVE [Ledger!Next]_(Ledger!vars)
  BY <1>17 DEF CheckInvariants, Goto
<1>18. ASSUME NEW p \in Proc, Close(p) PROVE [Ledger!Next]_(Ledger!vars)
  <2>1. p \in Executing
    BY <1>18 DEF Close
  <2>2. Executing' \in {Executing, Executing \ {p}}
    BY <1>18 DEF Close, Goto
  <2>3. PICK s \in Ledger!Closed : status' = [status EXCEPT ![p] = s]
    BY <1>18 DEF Close
  <2>4. Ledger!Close(p) \/ Ledger!CloseAndStop(p)
    BY <2>1, <2>2, <2>3 DEF Ledger!Close, Ledger!CloseAndStop
  <2> QED
    BY <2>4 DEF Ledger!Next
<1>19. ASSUME NEW p \in Proc, Cancel(p) PROVE [Ledger!Next]_(Ledger!vars)
  <2>1. p \in Executing
    BY <1>19 DEF Cancel
  <2>2. Executing' = Executing
    BY <1>19 DEF Cancel, Goto
  <2>3. PICK s \in Ledger!Closed : status' = [status EXCEPT ![p] = s]
    BY <1>19 DEF Cancel
  <2>4. Ledger!Close(p)
    BY <2>1, <2>2, <2>3 DEF Ledger!Close
  <2> QED
    BY <2>4 DEF Ledger!Next
<1>20. ASSUME NEW p \in Proc, CheckpointDone(p) PROVE [Ledger!Next]_(Ledger!vars)
  BY <1>20 DEF CheckpointDone, Goto, Ledger!Stop
<1>21. ASSUME NEW p \in Proc, CheckpointBusy(p) PROVE [Ledger!Next]_(Ledger!vars)
  BY <1>21 DEF CheckpointBusy, Goto
<1>22. ASSUME NEW p \in Proc, Reclose(p) PROVE [Ledger!Next]_(Ledger!vars)
  <2>1. p \in Executing
    BY <1>22 DEF Reclose
  <2>2. Executing' = Executing \ {p}
    BY <1>22 DEF Reclose, Goto
  <2>3. PICK s \in Ledger!Closed : status' = [status EXCEPT ![p] = s]
    BY <1>22 DEF Reclose, WithWarning
  <2>4. Ledger!CloseAndStop(p)
    BY <2>1, <2>2, <2>3 DEF Ledger!CloseAndStop
  <2> QED
    BY <2>4 DEF Ledger!Next
<1>23. ASSUME NEW p \in Proc, Fail(p) PROVE [Ledger!Next]_(Ledger!vars)
  BY <1>23 DEF Fail, Goto, Forget, Ledger!Stop
<1>24. ASSUME NEW p \in Proc, Kill(p) PROVE [Ledger!Next]_(Ledger!vars)
  BY <1>24 DEF Kill, Goto, Forget, Ledger!Stop
<1>25. ASSUME NEW d \in Probers, ProbeBegin(d) PROVE [Ledger!Next]_(Ledger!vars)
  BY <1>25 DEF ProbeBegin
<1>26. ASSUME NEW d \in Probers, ProbeEnd(d) PROVE [Ledger!Next]_(Ledger!vars)
  BY <1>26 DEF ProbeEnd
<1>27. ASSUME NEW x \in Pid, ForeignStart(x) PROVE [Ledger!Next]_(Ledger!vars)
  BY <1>27 DEF ForeignStart
<1>28. ASSUME NEW x \in Pid, ForeignExit(x) PROVE [Ledger!Next]_(Ledger!vars)
  BY <1>28 DEF ForeignExit
<1>29. CASE Tick
  BY <1>29 DEF Tick
<1>30. CASE UNCHANGED vars
  BY <1>30 DEF vars
<1> QED
  BY <1>1, <1>2, <1>3, <1>4, <1>5, <1>6, <1>7, <1>8, <1>9, <1>10, <1>11, <1>12, <1>13,
     <1>14, <1>15, <1>16, <1>17, <1>18, <1>19, <1>20, <1>21, <1>22, <1>23, <1>24, <1>25,
     <1>26, <1>27, <1>28, <1>29, <1>30 DEF Next, Step

-----------------------------------------------------------------------------
\* The first state satisfies the invariant.
LEMMA Initially == Init => IInv
  BY CollectorAssumption
     DEF Init, IInv, TypeOK, HolderInv, OwnRowInv, VerdictInv, AnnouncedAreCrashed,
         Phases, Statuses, Outcomes, Holding

\* The invariant is inductive.
LEMMA Inductive == IInv /\ [Next]_vars => IInv'
  BY TypeStep, HolderStep, OwnRowStep, VerdictStep, AnnouncedStep DEF IInv

\* It holds in every reachable state.
LEMMA Invariant == Spec => []IInv
  BY Initially, Inductive, PTL DEF Spec

\* Types hold in every reachable state.
THEOREM TypeCorrect == Spec => []TypeOK
<1>1. IInv => TypeOK
  BY DEF IInv
<1> QED
  BY <1>1, Invariant, PTL

\* No two commands are ever inside the flock of `.collector.lock` together: two
\* of them would both be its one exclusive holder.
THEOREM LockIsExclusive == Spec => []MutualExclusion
<1>1. IInv => MutualExclusion
  BY DEF IInv, HolderInv, MutualExclusion
<1> QED
  BY <1>1, Invariant, PTL

\* The stale sweep never condemns the row of a command still at work: in each
\* phase in which a command can still change its row, the row is not `crashed`.
THEOREM SweepIsSafe == Spec => []SweepSparesTheLiving
<1>1. IInv => SweepSparesTheLiving
  BY CollectorAssumption DEF IInv, OwnRowInv, SweepSparesTheLiving, Live, Outcomes
<1> QED
  BY <1>1, Invariant, PTL

\* A notification names only rows that are closed `crashed` and stay so.
THEOREM AnnouncementsAreTrue == Spec => []AnnouncedAreCrashed
<1>1. IInv => AnnouncedAreCrashed
  BY DEF IInv
<1> QED
  BY <1>1, Invariant, PTL

\* A settled row is rewritten only to add the checkpoint warning to an `ok`.
THEOREM HistoryStands == Spec => SettledRowsStand
<1>1. ASSUME IInv, [Next]_vars PROVE RowsStand
  <2> USE <1>1, CollectorAssumption DEF IInv, TypeOK, OwnRowInv, VerdictInv, RowsStand, rowVars
  <2>1. ASSUME NEW p \in Proc, Launch(p) PROVE RowsStand
    BY <2>1 DEF Launch
  <2>2. ASSUME NEW p \in Proc, RecordSkippedLocked(p) PROVE RowsStand
    BY <2>2 DEF RecordSkippedLocked
  <2>3. ASSUME NEW p \in Proc, SweepWrite(p) PROVE RowsStand
    BY <2>3 DEF SweepWrite
  <2>4. ASSUME NEW p \in Proc, StartRun(p) PROVE RowsStand
    BY <2>4 DEF StartRun
  <2>5. ASSUME NEW p \in Proc, UpgradeFails(p) PROVE RowsStand
    BY <2>5 DEF UpgradeFails
  <2>6. ASSUME NEW p \in Proc, Close(p) PROVE RowsStand
    BY <2>6 DEF Close
  <2>7. ASSUME NEW p \in Proc, Cancel(p) PROVE RowsStand
    BY <2>7 DEF Cancel
  <2>8. ASSUME NEW p \in Proc, Reclose(p) PROVE RowsStand
    BY <2>8 DEF Reclose, WithWarning
  <2>9. status' = status => RowsStand
    OBVIOUS
  <2> QED
    BY <2>1, <2>2, <2>3, <2>4, <2>5, <2>6, <2>7, <2>8, <2>9
       DEF Next, Step, Exit, Acquire, Retry, GiveUp, Release, SkipUnrecorded, SweepRead,
           SweepOvertaken, Announce, Heartbeat, EndWork, CheckInvariants, CheckpointDone,
           CheckpointBusy, Fail, Kill, ProbeBegin, ProbeEnd, ForeignStart, ForeignExit,
           Tick, vars
<1>2. IInv /\ [Next]_vars => [RowsStand]_vars
  BY <1>1
<1> QED
  BY <1>2, Invariant, PTL DEF Spec, SettledRowsStand

\* The table `runs` behaves as RunLedger promises.
THEOREM LedgerIsImplemented == Spec => ImplementsLedger
<1>1. Init => Ledger!Init
  BY CollectorAssumption DEF Init, Ledger!Init, Executing, Live
<1> QED
  BY <1>1, LedgerStep, Invariant, PTL DEF Spec, ImplementsLedger, Ledger!Spec
=============================================================================
