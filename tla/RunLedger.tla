----------------------------- MODULE RunLedger -----------------------------
(***************************************************************************)
(* What the table `runs` promises its readers (the Runs page, `doctor`,    *)
(* the next run), stated without a lock, a process table or a clock.       *)
(*                                                                         *)
(* A row is opened `running` by a command that is executing, and only      *)
(* while no other command is; the executing command alone closes its row;  *)
(* a row that nobody is executing may be condemned `crashed`; and a        *)
(* refused command leaves a row that was never running.  Collector.tla     *)
(* implements this with an flock, retries, and a sweep that reads pids and *)
(* heartbeats.                                                             *)
(***************************************************************************)
CONSTANT Row        \* the rows of the table

VARIABLES status,   \* status[r]: the row's status column, "none" for no row
          live      \* the rows whose command is executing right now

Closed   == {"ok", "partial", "failed", "rate_limited", "cancelled"}
Settled  == Closed \cup {"none", "crashed", "skipped_locked"}
Statuses == Settled \cup {"running"}

Init == /\ status = [r \in Row |-> "none"]
        /\ live = {}

\* A command starts: its row appears as `running`.
Open(r) == /\ live = {}
           /\ status[r] = "none"
           /\ status' = [status EXCEPT ![r] = "running"]
           /\ live' = {r}

\* The executing command writes (or rewrites) its terminal status.
Close(r) == /\ r \in live
            /\ \E s \in Closed : status' = [status EXCEPT ![r] = s]
            /\ UNCHANGED live

\* The command stops executing: normally, by an exception, or killed.
Stop(r) == /\ r \in live
           /\ live' = live \ {r}
           /\ UNCHANGED status

\* The command closes its row and stops in one step.
CloseAndStop(r) == /\ r \in live
                   /\ \E s \in Closed : status' = [status EXCEPT ![r] = s]
                   /\ live' = live \ {r}

\* Rows left `running` by commands that no longer execute are condemned.
Condemn(R) == /\ \A r \in R : status[r] = "running" /\ r \notin live
              /\ status' = [r \in Row |-> IF r \in R THEN "crashed" ELSE status[r]]
              /\ UNCHANGED live

\* A refused command records the attempt.
Skip(r) == /\ status[r] = "none" /\ r \notin live
           /\ status' = [status EXCEPT ![r] = "skipped_locked"]
           /\ UNCHANGED live

\* A settled row drops out of the window of rows the ledger follows.
Forget(r) == /\ status[r] \in Settled /\ r \notin live
             /\ status' = [status EXCEPT ![r] = "none"]
             /\ UNCHANGED live

Next == \/ \E r \in Row : \/ Open(r) \/ Close(r) \/ Stop(r) \/ CloseAndStop(r)
                          \/ Skip(r) \/ Forget(r)
        \/ \E R \in SUBSET Row : Condemn(R)

vars == <<status, live>>

Spec == Init /\ [][Next]_vars
=============================================================================
