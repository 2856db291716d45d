------------------------------- MODULE Doctor -------------------------------
(***************************************************************************)
(* What `doctor` says of an installation (services/doctor.py): every check *)
(* of the list as the set of complaints it adds, the list that is made for *)
(* each state the database file can be in, and the exit code.              *)
(***************************************************************************)
EXTENDS Naturals, FiniteSets

Complaint(name, severity) == {[name |-> name, severity |-> severity]}
Unless(fine, name, severity) == IF fine THEN {} ELSE Complaint(name, severity)

\* The checks of the host: what is wrong with it is their input.
SiteErrors   == {"settings_valid", "sqlite_version", "data_dir_writable", "data_dir_outside_tcc"}
SiteWarnings == {"free_disk", "credentials_present"}

Site(wrong) ==
  {[name |-> n, severity |-> "error"]   : n \in wrong \cap SiteErrors}
    \cup {[name |-> n, severity |-> "warning"] : n \in wrong \cap SiteWarnings}

\* check_last_run_age: no run that ended ok is a warning; one, but older than
\* --alert-if-stale, an error.
LastRunAge(any, late) ==
  IF ~any THEN Complaint("last_run_age", "warning") ELSE Unless(~late, "last_run_age", "error")

\* The file as an opened database: its pages, its revision, its schema.
Database(disk) ==
  Unless(disk # "damaged", "quick_check", "error")
    \cup Unless(disk # "behind", "alembic_at_head", "error")
    \cup Unless(disk # "behind", "schema_fingerprint", "warning")

\* Slip: a source that is gone counts like any enabled one.
Uncollectable_Private == {"forbidden"}

\* UNCOLLECTABLE_STATUSES.
Uncollectable == {"forbidden", "not_found"}

Collectable(src) == {s \in DOMAIN src : src[s].enabled /\ src[s].status \notin Uncollectable}

\* check_enabled_sources.
EnabledSources(src) ==
  IF DOMAIN src = {} THEN Complaint("enabled_sources", "warning")
  ELSE Unless(Collectable(src) # {}, "enabled_sources", "error")

\* check_lock_not_stale: a warning, because a command may open or close its row in between;
\* the clauses on the heartbeat's age are FetchLadder's LooksAlive.
LockNotStale(held, running, alive, beating) ==
  Unless(~held \/ (Cardinality(running) = 1 /\ alive /\ beating), "lock_not_stale", "warning")

\* check_no_stale_running_rows.
StaleRows(running, alive, beating) ==
  Unless(running = {} \/ (Cardinality(running) = 1 /\ alive /\ beating),
         "no_stale_running_rows", "warning")

\* check_auth_ping on _ping_target: a collectable source, or none to ping.
AuthPing(collectable, answer) ==
  IF ~collectable THEN Complaint("auth_ping", "warning")
  ELSE Unless(answer = "ok", "auth_ping", "error")

\* check_hooks_installed: outside a checkout there is nothing to install; in one both hooks
\* are pre-commit's and name an interpreter that runs.
HooksInstalled(checkout) ==
  Unless(~checkout.git \/ (checkout.pre = "runs" /\ checkout.push = "runs"),
         "hooks_installed", "warning")

NotChecked(names) == {[name |-> n, severity |-> "warning"] : n \in names}
NeedDatabase ==
  {"alembic_at_head", "schema_fingerprint", "last_run_age", "enabled_sources", "lock_not_stale",
   "no_stale_running_rows"}

\* No file, or one that will not open: the list is as long, database_present is red.
WithoutDatabase(disk) ==
  Complaint("database_present", "error")
    \cup NotChecked(NeedDatabase)
    \cup (IF disk = "missing" THEN NotChecked({"quick_check"}) ELSE Complaint("quick_check", "error"))

\* DoctorReport.exit_code.
Red(complaints) == \E c \in complaints : c.severity = "error"
=============================================================================
