------------------------------ MODULE Settings ------------------------------
(***************************************************************************)
(* How the settings of a process come about (settings.py): the layers, the *)
(* checks, what a run row records of them -- and the request budget a run  *)
(* makes of them (Budget).  Pure: a key is a leaf of the settings tree, a  *)
(* layer a function from the keys it sets.                                 *)
(***************************************************************************)
EXTENDS Integers, Sequences

CONSTANTS
  MostRequests,   \* the bound on budget.hard_cap
  RealDir         \* the default data directory

Static == {"limit", "cap", "reserve", "ladder", "zone"}
Operator == {"data_dir", "password"}
Keys == Static \cup Operator

\* A process: env, the variables named after keys; empty, those of them set to the empty
\* string; typo, whether one is misspelled, and set to something; file, config/settings.yaml:
\* its form, its keys and whether it holds others; pytest, allowed: whether pytest is loaded,
\* and the opt-in for the real directory given.

Numbers(layer) == \A k \in DOMAIN layer \cap {"limit", "cap", "reserve"} : layer[k] \in Int
IsProcess(process) ==
  /\ DOMAIN process.env \subseteq Keys /\ Numbers(process.env)
  /\ DOMAIN process.file.keys \subseteq Static /\ Numbers(process.file.keys)

\* The fields' own defaults: no static key has one.
Defaults == [data_dir |-> RealDir, password |-> ""]

-----------------------------------------------------------------------------
(* The layers.                                                              *)

Over(upper, lower) ==
  [k \in DOMAIN upper \cup DOMAIN lower |-> IF k \in DOMAIN upper THEN upper[k] ELSE lower[k]]

\* Slip: the file is taken over the environment.
Layered_FileFirst(env, file) == Over(file, Over(env, Defaults))

\* settings_customise_sources, key by key: the environment, then the file, then the field's
\* own default, which no static key has.
Layered(env, file) == Over(env, Over(file, Defaults))

\* env_ignore_empty: an empty variable sets nothing.
Effective(process) == [k \in DOMAIN process.env \ process.empty |-> process.env[k]]

\* _YamlStaticSource: no file, or an empty one, sets nothing.
FromFile(process) == IF process.file.form = "mapping" THEN process.file.keys ELSE << >>

-----------------------------------------------------------------------------
(* The checks.                                                              *)

Increasing(days) ==
  /\ days # <<>> /\ days[1] > 0
  /\ \A i \in 1 .. Len(days) - 1 : days[i] < days[i + 1]

\* Slip: a run may be given more requests than the cap.
BudgetFits_CapAside(s) == s.limit > 0 /\ s.cap \in 1 .. MostRequests /\ s.reserve >= 0

\* BudgetSettings.
BudgetFits(s) ==
  s.limit > 0 /\ s.cap \in 1 .. MostRequests /\ s.reserve >= 0 /\ s.limit <= s.cap

\* StaticSettings.
StaticFits(s) ==
  Static \subseteq DOMAIN s /\ BudgetFits(s) /\ Increasing(s.ladder) /\ s.zone # "unknown"

\* _refuse_real_data_dir_under_pytest.
DirFits(s, process) == process.pytest /\ ~process.allowed => s.data_dir # RealDir

\* Slip: only a variable that sets something can be misspelled.
Unknown_SetOnly(process) == process.typo = "set"

\* unknown_environment_variables: empty or not.
Unknown(process) == process.typo # "none"

\* Settings(): accepted or refused, with exit code 78.
Load(process) ==
  LET s == Layered(Effective(process), FromFile(process))
  IN  [settings |-> s,
       ok |-> /\ process.file.form # "list" /\ ~process.file.extra /\ ~Unknown(process)
              /\ StaticFits(s) /\ DirFits(s, process)]

-----------------------------------------------------------------------------
(* What becomes of them.                                                    *)

\* Slip: the whole model is recorded.
NonSecret_Whole(s) == s

\* non_secret_settings; settings_json and the fingerprint are functions of it.
NonSecret(s) == [k \in DOMAIN s \ {"password"} |-> s[k]]

\* _budget_for, of the settings or of --budget n.
BudgetOf(s, n) ==
  INSTANCE Budget WITH HardCap <- s.cap, Requested <- n, WantedReserve <- s.reserve

\* Budget.__post_init__.
BudgetBuilds(limit, reserve, cap) == limit >= 0 /\ reserve >= 0 /\ cap >= 1 /\ reserve <= limit

-----------------------------------------------------------------------------
(* Properties.                                                              *)

\* Settings that load are the ones that were meant: every variable that sets something took
\* effect, one by one, over what the file says; nothing that was written anywhere was
\* ignored; no secret is recorded; a process under test is not in the real directory; and
\* whatever --budget asks for, the run gets a budget that can be built, keeps under the cap
\* and affords a request unless it was asked for none.
SettingsAreMeant(process, n) ==
  LET load == Load(process)
      s    == load.settings
  IN  load.ok =>
        /\ \A k \in DOMAIN process.env \ process.empty : s[k] = process.env[k]
        /\ \A k \in Static \ (DOMAIN process.env \ process.empty) : s[k] = process.file.keys[k]
        /\ process.typo = "none" /\ ~process.file.extra
        /\ "password" \notin DOMAIN NonSecret(s)
        /\ process.pytest => s.data_dir # RealDir \/ process.allowed
        /\ \A asked \in {n, s.limit} :
             LET limit   == BudgetOf(s, asked)!Limit
                 reserve == BudgetOf(s, asked)!Reserve
             IN  /\ BudgetBuilds(limit, reserve, s.cap) /\ limit <= s.cap
                 /\ asked > 0 => BudgetOf(s, asked)!CanAfford(0, 1)
                 /\ asked = s.limit => limit = asked
=============================================================================
