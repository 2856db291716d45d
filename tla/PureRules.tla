------------------------------ MODULE PureRules ------------------------------
(***************************************************************************)
(* The rules that are functions of one input: `topic` says which is asked, *)
(* `input` is what it is given, once.                                      *)
(***************************************************************************)
EXTENDS Absent, Normalise, Integers

CONSTANTS
  Unreadable,                                        \* a column that is no JSON of its kind
  MinAuthors, TopPosts, WindowDays, BaselineDays,    \* Digest's
  MostRequests, RealDir,                             \* Settings'
  Launches, Budgets,                                 \* processes, and what --budget may ask
  RuleLists, Candidates,                             \* themes, and the items they are asked about
  PostLists, SettingsPairs, RunRows, Counts          \* posts, run rows, and today's count of settings

VARIABLES topic, input

pureVars == <<topic, input>>

Failing == INSTANCE Wire
Telling == INSTANCE Digest
Options == INSTANCE Settings
Tagging == INSTANCE Themes

ASSUME PureAssumption ==
  /\ Telling!DigestAssumption /\ Tagging!ThemesAssumption
  /\ (\A launch \in Launches : Options!IsProcess(launch)) /\ Budgets \subseteq Int
  /\ \A rules \in RuleLists : Tagging!IsTheme(rules) /\ \A item \in Candidates : Tagging!Fits(rules, item)
  /\ \A rows \in PostLists : Telling!ArePosts(rows)
  /\ \A pair \in SettingsPairs :
       /\ pair.previous # Null => Telling!IsSettingsRow(pair.previous)
       /\ Telling!IsSettingsRow(pair.current)
  /\ Counts \subseteq Nat /\ \A row \in RunRows : Telling!IsRunRow(row)

Inputs(about) ==
  CASE about = "wire" -> Failing!Events [] about = "shape" -> Shapes
    [] about = "section" -> PostLists [] about = "settings" -> SettingsPairs
    [] about = "row" -> RunRows [] about = "process" -> Launches
    [] about = "theme" -> RuleLists [] OTHER -> {Null}

PureInit == input \in Inputs(topic)

PureSpec == PureInit /\ [][UNCHANGED pureVars]_pureVars

-----------------------------------------------------------------------------
(* Properties.                                                              *)

\* Every failure on the wire is understood as the kind of failure it is (Wire), and every item
\* it does deliver becomes a clean row or a clean reject (Normalise).
FailuresAreRead ==
  /\ topic = "wire" => Failing!NothingMisread(input)
  /\ topic = "shape" => RowsAreClean(input)

\* The settings a process runs with are the ones that were meant, whatever of its environment
\* and its file is there (Settings), and its digest names the ones that changed and no other
\* (Digest).
SettingsTakeEffect ==
  /\ topic = "process" => \A n \in Budgets : Options!SettingsAreMeant(input, n)
  /\ topic = "settings" => \A n \in Counts : Telling!SettingsAreTold(input.previous, input.current, n)

\* A theme holds the items its rules say (Themes), a section ranks the posts of its window, and
\* the lists of a run's errors and warnings leave nothing out that its row holds (Digest).
ReportsAreRight ==
  /\ topic = "theme" => Tagging!ThemeIsItsRules(input, Candidates)
  /\ topic = "section" => Telling!SectionIsTheRows(input)
  /\ topic = "row" => Telling!NothingUnsaid(input)
=============================================================================
