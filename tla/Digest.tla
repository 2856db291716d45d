------------------------------- MODULE Digest -------------------------------
(***************************************************************************)
(* What the digest and the run page say of one run row and one workspace:  *)
(* the row's JSON columns read back (services/runs_view), the settings it  *)
(* ran with against the run before (services/report), the ranked posts of  *)
(* the window and the sections cut from them (core/digest, db/repo).  Pure *)
(* operators; which run and which window are History's matter.             *)
(***************************************************************************)
EXTENDS Integers, Sequences, FiniteSets, FiniteSetsExt

CONSTANTS
  MinAuthors, TopPosts,       \* MIN_DISTINCT_AUTHORS, TOP_POSTS
  WindowDays, BaselineDays,   \* WINDOW_DAYS, BASELINE_WEEKS in days
  Null, Unreadable            \* a column that is NULL, one that is no JSON of its kind

DigestAssumption ==
  /\ {MinAuthors, TopPosts, WindowDays, BaselineDays} \subseteq Nat \ {0} /\ WindowDays <= BaselineDays
  /\ Null # {}

-----------------------------------------------------------------------------
(* The posts.  `shown`: live and with a permalink; age in days.             *)

ArePosts(rows) ==
  /\ rows \in Seq([id : Nat, authors : Nat, comments : Nat, score : Int, shown : BOOLEAN, age : Nat])
  /\ \A i, j \in DOMAIN rows : rows[i].id = rows[j].id => i = j

\* Slip: the sort is left stable, full ties in the order they were read in.
RankBefore_Stable(a, b) ==
  \/ a.authors > b.authors
  \/ a.authors = b.authors /\ a.comments > b.comments
  \/ a.authors = b.authors /\ a.comments = b.comments /\ a.score > b.score

\* rank_posts: distinct authors, comments, score, all descending; then the id.
RankBefore(a, b) ==
  \/ a.authors > b.authors
  \/ a.authors = b.authors /\ a.comments > b.comments
  \/ a.authors = b.authors /\ a.comments = b.comments /\ a.score > b.score
  \/ a.authors = b.authors /\ a.comments = b.comments /\ a.score = b.score /\ a.id < b.id

\* The members of a list that have a place, at their places.
Arranged(list, place) ==
  [n \in 1 .. Cardinality(DOMAIN place) |-> list[CHOOSE i \in DOMAIN place : place[i] = n]]

\* sorted() is stable: rows that tie stay in the order they were read in.
Precedes(rows, i, j) ==
  RankBefore(rows[i], rows[j]) \/ (i < j /\ ~RankBefore(rows[j], rows[i]))

\* _post_window_stmt.
Windowed(rows, days) == {i \in DOMAIN rows : rows[i].shown /\ rows[i].age <= days}

\* ranked_posts; its limit, the size of the population, comes after the ranking.
Ranked(rows, limit) ==
  LET among == Windowed(rows, WindowDays)
      place == [i \in among |-> Cardinality({j \in among : Precedes(rows, j, i)}) + 1]
  IN  SubSeq(Arranged(rows, place), 1, Min({limit, Cardinality(among)}))

Qualifying(list) ==
  LET among == {i \in DOMAIN list : list[i].authors >= MinAuthors}
  IN  Arranged(list, [i \in among |-> Cardinality({j \in among : j <= i})])

First(list) == SubSeq(list, 1, Min({TopPosts, Len(list)}))

\* _workspace_section: every denominator but the baseline is the length of the ranked list.
Section(rows) ==
  LET ranked     == Ranked(rows, Max({1, Cardinality(Windowed(rows, WindowDays))}))
      qualifying == Qualifying(ranked)
  IN  [top |-> First(ranked), now |-> Len(ranked),
       untagged |-> First(qualifying), qualifying |-> Len(qualifying),
       baseline |-> Cardinality(Windowed(rows, BaselineDays))]

\* UntaggedSection's validator.
SectionBuilds(section) ==
  /\ \A i \in DOMAIN section.untagged : section.untagged[i].authors >= MinAuthors
  /\ Len(section.untagged) <= section.qualifying

-----------------------------------------------------------------------------
(* The settings.  A column that is recorded holds what the run ran with: a  *)
(* function from dotted keys, _flatten's.                                   *)

Recorded(column) == column \notin {Null, Unreadable}

\* The fingerprint is the settings' own, or all there is; a refused attempt has neither.  The
\* times are the clock's, which may be set back, or not written.
IsSettingsRow(row) ==
  /\ row.created \in Int /\ row.started \in Int \cup {Null} /\ row.finished \in Int \cup {Null}
  /\ Recorded(row.settings) =>
       /\ row.settings = [k \in DOMAIN row.settings |-> row.settings[k]]
       /\ IsFiniteSet(DOMAIN row.settings) /\ \A k \in DOMAIN row.settings : row.settings[k] # Null
       /\ row.fingerprint = row.settings

At(settings, key) == IF key \in DOMAIN settings THEN settings[key] ELSE Null

Differing(before, after) ==
  {k \in DOMAIN before \cup DOMAIN after : At(before, k) # At(after, k)}

\* Slip: a run that recorded nothing ran with no settings.
Changes_FromNothing(before, after) ==
  LET b == IF Recorded(before) THEN before ELSE << >>
      a == IF Recorded(after) THEN after ELSE << >>
  IN  [keys |-> Differing(b, a), of |-> Cardinality(DOMAIN b \cup DOMAIN a)]

\* _settings_changes: Null keys for "not recorded", which is not "nothing changed".
Changes(before, after) ==
  IF Recorded(before) /\ Recorded(after)
  THEN [keys |-> Differing(before, after), of |-> Cardinality(DOMAIN before \cup DOMAIN after)]
  ELSE [keys |-> Null, of |-> 0]

Began(row) == IF row.started = Null THEN row.created ELSE row.started
Ended(row) == IF row.finished = Null THEN Began(row) ELSE row.finished

\* _summary's half of RunSummary: the previous run row, Null for none, and today's count.
Summary(previous, current, today) ==
  LET c == IF previous = Null THEN [keys |-> {}, of |-> 0]
           ELSE Changes(previous.settings, current.settings)
  IN  [started |-> Began(current), finished |-> Ended(current),
       keys |-> c.keys, total |-> Max({1, IF c.of = 0 THEN today ELSE c.of}),
       before |-> IF previous = Null THEN Null ELSE previous.fingerprint]

\* RunSummary's validator.
SummaryBuilds(summary) ==
  /\ summary.started <= summary.finished
  /\ summary.keys # Null =>
       /\ Cardinality(summary.keys) <= summary.total
       /\ summary.before = Null => summary.keys = {}

-----------------------------------------------------------------------------
(* The row's other columns, as they may be: counters_json by its `warnings`, *)
(* violations_json and warnings_json by how many entries of each kind.  An  *)
(* entry that is no object is read as one that is not there.                *)

\* `numeric`: int() takes every counter that is there.  A nameless warning has lost its name,
\* a violation of another kind has a severity that is neither.
IsRunRow(row) ==
  row \in [counters : Int \cup {Null, Unreadable}, numeric : BOOLEAN,
           warnings : [named : Nat, nameless : Nat] \cup {Null, Unreadable},
           violations : [warning : Nat, failure : Nat, other : Nat] \cup {Null, Unreadable},
           error : BOOLEAN]

Lost(column) == IF column = Unreadable THEN 1 ELSE 0
Counted(row) == IF Recorded(row.counters) THEN row.counters ELSE 0
Warned(row)  == IF Recorded(row.warnings) THEN row.warnings ELSE [named |-> 0, nameless |-> 0]
Verdicts(row) ==
  IF Recorded(row.violations) THEN row.violations ELSE [warning |-> 0, failure |-> 0, other |-> 0]

\* _counters_of does not raise, so that there is a line and a page to show it on.
Reads(row) == Recorded(row.counters) => row.numeric

\* Slip: the complaint about a lost column counts as one of its names.
Named_WithComplaint(row) == Warned(row).named + Lost(row.warnings)

\* RunLine.recorded_warnings.
Named(row) == Warned(row).named

\* line_for, RunLine: a column that will not parse is a failure of its own.
Line(row) ==
  [failures |-> Verdicts(row).failure + Lost(row.counters) + Lost(row.violations)
                  + Lost(row.warnings),
   warnings |-> Verdicts(row).warning + Warned(row).named + Warned(row).nameless,
   others |-> Verdicts(row).other,
   unrecorded |-> Max({0, Counted(row) - Named(row)}),
   ran |-> row.violations # Null]

\* _errors and _warnings: how many problems the digest lists.
DigestErrors(row)   == Line(row).failures + (IF row.error THEN 1 ELSE 0)
DigestWarnings(row) == Line(row).warnings + Line(row).unrecorded

\* RunView: named of counted, and the problems of the page, which folds what has no name.
PageWarnings(row) == [n |-> Line(row).warnings, of |-> Line(row).warnings + Line(row).unrecorded]
PageProblems(row) ==
  Line(row).failures + Line(row).warnings + Line(row).others + Min({1, Line(row).unrecorded})
    + (IF row.error THEN 1 ELSE 0)

-----------------------------------------------------------------------------
(* Properties.                                                              *)

\* A section says the same whatever order the database returned the rows in, no model it
\* is built from refuses it, and nothing outside a list ranks above what is in it.
Reorderings(list) ==
  {[i \in DOMAIN list |-> list[p[i]]] :
     p \in {q \in [DOMAIN list -> DOMAIN list] : \A i, j \in DOMAIN list : q[i] = q[j] => i = j}}
SectionIsTheRows(rows) ==
  LET section == Section(rows)
  IN  /\ \A other \in Reorderings(rows) : Section(other) = section
      /\ SectionBuilds(section)
      /\ section.qualifying <= section.now /\ section.now <= section.baseline
      /\ \A i \in DOMAIN rows, j \in DOMAIN section.top :
           rows[i].shown /\ rows[i].age <= WindowDays /\ RankBefore(rows[i], section.top[j]) =>
             \E k \in 1 .. j - 1 : section.top[k] = rows[i]

\* No pair of rows makes the digest fail but one whose run ended before it began, which a clock
\* set back leaves behind; and a digest that says "nothing changed" compares two runs of one
\* fingerprint.
SettingsAreTold(previous, current, today) ==
  LET summary == Summary(previous, current, today)
  IN  /\ SummaryBuilds(summary) <=> current.finished = Null \/ Began(current) <= current.finished
      /\ previous # Null /\ summary.keys = {} =>
           previous.settings = current.settings /\ previous.fingerprint = current.fingerprint

\* However damaged a row that can be read at all: no warning it counted or listed goes unsaid,
\* none is said twice but for one without a name, every lost column is an error, and the page
\* shows what the digest lists, and beyond it only violations of neither severity.
NothingUnsaid(row) ==
  Reads(row) =>
    LET said   == DigestWarnings(row) - Verdicts(row).warning
        listed == Warned(row).named + Warned(row).nameless
    IN  /\ said >= Counted(row) /\ said >= listed
        /\ Warned(row).nameless = 0 => said = Max({Counted(row), listed})
        /\ DigestErrors(row) >=
             Cardinality({c \in {"counters", "violations", "warnings"} : row[c] = Unreadable})
        /\ PageWarnings(row).of = DigestWarnings(row)
        /\ PageProblems(row) = 0 <=>
             DigestErrors(row) + DigestWarnings(row) + Verdicts(row).other = 0
=============================================================================
