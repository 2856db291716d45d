------------------------------ MODULE MCRules -------------------------------
(***************************************************************************)
(* The rules and the small machines the stages share, checked in one run.  *)
(* `topic` says which is exercised: a machine then takes its own steps and *)
(* the others stand still; a pure rule is given every input of a bounded   *)
(* set.                                                                    *)
(***************************************************************************)
EXTENDS StoredItem, ItemVerdict, Ingest, History, Ownership, Gateways, TreeFetch, FakeReddit,
        PureRules, TLC

rulesVars == <<pureVars, vars, verdictVars, treeVars, ingestVars, historyVars, ownedVars,
               gatewayVars, worldVars, requestVars>>

\* A thread of three that Reddit ends in a link to itself, a lone comment, a pair.
OneThread == <<0, 1, 2, 0, 0, 5>>

\* A score that moves, a value nobody registered, an author lost.
ThreeLooks == {[author |-> "ann", score |-> 0, value |-> Null],
               [author |-> "ann", score |-> 1, value |-> "new"],
               [author |-> Null, score |-> 1, value |-> Null]}

-----------------------------------------------------------------------------
(* The inputs of the pure rules.                                            *)

Post(id) ==
  {[id |-> id, authors |-> a, comments |-> c, score |-> s, shown |-> w # "hidden",
    age |-> IF w = "month" THEN 20 ELSE 1] :
     a \in {2, 3}, c \in {0, 1}, s \in {0, 1}, w \in {"week", "month", "hidden"}}
ManyPosts == {<<p, q, r>> : p \in Post(1), q \in Post(2), r \in Post(3)}

SomeSettings == UNION {[k -> {"1", "2"}] : k \in SUBSET {"a", "b"}}
SettingsRows(starts, ends) ==
  {[settings |-> r[1], fingerprint |-> r[2], created |-> 1, started |-> b, finished |-> e] :
     r \in {<<s, s>> : s \in SomeSettings \cup {Null}} \cup {<<s, "hash">> : s \in {Null, Unreadable}},
     b \in starts, e \in ends}
\* The clock as it ran, or set back between the two times; a run that never began or ended.
ManySettings ==
  [previous : SettingsRows({1}, {2}) \cup {Null}, current : SettingsRows({2, Null}, {0, 1, 2, Null})]

ManyRows ==
  [counters : 0 .. 2 \cup {Null, Unreadable}, numeric : BOOLEAN,
   warnings : [named : 0 .. 2, nameless : 0 .. 1] \cup {Null, Unreadable},
   violations : [warning : 0 .. 1, failure : 0 .. 1, other : 0 .. 1] \cup {Null, Unreadable},
   error : BOOLEAN]

\* Some variables set, some of them to nothing, perhaps one misspelled, over a file that is
\* whole, lacks a key, holds a bad value or a stranger, is a list, or is not there.
One(key, values) == {<< >>} \cup {key :> v : v \in values}
Environments ==
  {a @@ b @@ c @@ d @@ e : a \in One("limit", {3, 9}), b \in One("reserve", {0, 20}),
     c \in One("ladder", {<<1, 3>>, <<3, 1>>}), d \in One("data_dir", {"scratch"}),
     e \in One("password", {"secret"})}
Whole == [limit |-> 5, cap |-> 6, reserve |-> 1, ladder |-> <<1, 7>>, zone |-> "UTC"]
File(form, set, extra) == [form |-> form, keys |-> set, extra |-> extra]
Files ==
  {File("mapping", set, FALSE) :
     set \in {Whole, [Whole EXCEPT !.cap = 4], [Whole EXCEPT !.zone = "unknown"],
              [k \in DOMAIN Whole \ {"reserve"} |-> Whole[k]]}}
    \cup {File("mapping", Whole, TRUE), File("list", << >>, FALSE), File("missing", << >>, FALSE)}
ManyLaunches ==
  [env : Environments, empty : {{}, {"limit"}, {"data_dir"}}, typo : {"none", "empty", "set"},
   file : Files, pytest : {TRUE}, allowed : BOOLEAN]
    \cup [env : Environments, empty : {{}}, typo : {"none"}, file : Files, pytest : {FALSE},
         allowed : {FALSE}]

\* A text rule for any field and one for the title, one in each group; flairs and subreddits.
ThemeRule(k, p, g, s) ==
  [kind |-> k, pattern |-> p, group |-> g, scope |-> s, text |-> "fine", long |-> FALSE,
   case_sensitive |-> FALSE, whole_word |-> TRUE, lower |-> TRUE]
Searched ==
  {ThemeRule("regex", "a", g, "any") : g \in Tagging!Groups}
    \cup {ThemeRule("keyword", "b", g, "title") : g \in {"match", "exclude"}}
    \cup {ThemeRule("subreddit", "here", "only_in", "any")}
Compared ==
  {[ThemeRule("flair", "bug", "match", "any") EXCEPT !.case_sensitive = c, !.whole_word = w] :
     c, w \in BOOLEAN}
    \cup {[ThemeRule("regex", "a", "match", "any") EXCEPT !.text = "malformed"]}
ManyThemes == UNION {[1 .. n -> Searched \cup Compared] : n \in 0 .. 2} \cup [1 .. 3 -> Searched]

\* Titles that hit or not, in time or not; a body or comments that hit.
Flairs == {Null, [name |-> "bug", alone |-> TRUE, lower |-> FALSE],
           [name |-> "bug", alone |-> FALSE, lower |-> TRUE]}
ManyItems ==
  {[search |-> ("a" :> ("title" :> t @@ f :> [found |-> TRUE, late |-> o]))
                  @@ ("b" :> ("title" :> [found |-> TRUE, late |-> b])),
    subreddit |-> "here", flair |-> l] :
     t \in Tagging!Searches, f \in {"body", "comments"}, o, b \in BOOLEAN, l \in Flairs}
    \cup {[search |-> [p \in {"a", "b"} |-> "title" :> [found |-> TRUE, late |-> p = "b"]],
           subreddit |-> "elsewhere", flair |-> Null]}

-----------------------------------------------------------------------------
(* A machine that is not the topic stands at one of its initial states.     *)

Machines == {"verdict", "store", "tree", "ingest", "history", "pages", "owners", "gateways", "fake",
             "requests"}
Rules    == {"wire", "shape", "section", "settings", "row", "process", "theme"}

OneStart ==
  /\ topic # "store" => kind = "self"
  /\ topic # "verdict" => ~seen.link /\ seen.body = CHOOSE t \in Texts : TRUE
  /\ topic # "tree" => honest /\ limit = 1
  /\ topic # "gateways" => place = "default" /\ file = "head"
  /\ topic # "fake" => sort = "self" /\ leaf /\ state = "live"

RulesInit ==
  /\ topic \in Machines \cup Rules
  /\ Init /\ VerdictInit /\ TreeInit /\ IngestInit /\ HistoryInit /\ OwnershipInit /\ GatewaysInit
  /\ FakeInit /\ OneStart /\ PureInit

Elsewhere(machine) ==
  /\ machine # "store" => UNCHANGED vars
  /\ machine # "verdict" => UNCHANGED verdictVars
  /\ machine # "tree" => UNCHANGED treeVars
  /\ machine # "ingest" => UNCHANGED ingestVars
  /\ machine \notin {"history", "pages"} => UNCHANGED historyVars
  /\ machine # "owners" => UNCHANGED ownedVars
  /\ machine # "gateways" => UNCHANGED gatewayVars
  /\ machine # "fake" => UNCHANGED itemVars
  /\ machine \notin {"fake", "requests"} => UNCHANGED banned
  /\ machine # "requests" => UNCHANGED requestVars

\* The second source stands for any other: read to the end or not reached.
ShortSweeps == \E stops \in Swept : stops["s2"] # "short" /\ SweepSources(stops)

\* The rows as the digests read them, and as a reader pages through them.
RulesNext ==
  /\ UNCHANGED pureVars
  /\ Elsewhere(topic)
  /\ \/ topic = "store" /\ Next
     \/ topic = "verdict" /\ VerdictNext
     \/ topic = "tree" /\ TreeNext
     \/ topic = "ingest" /\ IngestNext
     \/ topic = "owners" /\ OwnershipNext
     \/ topic = "gateways" /\ GatewaysNext
     \/ topic = "fake" /\ WorldNext
     \/ topic = "requests" /\ RequestsNext
     \/ topic = "history" /\ (Writers \/ ShortSweeps)
     \/ topic = "pages" /\ (Writers \/ Midnight \/ Reads)

RulesSpec == RulesInit /\ [][RulesNext]_rulesVars
=============================================================================
