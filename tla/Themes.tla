------------------------------- MODULE Themes --------------------------------
(***************************************************************************)
(* core/themes.py: does an item belong to a theme?  Rules in three groups, *)
(* each search under a timeout, the first hit remembered.  An item says of *)
(* each pattern and each of its text fields what a patient search would    *)
(* find, and whether the timeout strikes first.                            *)
(***************************************************************************)
EXTENDS Absent, Naturals, SequencesExt, FiniteSetsExt

Groups   == {"match", "exclude", "only_in"}
Fields   == {"title", "body", "comments"}
RuleKinds == {"keyword", "regex", "flair", "subreddit"}
Searches == [found : BOOLEAN, late : BOOLEAN]

\* The other kinds are compared with the item's flair -- a name, alone or among other words, in
\* lower case or not -- and its subreddit.
InText(rule) == rule.kind \in {"keyword", "regex"}

\* What is asked of rules and of an item: searches that the item answers, in the fields it has.
ThemesAssumption == Null \notin Nat \cup Fields \cup RuleKinds
IsTheme(rules) ==
  /\ rules \in Seq(ToSet(rules))
  /\ \A i \in DOMAIN rules : /\ rules[i].group \in Groups /\ rules[i].kind \in RuleKinds
                             /\ rules[i].scope \in Fields \cup {"any"}
Fits(rules, item) ==
  /\ DOMAIN item = {"search", "subreddit", "flair"}
  /\ \A p \in DOMAIN item.search : /\ DOMAIN item.search[p] \subseteq Fields
                                    /\ \A f \in DOMAIN item.search[p] : item.search[p][f] \in Searches
  /\ \A i \in DOMAIN rules : InText(rules[i]) => rules[i].pattern \in DOMAIN item.search

-----------------------------------------------------------------------------
(* Compiling.                                                               *)

\* _compile_rule raises: too long, nothing left of it, or no regular expression.
Bad(rule) ==
  \/ rule.long
  \/ rule.text = "blank" /\ rule.kind # "regex"
  \/ rule.text = "malformed" /\ rule.kind = "regex"

\* compile_theme names the first one; 0 when all compile.
FirstBad(rules) == SelectInSeq(rules, Bad)

\* The rules of a group, by index.
Group(rules, group) == {i \in DOMAIN rules : rules[i].group = group}

HowOften(r, rules) == Cardinality({i \in DOMAIN rules : rules[i] = r})

\* Slip: what a rule searches for counts, what it is for does not.
Hash_OfPatterns(rules) == {[kind |-> r.kind, pattern |-> r.pattern] : r \in ToSet(rules)}

\* rules_hash: every attribute counts, the order does not.
Hash(rules) == [r \in ToSet(rules) |-> HowOften(r, rules)]

-----------------------------------------------------------------------------
(* Matching.                                                                *)

\* Slip: the body is searched before the title.
TextScopes_BodyFirst == <<"body", "title", "comments">>

TextScopes == <<"title", "body", "comments">>

\* The fields a rule searches, in order; one the item has not is skipped.
Scopes(rule) == IF rule.scope = "any" THEN TextScopes ELSE <<rule.scope>>

Late(fields, of, upTo)  == \E i \in 1 .. upTo : fields[i] \in DOMAIN of /\ of[fields[i]].late
InTime(fields, of) ==
  {i \in DOMAIN fields : fields[i] \in DOMAIN of /\ of[fields[i]].found /\ ~of[fields[i]].late}

\* `_hit` in a text: the first field that answers in time, and whether one before it did not.
HitIn(fields, of, hits) ==
  IF hits = {} THEN [field |-> Null, late |-> Late(fields, of, Len(fields))]
  ELSE [field |-> fields[Min(hits)], late |-> Late(fields, of, Min(hits))]
HitText(rule, of) == HitIn(Scopes(rule), of, InTime(Scopes(rule), of))

\* Whole words and case count for a flair where the rule says so, for a subreddit never.
HitFlair(rule, flair) ==
  /\ flair # Null /\ flair.name = rule.pattern
  /\ rule.whole_word => flair.alone
  /\ rule.case_sensitive => flair.lower = rule.lower
Hit(rule, item) ==
  IF InText(rule) THEN HitText(rule, item.search[rule.pattern])
  ELSE LET hit == IF rule.kind = "flair" THEN HitFlair(rule, item.flair)
                  ELSE item.subreddit = rule.pattern
       IN  [field |-> IF hit THEN rule.kind ELSE Null, late |-> FALSE]

\* What each rule says of the item, were it asked.
Answers(rules, item) == [i \in DOMAIN rules |-> Hit(rules[i], item)]

\* any_hit: the first rule of the group that hits; the rules after it are not asked.
First(of, hits, group) ==
  IF hits = {} THEN [index |-> Null, field |-> Null, late |-> \E i \in group : of[i].late]
  ELSE [index |-> Min(hits), field |-> of[Min(hits)].field,
        late |-> \E i \in group : i <= Min(hits) /\ of[i].late]
AnyHit(of, group) == First(of, {i \in group : of[i].field # Null}, group)

No(late) == [matched |-> FALSE, rule_index |-> Null, field |-> Null, timed_out |-> late]

\* Slip: only the last group asked is remembered to have been late.
Verdict_LastLate(bound, only, hit, not) ==
  IF bound /\ only.index = Null THEN No(only.late)
  ELSE IF hit.index = Null THEN No(hit.late)
  ELSE IF not.index # Null THEN No(not.late)
  ELSE [matched |-> TRUE, rule_index |-> hit.index, field |-> hit.field, timed_out |-> not.late]

\* match: only_in, match, exclude, and no further than needed.
Verdict(bound, only, hit, not) ==
  IF bound /\ only.index = Null THEN No(only.late)
  ELSE IF hit.index = Null THEN No(only.late \/ hit.late)
  ELSE IF not.index # Null THEN No(only.late \/ hit.late \/ not.late)
  ELSE [matched |-> TRUE, rule_index |-> hit.index, field |-> hit.field,
        timed_out |-> only.late \/ hit.late \/ not.late]

MatchOf(rules, of) ==
  Verdict(Group(rules, "only_in") # {}, AnyHit(of, Group(rules, "only_in")),
          AnyHit(of, Group(rules, "match")), AnyHit(of, Group(rules, "exclude")))
Match(rules, item) == MatchOf(rules, Answers(rules, item))

-----------------------------------------------------------------------------
(* Properties.                                                              *)

\* What a patient search would find.
Patient(item) ==
  [item EXCEPT !.search = [p \in DOMAIN @ |-> [f \in DOMAIN @[p] |-> [@[p][f] EXCEPT !.late = FALSE]]]]
Belongs(rules, of) ==
  LET hit(group) == \E i \in Group(rules, group) : of[i].field # Null
  IN  /\ hit("match") /\ ~hit("exclude")
      /\ Group(rules, "only_in") # {} => hit("only_in")

\* The answer is the rules' own unless it says that a search timed out, and then it errs only
\* the way the late rule's group says: an item is let in by a late exclusion alone.
TimeoutsAreOwned(rules, item, m, patient, belongs) ==
  LET late(group) == \E i \in Group(rules, group) :
                       InText(rules[i]) /\ Late(Scopes(rules[i]), item.search[rules[i].pattern],
                                                Len(Scopes(rules[i])))
  IN  /\ ~m.timed_out => m = [patient EXCEPT !.timed_out = FALSE] /\ m.matched = belongs
      /\ m.matched /\ ~belongs => late("exclude")
      /\ ~m.matched /\ belongs => late("match") \/ late("only_in")

\* Two themes with one hash compile or fail together and hold the same items, whatever the order
\* of their rules and whichever of them is late: nothing needs to be tagged again.
HashIsEnough(rules, other, items) ==
  Hash(rules) = Hash(other) =>
    /\ (FirstBad(rules) = 0) = (FirstBad(other) = 0)
    /\ FirstBad(rules) = 0 =>
         \A item \in items : Match(rules, item).matched = Match(other, item).matched

\* What is found in the title is not put down to a later field.
FirstFieldWins(rules, item, m) ==
  m.field \in {"body", "comments"} =>
    LET r == rules[m.rule_index]
    IN  r.scope = "any" /\ "title" \in DOMAIN item.search[r.pattern] =>
          LET t == item.search[r.pattern]["title"] IN ~t.found \/ (t.late /\ m.timed_out)

\* The same rules in another order, or with a rule in another group.
Neighbours(rules) ==
  {[rules EXCEPT ![i] = rules[i + 1], ![i + 1] = rules[i]] : i \in 1 .. Len(rules) - 1}
    \cup {[rules EXCEPT ![i].group = g] : i \in DOMAIN rules, g \in Groups}

\* Together: a theme holds what its rules say.
ItemIsJudged(rules, item, of, patient) ==
  \A m \in {MatchOf(rules, of)} :
    /\ TimeoutsAreOwned(rules, item, m, MatchOf(rules, patient), Belongs(rules, patient))
    /\ FirstFieldWins(rules, item, m)
ThemeIsItsRules(rules, items) ==
  /\ FirstBad(rules) = 0 =>
       \A item \in items :
         ItemIsJudged(rules, item, Answers(rules, item), Answers(rules, Patient(item)))
  /\ \A other \in Neighbours(rules) : HashIsEnough(rules, other, items)
=============================================================================
