------------------------------- MODULE Trees -------------------------------
(***************************************************************************)
(* The comment trees of the posts that the revisit ladder makes due, in    *)
(* one run after another.  The sweep of each run has left posts and their  *)
(* num_comments in the store; the stage reads the due posts newest first,  *)
(* as many as the budget may pay for, fetches each tree through the ladder *)
(* (UnitOfWork is what it relies on) and writes it in one transaction.     *)
(* Reddit serves some comments behind `more` stubs that cost a request     *)
(* each; comments appear, lose their author and vanish at any time.        *)
(***************************************************************************)
EXTENDS Budget, FiniteSetsExt, Sequences

CONSTANTS
  Posts,       \* 1 .. n, in the order of created_utc
  Created,     \* the day each post was created
  Comments, PostOf, Author,
  Parent,      \* the comment replied to, Null for the post itself
  Folded,      \* comments served behind a stub, with everything below them
  Fickle,      \* bound: comments that may lose their author or vanish
  Malformed,   \* comments normalize_comment rejects
  LadderDays,  \* revisit_ladder_days
  ReplaceMoreLimit, PerPostCap,   \* the two configured bounds on expansions
  MaxDay,      \* bound: the last day
  MaxSwept,    \* bound: requests the sweep made before
  MaxExtra,    \* bound: requests the ladder adds to one tree
  MaxFaults,   \* bound: failed, interrupted and killed steps
  Null

ASSUME TreesAssumption ==
  /\ IsFiniteSet(Posts) /\ Posts \subseteq Nat \ {0} /\ IsFiniteSet(Comments)
  /\ Created \in [Posts -> Nat]
  /\ \A p, q \in Posts : p < q => Created[p] <= Created[q]
  /\ PostOf \in [Comments -> Posts]
  /\ Parent \in [Comments -> Comments \cup {Null}]
  /\ \A c \in Comments : Parent[c] # Null => PostOf[Parent[c]] = PostOf[c]
  /\ \E depth \in [Comments -> 0 .. Cardinality(Comments)] :   \* threads are trees
       \A c \in Comments : Parent[c] # Null => depth[Parent[c]] < depth[c]
  /\ Folded \subseteq Comments /\ Malformed \subseteq Comments /\ Fickle \subseteq Comments
  /\ LadderDays \in Seq(Nat \ {0}) /\ LadderDays # <<>>
  /\ \A i, j \in DOMAIN LadderDays : i < j => LadderDays[i] < LadderDays[j]
  /\ {ReplaceMoreLimit, PerPostCap, MaxDay, MaxSwept, MaxExtra, MaxFaults} \subseteq Nat
  /\ Null \notin Nat \cup {"budget", "cap", "limit"}

Authors == {Author[c] : c \in Comments}

VARIABLES
  day, wire,   \* Reddit: each comment "unborn", "up", "anon" (its author gone), "removed"
  \* the database
  known, post, \* the rows of posts, and the columns the stage reads and owns
  stored, author, parentPk,   \* the rows of comments and two of their columns
  more,        \* comment_more: [post, head, count], head standing for the stub's identity
  counts,      \* authors.comment_count, Null for no row
  \* the run in memory
  phase,       \* "idle", "stage" (at a boundary), "write" (tree in hand), "done"
  queue,       \* the due posts read and not yet tried; the newest is next
  requests, used,
  hand,        \* PreparedTree and the bound that stopped it
  warned,      \* some warning is on the run
  verdict,     \* a RunTerminalError ended the stage
  newCount, baseline,   \* counters.comments_new, baseline_counts["comments"]
  \* history
  due,         \* the posts due when the queue was read, and not dealt with since
  stepped,     \* the posts this run stepped over as empty
  seen,        \* the comments Reddit showed at each post's last committed fetch
  faults

redditVars == <<day, wire>>
tableVars  == <<known, post, stored, author, parentPk, more, counts, seen>>
runVars    == <<queue, requests, used, warned, verdict, newCount, baseline, due, stepped>>
vars == <<redditVars, tableVars, phase, runVars, hand, faults>>

NoTree == [got |-> {}, named |-> {}, stubs |-> {}, bound |-> Null, seen |-> {}]
Bounds == {"budget", "cap", "limit", Null}

NewPost == [num |-> 0, stage |-> 0, next |-> 0, fetched |-> FALSE, captured |-> 0,
            complete |-> FALSE, hidden |-> 0, bound |-> Null]

Stubs == [head : Comments, count : Nat]

TypeOK ==
  /\ day \in 0 .. MaxDay
  /\ wire \in [Comments -> {"unborn", "up", "anon", "removed"}]
  /\ known \subseteq Posts
  /\ post \in [Posts -> [num : Nat, stage : Nat, next : Nat, fetched : BOOLEAN, captured : Nat,
                         complete : BOOLEAN, hidden : Nat, bound : Bounds]]
  /\ stored \subseteq Comments \ Malformed
  /\ author \in [Comments -> Authors \cup {Null}]
  /\ parentPk \in [Comments -> Comments \cup {Null}]
  /\ more \subseteq [post : Posts, head : Comments, count : Nat]
  /\ counts \in [Authors -> Nat \cup {Null}]
  /\ phase \in {"idle", "stage", "write", "done"}
  /\ queue \subseteq known
  /\ {requests, used, newCount, baseline} \subseteq Nat
  /\ hand \in [got : SUBSET Comments, named : SUBSET Comments, stubs : SUBSET Stubs, bound : Bounds, seen : SUBSET Comments]
  /\ warned \in BOOLEAN /\ verdict \in BOOLEAN
  /\ due \subseteq known /\ stepped \subseteq known /\ seen \in [Posts -> SUBSET Comments]
  /\ faults \in 0 .. MaxFaults

Init ==
  /\ day = 0 /\ wire = [c \in Comments |-> "unborn"]
  /\ known = {} /\ post = [p \in Posts |-> NewPost]
  /\ stored = {} /\ author = [c \in Comments |-> Null] /\ parentPk = [c \in Comments |-> Null]
  /\ more = {} /\ counts = [a \in Authors |-> Null]
  /\ phase = "idle" /\ queue = {} /\ requests = 0 /\ used = 0 /\ hand = NoTree
  /\ warned = FALSE /\ verdict = FALSE /\ newCount = 0 /\ baseline = 0
  /\ due = {} /\ stepped = {} /\ seen = [p \in Posts |-> {}] /\ faults = 0

-----------------------------------------------------------------------------
(* Reddit.                                                                  *)

Visible(p) == {c \in Comments : PostOf[c] = p /\ wire[c] \in {"up", "anon"}}

\* Between runs: what changes during one reaches the stage as a stale num_comments, which
\* a failed sweep leaves as well, or only the next run.
Change(c) ==
  /\ phase = "idle"
  /\ \/ /\ wire[c] = "unborn" /\ Created[PostOf[c]] <= day
        /\ Parent[c] # Null => wire[Parent[c]] # "unborn"
        /\ wire' = [wire EXCEPT ![c] = "up"]
     \/ c \in Fickle /\ wire[c] = "up" /\ \E w \in {"anon", "removed"} : wire' = [wire EXCEPT ![c] = w]
  /\ UNCHANGED <<day, tableVars, phase, runVars, hand, faults>>

NextDay ==
  /\ phase = "idle" /\ day < MaxDay /\ day' = day + 1
  /\ UNCHANGED <<wire, tableVars, phase, runVars, hand, faults>>

\* A comment and everything it replies to.
Above[c \in Comments] == IF Parent[c] = Null THEN {c} ELSE {c} \cup Above[Parent[c]]

\* The stubs a fetch with `limit` expansions opens: a stub inside a stub only after it,
\* and none is left while the limit allows one more.
Opened(p, limit) ==
  LET folds == Folded \cap Visible(p)
  IN  {S \in SUBSET folds :
         /\ Cardinality(S) = Least(limit, Cardinality(folds))
         /\ \A h \in S : Above[h] \cap folds \subseteq S}

-----------------------------------------------------------------------------
(* The revisit ladder.                                                      *)

\* next_check: the rung of a stage, in days after the creation.
Rung(stage) ==
  IF stage < Len(LadderDays) THEN LadderDays[stage + 1]
  ELSE LadderDays[Len(LadderDays)] * (stage - Len(LadderDays) + 2)

NextCheck(p, stage) == Created[p] + Rung(stage)

\* _ladder: a finished check leaves one more check done and that rung pending.
Climbed(p) ==
  [post[p] EXCEPT !.stage = post[p].stage + 1, !.next = NextCheck(p, post[p].stage + 1)]

-----------------------------------------------------------------------------
(* The stage.                                                               *)

\* Slip: no row past what the budget pays.
QueueOf_Affordable(duePosts) ==
  {p \in duePosts : Cardinality({q \in duePosts : q > p}) < Spendable(used')}

\* due_posts and _queue_limit: the newest posts of those due, one more than the budget pays.
QueueOf(duePosts) == {p \in duePosts : Cardinality({q \in duePosts : q > p}) <= Spendable(used')}

\* A run: its sweep finds posts, refreshes num_comments of those it sees and spends from
\* the same budget; then the stage reads its queue.
StartStage(swept) ==
  /\ phase = "idle"
  /\ requests' \in 0 .. MaxSwept /\ used' = requests'
  /\ known' = known \cup swept
  /\ post' = [p \in Posts |->
               IF p \notin swept THEN post[p]
               ELSE [post[p] EXCEPT !.num = Cardinality(Visible(p)),
                                    !.next = IF p \in known THEN @ ELSE NextCheck(p, 0)]]
  /\ due' = {p \in known' : post'[p].next <= day}
  /\ queue' = QueueOf(due')
  /\ phase' = "stage" /\ warned' = FALSE /\ verdict' = FALSE
  /\ newCount' = 0 /\ baseline' = Cardinality(stored) /\ stepped' = {}
  /\ UNCHANGED <<redditVars, stored, author, parentPk, more, counts, seen, hand, faults>>

\* The post at the head of the queue.
IsNext(p) == phase = "stage" /\ p \in queue /\ \A q \in queue : q <= p

Fault == faults < MaxFaults /\ faults' = faults + 1

Stop ==
  /\ phase' = "done" /\ warned' = TRUE
  /\ UNCHANGED <<redditVars, tableVars, queue, requests, used, verdict, newCount, baseline,
                 due, stepped, hand>>

OverCeiling(p) == IsNext(p) /\ Fault /\ Stop

\* A tree costs at least its base request.
OutOfBudget(p) ==
  IsNext(p) /\ post[p].num # 0 /\ ~CanAfford(used, 1) /\ Stop /\ UNCHANGED faults

\* Slip: an empty post keeps its rung.
Skipped_StillDue(p) == [post[p] EXCEPT !.fetched = FALSE, !.captured = 0, !.complete = FALSE,
                                       !.hidden = 0, !.bound = Null]

\* The stamp of a post without comments: no tree was read, the ladder climbs.
Skipped(p) == [Climbed(p) EXCEPT !.fetched = FALSE, !.captured = 0, !.complete = FALSE,
                                 !.hidden = 0, !.bound = Null]

Skip(p) ==
  /\ IsNext(p) /\ post[p].num = 0
  /\ post' = [post EXCEPT ![p] = Skipped(p)]
  /\ queue' = queue \ {p} /\ due' = due \ {p} /\ stepped' = stepped \cup {p}
  /\ UNCHANGED <<redditVars, known, stored, author, parentPk, more, counts, seen, phase,
                 requests, used, warned, verdict, newCount, baseline, hand, faults>>

\* plan_fetch's more_limit.
MoreLimitFor(spendable) == Least(Least(ReplaceMoreLimit, PerPostCap), Most(spendable - 1, 0))

\* stop_reason: the smallest bound, the budget before the cap before the limit.
StopReason(stubs, spendable) ==
  LET bound == Most(spendable - 1, 0)
  IN  IF stubs = {} THEN Null
      ELSE IF bound <= Least(PerPostCap, ReplaceMoreLimit) THEN "budget"
      ELSE IF PerPostCap <= ReplaceMoreLimit THEN "cap" ELSE "limit"

\* The stubs a fetch leaves, each with the number of comments behind it.
StubsLeft(p, opened) ==
  {[head |-> h, count |-> Cardinality({c \in Visible(p) : h \in Above[c]})] :
     h \in {f \in (Folded \cap Visible(p)) \ opened :
              Above[f] \cap Folded \cap Visible(p) \subseteq opened \cup {f}}}

\* Slip: the rejects are written with the rest.
Accepted_Raw(p, opened) ==
  {c \in Visible(p) : Above[c] \cap Folded \cap Visible(p) \subseteq opened}

\* _prepare_tree: the comments outside the stubs left, without the rejects.
Accepted(p, opened) ==
  {c \in Visible(p) \ Malformed : Above[c] \cap Folded \cap Visible(p) \subseteq opened}

\* A fetch that succeeds, whatever the ladder added, and its normalisation.
Fetch(p) ==
  /\ IsNext(p) /\ post[p].num # 0 /\ CanAfford(used, 1)
  /\ \E opened \in Opened(p, MoreLimitFor(Spendable(used))), extra \in 0 .. MaxExtra :
       LET stubs == StubsLeft(p, opened)
       IN  /\ requests' = requests + TreeCost(Cardinality(opened)) + extra
           /\ hand' = [got   |-> Accepted(p, opened),
                       named |-> {c \in Comments : wire[c] = "up"},
                       stubs |-> stubs,
                       bound |-> StopReason(stubs, Spendable(used)),
                       seen  |-> Visible(p)]
  /\ used' = requests' /\ phase' = "write"
  /\ UNCHANGED <<redditVars, tableVars, queue, warned, verdict, newCount, baseline, due, stepped,
                 faults>>

\* The fetch fails for this post alone: it stays due.
FetchFails(p) ==
  /\ IsNext(p) /\ post[p].num # 0 /\ CanAfford(used, 1) /\ Fault
  /\ requests' \in requests + 1 .. requests + TreeCost(MoreLimitFor(Spendable(used))) + MaxExtra
  /\ used' = requests' /\ queue' = queue \ {p} /\ warned' = TRUE
  /\ UNCHANGED <<redditVars, tableVars, phase, verdict, newCount, baseline, due, stepped,
                 hand>>

\* A rate limit, rejected credentials, a block or an outage end the run.
FetchEnds(p) ==
  /\ IsNext(p) /\ post[p].num # 0 /\ CanAfford(used, 1) /\ Fault
  /\ requests' = requests + 1 /\ used' = requests' /\ verdict' = TRUE /\ phase' = "done"
  /\ UNCHANGED <<redditVars, tableVars, queue, warned, newCount, baseline, due, stepped,
                 hand>>

Writing(p) == phase = "write" /\ p \in queue /\ \A q \in queue : q <= p

\* Slip: parents are looked up among the comments just written.
Resolvable_InBatch(p, c) == Parent[c] \in hand.got

\* _resolve_parents: among all the stored comments of the post.
Resolvable(p, c) == Parent[c] \in stored \cup hand.got /\ PostOf[Parent[c]] = p

\* Slip: the counts are taken before the rows they count are written.
CountOf_Before(a) == Cardinality({c \in stored : author[c] = a})

\* recount_authors recomputes, after the upsert.
CountOf(a) == Cardinality({c \in stored' : author'[c] = a})

\* Slip: a new fetch adds its stubs to those of the last.
Replaced_Merged(p) == more \cup {[post |-> p, head |-> s.head, count |-> s.count] : s \in hand.stubs}

\* replace_comment_more: wholesale.
Replaced(p) ==
  {m \in more : m.post # p}
    \cup {[post |-> p, head |-> s.head, count |-> s.count] : s \in hand.stubs}

\* Slip: every comment of the tree counts as new.
NewIds_All == hand.got

\* upsert_comments' classification.
NewIds == hand.got \ stored

\* One tree, one transaction; its counters are folded after it.
Commit(p) ==
  /\ Writing(p)
  /\ stored' = stored \cup hand.got
  /\ author' = [c \in Comments |-> IF c \notin hand.got THEN author[c]
                                   ELSE IF c \in hand.named THEN Author[c] ELSE Null]
  /\ parentPk' = [c \in Comments |->
                    IF PostOf[c] = p /\ c \in stored' /\ parentPk[c] = Null /\ Parent[c] # Null
                       /\ Resolvable(p, c)
                    THEN Parent[c] ELSE parentPk[c]]
  /\ more' = Replaced(p)
  /\ counts' = [a \in Authors |->
                  IF \E c \in hand.got : author'[c] = a THEN CountOf(a) ELSE counts[a]]
  /\ post' = [post EXCEPT ![p] =
                [Climbed(p) EXCEPT !.fetched = TRUE, !.captured = Cardinality(hand.got),
                                   !.complete = hand.stubs = {},
                                   !.hidden = FoldSet(LAMBDA s, n : s.count + n, 0, hand.stubs),
                                   !.bound = hand.bound]]
  /\ seen' = [seen EXCEPT ![p] = hand.seen]
  /\ newCount' = newCount + Cardinality(NewIds)
  /\ warned' = (warned \/ hand.bound # Null)
  /\ queue' = queue \ {p} /\ due' = due \ {p} /\ phase' = "stage" /\ hand' = NoTree
  /\ UNCHANGED <<redditVars, known, requests, used, verdict, baseline, stepped, faults>>

\* The transaction is refused: a warning, nothing counted, still due.
Refused(p) ==
  /\ Writing(p) /\ Fault
  /\ warned' = TRUE /\ queue' = queue \ {p} /\ phase' = "stage" /\ hand' = NoTree
  /\ UNCHANGED <<redditVars, tableVars, requests, used, verdict, newCount, baseline, due, stepped>>

Drained ==
  /\ phase = "stage" /\ queue = {} /\ phase' = "done"
  /\ UNCHANGED <<redditVars, tableVars, runVars, hand, faults>>

\* The run goes on to its invariants and closes.
Close ==
  /\ phase = "done" /\ phase' = "idle"
  /\ queue' = {} /\ due' = {} /\ requests' = 0 /\ used' = 0 /\ warned' = FALSE
  /\ verdict' = FALSE /\ newCount' = 0 /\ baseline' = 0 /\ stepped' = {}
  /\ UNCHANGED <<redditVars, tableVars, hand, faults>>

\* The process dies: the database is all that is left.
Kill ==
  /\ phase \in {"stage", "write"} /\ Fault
  /\ phase' = "idle" /\ queue' = {} /\ due' = {} /\ requests' = 0 /\ used' = 0 /\ warned' = FALSE
  /\ verdict' = FALSE /\ newCount' = 0 /\ baseline' = 0 /\ stepped' = {} /\ hand' = NoTree
  /\ UNCHANGED <<redditVars, tableVars>>

OnPost(p) ==
  \/ OverCeiling(p) \/ OutOfBudget(p) \/ Skip(p) \/ Fetch(p) \/ FetchFails(p) \/ FetchEnds(p)
  \/ Commit(p) \/ Refused(p)

\* The sweep of the posts' source succeeds or fails.
Start == \E swept \in {{}, {p \in Posts : Created[p] <= day}} : StartStage(swept)

Work == Drained \/ Close \/ \E p \in Posts : OnPost(p)

Next == NextDay \/ Kill \/ Start \/ Work \/ \E c \in Comments : Change(c)

Spec == Init /\ [][Next]_vars

\* A run that started goes on; the schedule starts another while something is due.
Overdue == \E p \in known : post[p].next <= day
FairSpec == Spec /\ WF_vars(Work) /\ WF_vars(Overdue /\ Start)

-----------------------------------------------------------------------------
(* Properties.                                                              *)

\* The comments of p behind a stub the store knows of.
Behind(p) == {c \in seen[p] : \E m \in more : m.post = p /\ m.head \in Above[c]}

\* No comment of a tree that was read is lost in silence: each one Reddit showed is
\* stored, rejected, or counted by a stub of that post, the stamp's numbers are those of
\* the rows, and complete means that nothing is behind a stub.
EveryCommentAccounted ==
  \A p \in known : post[p].fetched =>
    /\ seen[p] \subseteq stored \cup Malformed \cup Behind(p)
    /\ post[p].hidden = Cardinality(Behind(p))
    /\ post[p].captured = Cardinality((seen[p] \ Malformed) \ Behind(p))
    /\ post[p].complete <=> Behind(p) = {}
    /\ post[p].complete <=> post[p].bound = Null

\* A stored reply points to its parent as soon as both are stored, whichever came first
\* and however many fetches lie between them.
ParentsAreLinked ==
  \A c \in stored : parentPk[c] = IF Parent[c] \in stored THEN Parent[c] ELSE Null

\* An author's comment_count never lags behind the rows that carry the name.
CountsNeverLag ==
  \A a \in Authors :
    Cardinality({c \in stored : author[c] = a}) <= IF counts[a] = Null THEN 0 ELSE counts[a]

\* Together: what the tables say of a post whose tree was read.
StoreIsConsistent == TypeOK /\ EveryCommentAccounted /\ ParentsAreLinked /\ CountsNeverLag

\* What the invariant counters_equal_table_deltas compares: comments_new is the growth of
\* the table at every boundary, refused transactions and comments read again included.
NewIsDelta == phase # "idle" => newCount = Cardinality(stored) - baseline

\* A stage that ends without a warning has dealt with every due post, although it read no
\* more rows than the budget pays for and one; unless it stepped over an empty post, which
\* costs nothing and takes the place of a row: the posts left unread are then all older.
DrainedUnlessEmpty ==
  phase = "done" /\ ~warned /\ ~verdict => due = {} \/ \E p \in stepped : \A q \in due : q < p

\* Every post the ladder makes due is dealt with in the end, although newer posts go
\* first, runs are killed and a run may pay for a single tree.
DueIsServed ==
  \A p \in Posts : (p \in known /\ post[p].next <= day) ~> post[p].next > day
=============================================================================
