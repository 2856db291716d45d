# ThreadDigest, verified

TLA+ specifications of ThreadDigest, a personal read-only Reddit collector that keeps one SQLite
database: who may write it and when, what a sweep of a source and a comment tree may claim, what
becomes of an item that is edited, removed or deleted, how a schema upgrade survives, and whether
what a run, `doctor` and a digest say is so.  Paths below are relative to `src/src/threaddigest/`.

## The system

One program, several commands, one database file in WAL mode.

| Component | State it keeps | Operations | Interacts with |
|---|---|---|---|
| Collector lock (`services/lock.py`) | an flock on `locks/collector.lock` | acquire with three attempts, shared probe | every command |
| Run lifecycle (`services/runs.py`, `services/collect.py`, `cli.py`) | a row of `runs` per command: status, pid, heartbeat, counters, violations | stale sweep (T1), open (T2), heartbeat (T4), invariants (T7), close (T8), checkpoint, second close; `skipped_locked` without the lock | lock, process table, web readers |
| Database lifecycles (`services/migrate.py`, `db/migrate.py`, `db/backup.py`) | schema revision, backup files, `backups` | `db init`, `db upgrade`: back up, migrate, verify, restore, prune | lock, run lifecycle |
| Source sweep (`services/sweep.py`) | `subreddits`: watermark, coverage stamp, gap flag, status, failures, enabled; `run_subreddits`; paging state in memory | page loop, page transaction (T5), terminal transaction (T6) | gateway, paging rules, item store |
| Paging rules (`core/paging.py`) | none | absorb, plan_stop, gap_suspected | sweep |
| Deletion rules (`core/deletion.py`) | none | decide: eight rules over one observation | sweep, trees, later the reconcile stage |
| Item store (`db/repo.py`, `db/ownership.py`, migrations) | posts, comments, authors, snapshots, the FTS tables | upserts generated from an ownership table, triggers | sweep, trees, readers |
| Comment trees (`services/trees.py`, `core/trees.py`, `core/milestones.py`) | revisit stage and due time per post, comments, stubs | queue, fetch, one transaction per tree, skip | gateway, budget, item store |
| Retry and budget (`core/retry.py`, `core/budget.py`) | attempts, waits, requests spent | transient ladder, 429 wait, can_afford | sweep, trees |
| Settings (`settings.py`) | none | layers, checks across keys, fingerprint | every command |
| Column ownership (`db/ownership.py`) | none | which path writes which column | upserts |
| Gateway guards (`cli.py`) | the options of each run's row | place, then recorded gateways | run rows |
| Invariants (`services/invariants.py`) | none | seven checks at the end of a run | the whole database |
| Doctor (`services/doctor.py`) | none | read-only checks, lock probe | lock, runs |
| Digest, reports, web (`services/report.py`, `core/digest.py`, `web/`) | none | read-only queries and pages | database |
| Normalisation, adapters (`core/normalize.py`, `adapters/`) | none | conversion and I/O | sweep, trees |
| Fake Reddit (`adapters/reddit_fake/`) | posts, comments, subreddits; planted failures | building, deleting, restoring, saving and loading a world; requests | stands in for Reddit in the demo and in every test |
| Themes (`core/themes.py`) | none | compile, match, hash | nothing in this commit |
| Probe, repository tools, deployment | none | capture, launchd jobs | |

What makes it hard: launchd, the operator and an hourly doctor start commands that race for the
lock; a process may be killed between any two transactions and its pid reused; the listing moves
under the cursor while it is paged and is cut at a cap that counts slots nobody sees; a run has
many transactions and each may fail alone; observations of an item come in any order and some of
them must never be undone.

What makes each part correct:

* lock and runs: one command at a time inside the lock; nobody's open row is condemned; every row
  is settled in the end; a settled row stands.
* sweep: whatever happens, a post below the watermark is stored or the source is flagged;
  `exhausted` and the coverage stamp are true; counters equal what the tables grew by.
* deletion: an author's deletion is final; a purge is asked for exactly when content must go;
  nothing is live unless it is intact.
* store: the search index holds the live content and nothing else; a deleted comment's text never
  returns.
* lifecycles: a failed migration ends in the database as it was; a crash leaves a file that opens.
* ladder: a unit's time and requests are bounded, and the run stays visibly alive.
* trees: no comment is lost in silence; every due post is read or comes due again.
* the end of a run: exit code 0 means what it says, and what ends badly is announced.
* readers: doctor, digest and pages say of the rows what the runs did.

## Modules

| Module | Models | Composition |
|---|---|---|
| `RunLedger` | what the table `runs` promises its readers, without lock, pids or clock | abstract specification of `Collector` |
| `Collector` | the commands as processes: flock, retries, probes, stale sweep, rows, faults | implements `RunLedger` (`ImplementsLedger`) |
| `Paging` | `core/paging.py` and the rules the sweep applies to its results | extended by `SourceSweep` |
| `SourceSweep` | one source swept again and again while the listing moves | extends `Paging`; relies on `Collector`'s `MutualExclusion` for one run at a time |
| `Budget` | `core/budget.py` | extended by the next two and `Trees`, instantiated by `Settings` |
| `UnitOfWork` | what callers of `fetch_with_ladder` rely on | abstract specification of `FetchLadder` |
| `FetchLadder` | the units of a run through retries, 429, ceiling, heartbeat and budget | implements `UnitOfWork` (`ImplementsContract`) |
| `Trees` | the comment stage: queue, ladder of revisits, one transaction per tree | fetches as `UnitOfWork` says |
| `TreeFetch` | how one tree is walked and its stubs expanded | a machine of `MCRules` |
| `DbUpgrade` | `db init` and `db upgrade` on the database file and its copies | holds the lock all along (`Collector`) |
| `RunBody` | a run from its first row to its exit code, over several sources and runs | outcomes of `SourceSweep` and `FetchLadder`; extends `Doctor` |
| `Doctor` | the checks of `doctor` and its exit code | extended by `RunBody` |
| `Absent` | `Null`, for the modules that are checked together | extended by `Deletion`, `Ingest`, `Gateways` |
| `Deletion` | `core/deletion.py`, rule by rule | extended by the next two |
| `ItemVerdict` | `decide` under any sequence of observations | contract for every caller; a machine of `MCRules` |
| `StoredItem` | one row of posts or comments with its index entry, under any sequence of upserts | upsert, guard and triggers around `Decide` |
| `Normalise`, `Ingest` | a wire item becomes a row or a reject; what pages leave in the tables | `Ingest` extends `Normalise`; a machine of `MCRules` |
| `Ownership` | pages and trees writing the same rows, each its own columns | a machine of `MCRules` |
| `Wire` | a failure from the socket through praw and prawcore to what the run does | topic of `PureRules` |
| `Gateways` | the guards that keep the fake gateway's data away from real data | a machine of `MCRules` |
| `Settings` | layers and checks of the settings, the budget of a run | topic of `PureRules` |
| `FakeStatus` | whether the fake's subreddit answers | extended by the next two |
| `FakeWorld` | an item of the in-memory Reddit: what is done to it, who shows it, what `decide` makes of it | extends `Deletion`, `FakeStatus`; a machine of `MCRules` |
| `FakeRequests` | the fake's requests, whom they are charged to, the failures planted in them, and a status that refuses them | extends `FakeStatus`; a machine of `MCRules` |
| `FakeReddit` | the fake as one object: an item and the requests that show it | extends `FakeWorld` and `FakeRequests` |
| `Themes` | whether an item belongs to a theme, under timeouts | topic of `PureRules` |
| `History` | the run rows, the commands that write them and the pages that read them | a machine of `MCRules` |
| `Digest` | what the digest says of a row, its settings and its posts | topic of `PureRules` |
| `PureRules` | the rules that are functions of one input, and what each promises of it | instantiates `Wire`, `Settings`, `Themes`, `Digest`, extends `Normalise`; in `MCRules` |
| `MCCollector`, `MCSourceSweep`, `MCFetchLadder`, `MCTrees`, `MCRules` | instances for TLC | |
| `...Proofs` of `Collector`, `SourceSweep`, `FetchLadder`, `Trees`, `DbUpgrade`, `RunBody` | the theorems | each extends its module |
| `RulesProofs` | the theorems on one item and its rows, on who may write what, on what the readers of the run rows are told, and on the rules of one input | extends `ItemVerdict`, `StoredItem`, `Ingest`, `Gateways`, `Ownership`, `History`, `PureRules` |
| `RedditProofs` | the theorems on a fetched tree and on the fake | extends `TreeFetch`, `FakeReddit` |

A definition whose name has a suffix after an underscore (`FlockFree_IgnoringHolder`), under a
comment that begins with "Slip", is a plausible bug in the definition that follows it; nothing uses
it but a check that the properties would notice it.

### Collector

A process slot is one invocation of a command and the row it may insert; a slot whose process is
gone and whose row is settled is reused, so that behaviours never end while the states stay
finite.  `pc` is the place in `_run_ordered`, `_collect_persisted`, `_init_locked` or
`_upgrade_locked`; an action is one transaction, one flock call, or one step another process can
see.  `excl` and `shared` are the two kinds of flock descriptions.  The stale sweep is two
actions, its read and its write: `BEGIN` is deferred, so a `skipped_locked` row that another
command commits in between makes the write fail at once (`overtaken`, `SweepOvertaken`).  `age`
counts clock ticks since the last beat and saturates once the row is stale.  `foreign` are pids of
other programs, which reuse ours.  A fault is a kill at any place, an exception or an interrupt
that escapes, or the Ctrl-C that `collect` catches.

### SourceSweep

Posts are numbered in the order of creation and `Created` gives their second.  The listing serves
the newest `Cap` slots; a removed post keeps its slot and is not delivered, a malformed one is
delivered and rejected, and a sticky may head the first page.  `cursor`, `pages`, `itemsSeen`,
`minSeen`, `maxSeen` are the locals of `_page_loop`; `Fetch` is one request with normalisation and
`absorb`, `CommitPage` is T5 with the folding of counters and the loop's decision, the `Close`
actions are T6 on its three paths.  `Interrupted` stands for the ceiling, the budget and
`MAX_PAGES_PER_SUBREDDIT`; the first two may strike at any boundary.  A fetch is one step that
succeeds, fails the source (`FetchFails`) or ends the run (`Abort`): the ladder of retries around it
is `FetchLadder`.  `begun`, `horizon` and `streak` are history, for the properties alone.

`polled` holds the newest post at the start of the sweep that stamped `last_complete_poll_at`
instead of a time: this is what the stamp claims.

### Deletion, ItemVerdict, StoredItem

The operators of `Deletion` are the functions of `core/deletion.py` under their names; a body is a
text, empty, one of the two markers, or absent.  No service of this commit calls `info()` yet (the
reconcile stage is planned), so rule 2 has no caller: `ItemVerdict` states the contract for any
caller, over every observation in every order.  The scrub itself is not implemented either; the
run only counts the requests, so `PurgeIsOwed` speaks of the requests.

`StoredItem` drives the same rules with what listings and trees can show, through the upsert of
`db/repo.py` and the gated update triggers of migration 0003.  Posts carry no terminal guard in
this commit (`db/ownership.py:163`), comments do; the property about kept text is stated for
comments only.  A duplicate in one batch collapses to its last delivery.

### FetchLadder, UnitOfWork, Budget

`phase` is the place inside `fetch_with_ladder`, `attempt` and `limited` are its locals, `cost` and
`left` the GETs of a page or a tree.  A GET takes up to `PerGet` requests (the session counts token
refreshes and the library's own retries) and up to `Latency` of time.  `stage` and `beatAt` are what
`heartbeat` left in the row.  `UnitOfWork` hides the clock, the ladder and the beats; it shows that a
unit may overspend what it was planned for, by at most `Tries` requests for each GET.

### Trees, TreeFetch

In `Trees` a day of the world (comments appear, lose their author, vanish, the sweep refreshes
`num_comments`) precedes each run's stage.  The stage reads the queue once, with its limit; each tree
is fetched in one step and committed in another, which may be refused or forestalled by a kill.  A
stub is a head comment with all below it, and its count is exact.  `TreeFetch` is `fetch_tree` itself:
the walk, the choice of the next stub, its split into chunks, stale counts and threads that have none,
replies that come before what they reply to, and what is left when the limit is reached.  A comment is
lost by itself: the replies to it may still arrive, and then nothing they hang from ever does.

`DrainedUnlessEmpty`: a stage that ends with nothing said has dealt with every due post, unless it
stepped over an empty post (`stepped`) newer than all it left unread.  An empty post takes a row of the
queue and no request, so a queue of one row more than the budget pays for may end before the budget does.

### DbUpgrade

`db` is the live file (revision, state of its pages, data, run rows, backup rows), `file` the copies;
copy 0 is a path outside `backups/`.  An action is one step of `_init_locked` or
`_upgrade_with_backup`, from the first row to the pruning; `Kill` comes between any two, faults damage
the live file or a copy or refuse a statement.

The restore removes the live file's sidecars and then swaps the copy in.  A process killed between
the two leaves the file without what only its `-wal` held, the runs collected since the last
checkpoint included; the copy has them.  `torn` remembers such a kill, and `revived` the rows of pruned
copies that the bare file still had; those are the only rows without a file (`RowsHaveFiles`).  A run that collects into that
file afterwards divides the data between the file and the copy, which `NothingUnrecoverable` excepts
(`blind`), as it does a run that collects into a damaged file.

### RunBody, Doctor

The stages of `_collect_persisted` with one step per source: plan, ping, sweep, terminal transaction,
announcement, checks, close, exit code.  A source is swept, gapped, fails in a way that counts, or ends
the run.  `doctor` reads the lock, the rows and the sources in separate steps while the run goes on.
Dry runs take no lock and write nothing.

### MCRules and its topics

The rules the stages share are small machines or pure functions.  `MCRules` checks them in one run:
`topic` names the one that is exercised, a machine takes its own steps while the others stand still, and
a pure rule is given every input of a bounded set (`Inputs` of `PureRules`, whose constants are the sets).  The
sets stand in `MCRules` (`ManyPosts` and the like), the machines' bounds in its configuration.

* *verdict*, *store*: `ItemVerdict` and `StoredItem`, every observation after every other.
* *tree*: `TreeFetch` on six comments, one link that Reddit ends at, chunks of two, one or three
  expansions.
* *ingest*: two posts that change, one malformed item, a listing that may name another source, two
  pages in each of two sweeps, any of which may be refused.
* *owners*: two posts, two replies of one author, four transactions of pages and trees in any order.
* *gateways*: two processes and three commands; the owner moves the directory and upgrades meanwhile.
* *history*, *pages*: four rows of runs, one more than the window of the digest, over two sources of which
  the second is read to the end or not reached; pages of two.
* *fake*: one item of the fake Reddit and its row, any sequence of deletions, removals, edits,
  restorations, saving and loading, a ban of its subreddit, and looks at it through listing, tree and
  lookup.  A row that was not the author's deletion before the look becomes one only if he deleted the
  item (`stood`).  What no longer
  tells is excepted by name: a comment's tombstone that was edited over, and a tombstone from a fixture
  that `restore` has nothing to put back for (`Plain`).
* *requests*: two calls of up to two pages in turns, two failures planted at any time: queued, by page,
  a block page, a crash, and a subreddit that is banned and let in again meanwhile.  An operation ends in
  one of six ways (`Crashed`, `Blocked`, `Failed`, `Declined`, `PageFailed`, `Answered`), in the order
  `_begin`, `_request` and the listing decide them; a page that is declined was requested and is not read.  `FakeReddit` puts item and
  requests together: a request may show the item, and a hook may change it meanwhile.
* *theme*: themes of up to three rules, with their order and groups changed, on items whose searches hit
  or not, in time or not.
* *wire*, *shape*, *section*, *settings*, *row*, *process*: every failure, wire item, list of three
  posts, pair of settings, damaged row, and environment over a file.  They are checked by three
  properties: `FailuresAreRead` (*wire*, *shape*), `SettingsTakeEffect` (*process*, *settings*) and
  `ReportsAreRight` (*theme*, *section*, *row*).  Damage includes counters that are no numbers, which take
  the page down (`Reads`), and warnings without a name, which are said twice.

## Runs

| Run | Question | Instance | Why it is enough |
|---|---|---|---|
| `collector_safety` | lock, sweep, announcements, refinement of the ledger, history of rows | a run, an init, an upgrade, a prober, 3 pids, 2 faults | one fault leaves a row behind, the second strikes during its recovery; pids run short, so they are reused, also by foreign programs |
| `collector_live` | termination, recovery | a run, an init, a prober, 2 pids, 1 fault | a foreign program may keep the dead run's pid for ever |
| `sweep_safety` | losses, claims, counters | 6 posts and a sticky, pages of 2, a cap of 3 pages | seven items for six slots; one malformed post, one removal, one fault, one post arriving during the paging, pages that repeat up to all of the one before, so that the cursor may stall |
| `sweep_live` | arrival of new posts | 5 posts, a cap of 2 pages, 1 fault | three sweeps' worth of posts |
| `ladder` | bounds of a unit, visible life, the contract, termination | the shipped waits (30, 120, 300 s; 60 to 300 s for a 429) in units of 30 s, a ceiling of 12, a budget of 4 with 1 in reserve | a 429 before, between and after the rungs; waits that fit the ceiling and that do not; the second unit exhausts the budget |
| `trees` | comments, counters, queue, service | 3 posts, 4 comments, one behind a stub, one malformed, 2 requests a run, 2 rungs, 1 fault | the budget pays for one tree, so older posts wait; a reply is read before and after its parent |
| `upgrade` | copies, atomicity, reports, foreign files | 4 revisions, 3 tries, 2 runs that collect, 1 copy kept, 2 faults | a copy is pruned, a second upgrade fails, a fault meets the recovery from another, and data is older and newer than a copy; with 3 revisions no kill at the swap brings back the row of a pruned copy |
| `run_body` | exit code, announcements, doctor | 2 sources, 3 runs, a window of 2, 2 faults | a source is disabled, falls out of the window and is missed by a third run |
| `rules` | the rules of `MCRules` | see above | every rule compares neighbours or boundaries, which these bounds reach on both sides |
| `sweep_first`, `sweep_redirect`, `rules_fetched` | three sentences of comments | small | violated, see Findings |

The cap in the program is ten pages of a hundred.  Every rule compares counts of pages and slots
with `CapPages` and `Cap`, so pages of two and caps of two or three pages reach every boundary: a
page short of the cap, the cap in the middle of a page because of the sticky, the cap reached by
rejected or repeated slots, and posts beyond it.  `MaxDrift` is one less than the page size: a
page's worth of posts that arrive during one sweep pushes the cap up the listing, which then ends on
a page the code takes for the true end, and `ExhaustedMeansAll` no longer holds.

Random simulation of larger instances (five comments and four days in `Trees`, a budget of nine and a
ceiling of thirty in the ladder, ten posts in pages of three or four, four revisions and five tries in
`DbUpgrade`, three sources and six runs in `RunBody`, three posts over three sweeps in `Ingest`; tens of
millions of states each) found no violation either.

In `TreeFetch` one lost comment of six suffices for a reply that arrives and hangs from nothing: it has
a comment lost with replies before it, below it and beside it.

`CHECK_DEADLOCK FALSE` appears where the world is bounded: a disabled source whose posts are all
published, a world whose days or runs are over, and a pure rule have nothing left to do.

### Fairness

`collector_live`: a process that can step does (weak fairness of `Step`), a probe is dropped, the
clock runs, and launchd starts each command again and again (strong fairness of `Launch`, which
needs the slot's row settled and a free pid).  Strong fairness of `Acquire` and of `SweepWrite`
excludes two schedules the code's delays make absurd: every attempt of every command meets the
lock in the hands of somebody else for ever, and a `skipped_locked` row commits in the microseconds
between the read and the write of every sweep for ever.  Faults are never fair.

`sweep_live`: weak fairness of the run's own steps, `Begin` included: the launchd job starts a run
every few hours.  Nothing is assumed of Reddit.

`ladder`: weak fairness of what is under way: sleeps end and a GET is answered or times out.

`trees`: weak fairness of the stage's own steps, and runs keep starting while a post is due.  The
world need not move on.

## What is proved

`CollectorProofs`: the invariant `IInv` adds to the types that a process inside the lock is the one
`excl` names, that a verdict is held only by a process in its sweep and names only rows of
processes that do not execute, and that rows in the phases of a running command are `running`.
Mutual exclusion alone is not inductive: nothing in it ties the program counter to the flock.  From
`IInv` follow types, mutual exclusion, the safety of the sweep, the truth of announcements, the
action property on settled rows, and the refinement of `RunLedger` step by step.  Assumed of the
constants: the three kinds of commands are disjoint and the attempt counts are positive.

`SourceSweepProofs`: types and counters hold as they stand, from facts on finite sets.  The claims
of a closed sweep do not: they speak of the store and of posts, and nothing in them says what the
paging has been through.  `Window` does: during a sweep the obtainable posts are in the store (or on
the page in hand) without a hole, from the cursor up to a post at least as new as the first page's
head, and the window's minimum and maximum are times of posts in that stretch (`Covers`); the cursor
is at most so many pages down (`Depth`), so that a listing that ends before the tenth page ended at
its first post and not at the cap; a watermark is the time of a post that existed when the sweep
began.  Then `ExhaustedIsAll`, `StampsReach` and `NothingLost` follow, for any page size, cap,
overlap, number of posts, failures and crashes.  Assumed: fewer posts arrive during a sweep than a
page holds (`SlowDrift`), and for `NothingLost` that each post has a second of its own (`OwnSecond`: when the
window ends in the watermark's second, `gap_suspected` takes it for an overlap).

`FetchLadderProofs`: the bound of the contract is not inductive.  `Counted` says what a unit has spent
in terms of the attempts that are over (`Over`, one for each rung and one for the 429) and the GETs this
attempt has left; an attempt more is a product more, for which a few lemmas on products are stated.
`Synced` keeps the budget level with the gateway.  With them each step of the ladder is a step of
`UnitOfWork` or hidden from it.  `Announced` ties the end of a sleep to the beat before it, so that
`WaitsLookAlive` holds for any waits as long as beats are no rarer than doctor's patience
(`LadderAssumption`).  For `LadderIsBounded` the invariant says what a unit has slept: the rungs climbed
so far and at most one wait for a 429.  The sum of the first rungs is a recursive function, `Climbed`,
so the proof starts with an induction principle for sets of numbers (`Induction`, from the
well-foundedness of the order on a finite set) that gives its defining equation and that it grows.

`TypeOK` of `Collector` and of `SourceSweep` is proved (`TypeCorrect` in the proofs of each) and is no
property of a run: the theorem says it of any constants.

`TreesProofs`: three parts of what the tables say and what silence means are invariant with a few
facts more: a tree in hand is of the post it was fetched for (`HandIsOfPost`), no comment that is not
stored has a parent in the table (`UnstoredPointNowhere`), and, as long as nothing was said, what is
due and not in the queue is more than the remaining budget pays for (`Quiet`).  The last starts with
`HeadIsLong`, a fact about the newest posts up to a limit, whose proof takes the newest post left out
by well-foundedness of a finite order.  The fourth part, `EveryCommentAccounted`, which says of `seen`,
rows and stamps what a fetch said of a tree, needs the tree first: `ThreadInduction` goes down a
thread, from which every comment Reddit shows is either within the tree as far as it was expanded or
below exactly one head of a stub (`StubsAre`), so that the sum of the stubs is the number of comments
behind them (`SumIsHidden`, by the fold's unfolding along the subsets of the stubs).  Then the books
(`Books`) are kept: a tree in hand is accounted for by its own stubs (`TreeInHand`), and `Rows` says
that a post's stubs in the table are those of its last fetch and nobody else's.  Assumed: posts and
comments are finite, threads are trees, times are numbers, and `Null` is none of these.

`DbUpgradeProofs`: the properties speak of the end of a lifecycle and of the worst moment.  `Flow` says
what holds at each step between: what was found when the file was opened (`Found`), that after the
verification the file is at head and sound (`AtHead`), that the copy is what was found, with the row of the
try still open (`TheCopy`), that names of copies are free until they are taken (`Free`).  `AllFit`
orders the versions of the database in time: no row of a copy is older than the copy, and no copy has
more data than a database with its row; it is what a restore needs to bring back no row whose file
was pruned.  `Foreign` says that all versions agree on the outside copy.  `Kept` holds unless the power fails:
then `CopiesAreSafe` has no proof and no truth, since the last commits of the `-wal` are lost, and
`ASSUME ~PowerFails` says so in the theorem.  The other theorems need no such hypothesis.

`RunBodyProofs`: `Told` (all that ended badly is told or about to be), `Progress` (as long as nothing is
warned of, what is owed is done or queued) and `ThisRow` (the run's row says of each source what became
of it) are what the stages of a run hand on to each other.  That exit code 0 leaves no source behind is
the long part: `Streak` says that a source's failure counter is backed by as many rows since it was
last read, `Gone` that a source that failures disabled has failed up to its limit, so `WindowIsFull`, a
fact on the newest elements of a finite set, fills the freshness window with rows that did not read it and `Judge`
complains (`Complete`).  This rests on the window being at most one longer than the limits
(`RunBodyAssumption`): 2 against 3 and 1 in the code (`FRESHNESS_WINDOW`, `REDIRECT_DISABLE_AFTER`,
`QUARANTINE_DISABLE_AFTER`); with a longer window a source could leave without a complaint.
`Viewed` carries what the doctor has read to what it says.

`RulesProofs`, an item and its rows: every result of `Decide` is one of four kinds (`DecideCases`), from which the lemmas on
types, scrubs, liveness and misses follow.  The theorems on `ItemVerdict` need one strengthening, that
outside the terminal state the miss counter is the number of omissions up to the threshold.  Those on
`StoredItem` need that a row not yet written is judged as live, known and never missed; the guard's case rests
on the comment having held the marker when it entered the guard.  `TablesAgree` needs to know that
no row is of a later sweep (`Dated`), that a post has snapshots only with a row, and that every key
counted is a value some row of this sweep was shown with (`Keys`); the counts of authors rest on facts
about subsets of finite sets.  `IdentityStands` needs that the identity a sweep compares with is the
source's own until the sweep ends (`InStep`).  Assumed: `Null` is no body and the markers are no texts.

`RulesProofs`, writers and readers: `NothingFabricated` speaks of a fake run that is about to write.  The invariant ties it to
the lock (`Locked`), real data to a row that tells of it (`OnRecord`, which outlives upgrades and
unreadable rows), and what place and rows once allowed to what they would still allow (`Placed`,
`Checked`).  `OwnersAgree` needs for a post without a row that it has neither birth nor trees, for one
with a row that nothing of it is later than the clock, and for the author that the maximum of two finite sets'
maxima is the maximum of both (`MaxOfBoth`).  Assumed: `Null` is no process and no kind of gateway,
and posts and replies are finitely many numbers (`OwnershipAssumption`).  `ReadersAreTold`: the digest counts
the rows since a source was last read in a window one row longer than the threshold, the invariant looks
for a read in a window as long, and of any set of rows the two say the same (`SinceIsWithin`); they go on
saying it because a row is judged when no row up to it is open, and only open rows change (`Judged`,
`NothingJudged`).  A reader's pages are consecutive rows down to the one the next link starts below
(`Paged`, `DownJoins`).  Assumed: finitely many sources, a positive window and page size (`HistoryAssumption`).

`RedditProofs`, a fetched tree: `NothingSlipsAway` speaks of a finished fetch and says nothing of the walk.
`TreeInv` does: what has been seen is indexed once under what it replies to (`Indexed`); a comment neither
seen nor lost below one that is seen has its stub (`Frontier`), whose ids are siblings and whose count is no less than what is behind them
(`Stubbed`); in the last phase what is returned and what is on the stack are all the replies to what is
returned, each once, at their depth, parents first (`Walked`).  What each of these says of a reply is
inherited down the thread (`ThreadInduction`): returned is what was seen with all it hangs from
(`AllVisited`), and the first gap above anything else is a lost comment or behind a stub
(`RestIsHidden`).  That the pending stubs hide no more together than they
count is a sum over a sequence (`SumIs`), whose fold is unfolded along the subsets of its indices (`Totals`).

`RedditProofs`, the fake: `PayloadTells` is not inductive, since `restore` brings back a payload it does not speak
of.  `WorldInv` adds that every payload fits the sort of its item (`Fitting`) and that what the world remembers
is a live item's, unless a fixture brought a tombstone (`Remembers`).  What a look makes of the row
follows from the kinds of decisions `Decide` has, and `stood` says which it was before.  `FakeFails`: `PlantedInv` says that each failure
waits in the queue it was planted for and in no other, with as many times left as it was planted for
less those it was raised (`Places`, `AllWait`), that none was raised more often (`WithinTimes`) and
that what waits for the next request was planted no earlier than what was raised (`InTurn`).  `ChargedInv`
keeps the charges level with what was sent.  `FakeReliable` puts both together.  Assumed: `Null` is
none of the values it stands beside, and the bounds are numbers.

`RulesProofs`, rules of one input: `FailuresAreRead`, `SettingsTakeEffect` and `ReportsAreRight` have no steps,
so that their proofs (`FailuresKept`, `SettingsKept`, `ReportsKept`) are one theorem per rule, for any
input of its kind (`PureAssumption` says which kind), not for the run's sets.  `WireRead` follows each
class the libraries raise to the first row of the table that catches it or a base of it (`FirstRow`,
`RowOf`, `UnderstoodAs`).  `SectionsFaithful` needs that places in the ranking differ (`RanksApart`: the order is
total on posts with different ids), that the order the rows came in moves no post from its place (`AnyOrder`),
and that counting places arranges the list (`StandsAt`, `Placing`).  `ThemeJudged` goes up from one search (`OneSearch`: a
timeout may hide a hit, makes none, and says so) over a rule (`OneRule`) and a group (`OneGroup`) to the verdict
(`VerdictOwned`), and shows that compiling and matching depend on the rules as a set alone (`MatchedBySet`,
`AllCompile`), which the hash determines (`HashSays`).  `SettingsTold`, `RowsTold`, `SettingsMeant` and `ShapesClean`
are cases.  Assumed: ids of posts are unique and scores are numbers (`ArePosts`), a row's columns are
of the sorts `IsRunRow` names, damaged, null and nameless ones among them, a fingerprint goes with its settings
(`IsSettingsRow`), an item answers every search its rules make (`Fits`), and the budget's variables are numbers
(`IsProcess`).

The induction that some of these need is by the well-foundedness of strict inclusion among the subsets
of a finite set (`FS_StrictSubsetOrderingWellFounded`, `WFMin`), which takes the least counterexample and no operator.

Only model-checked: liveness (`EveryCommandEnds`, `DeadRowsSettle`, `NewPostsArrive`, `UnitsEnd`,
`DueIsServed`), fairness being beyond the prover.  Every invariant and action property of a passing run is
stated by a theorem.  `FakeNext` and `PureSpec` are only proved about: the run takes the steps of the
one's two halves, one topic each, and holds the other's input still.

## Findings

Three runs expect a violation; each states a sentence of a comment or a docstring.

1. `sweep_first`: after an interrupted first sweep posts are known and the watermark is not.
2. `sweep_redirect`: "N consecutive redirect results" counts failures of any kind.
3. `rules_fetched`: the digest of a run that swept nothing says "fetched this run" of what the run
   before it fetched.

Disagreements seen while modelling, which no run of this project states:

* A second `running` row does not prove two collectors (`services/invariants.py:187`): a reused pid
  suffices.  A crashed row found by `db init` or `db upgrade` is announced by nobody
  (`services/collect.py:224`, `services/migrate.py:160`).
* `exhausted` is recorded for a listing the cap cut before its tenth page when posts arrived during the
  paging (`docs/PLAN.md:322`), and an overlap for reaching the watermark's second (`core/paging.py:132`).
* Rule 5 of `decide` says `misses + 1` (`core/deletion.py:135`); its last paragraph and the code leave
  the misses alone, and `Hold` follows the code.
* The enumerated values `services/invariants.py:258` compares are those of the table at the end and those
  delivered during the sweep: a value that changes in between is a false complaint, which `TablesAgree`
  allows for.  `population_floors` speaks of a run that writes no posts; a run that only updates known
  ones writes them.
* A crosspost's parents that are not a list are kept whole in `raw_rejects`, although `_reject_raw` says
  parent text is never stored.
* The author of a post that loses its author keeps the count; `scrub_transitions` counts deliveries.
* `_Window` promises a range and has no upper bound; a `skipped_locked` row with a newer key becomes the
  day's digest; a settings change on the far side of a skipped row reads "not recorded"; a clock set
  back makes the summary of a run refuse its own row (`finished_at < started_at`, `core/digest.py:436-438`),
  and so no digest of that run is made.
* `ordered` (`adapters/reddit_praw.py:458-468`) walks from the post and drops a reply whose parent never
  arrived, though the result is complete and counts nothing hidden.  `flatten` (`core/trees.py:146-148`)
  promises to plant such a reply as a root, but gets none from this adapter; the fake
  (`adapters/reddit_fake/trees.py:144-163`) hands them on.  `NothingSlipsAway` therefore excepts what
  hangs from a lost comment.
* `_queue_limit` (`services/trees.py:165-173`) asks for one row more than the budget pays for, to tell a
  drained queue from a truncated one.  Empty posts among those rows cost nothing: the queue is cut, the
  budget lasts, and the stage ends in silence (`DrainedUnlessEmpty` allows it).
* `docs/PLAN.md:331` and `docs/PLAN.md:467` (KI-015) have the live file copied aside by a restore and put
  back on failure; `db/backup.py:242-279` copies nothing aside.  A kill between the removal of the sidecars
  and the swap leaves the file without its log, with rows of copies pruned since the last checkpoint; the
  docstring's "re-running the restore" has no command that does it.
* `services/runs_view.py:51-53` says a corrupted counter must not take the history page down; a counter that
  is null or a word does, at `int(loaded[key])` (`services/runs_view.py:149`).  A warning without a name is
  listed and counted once more as unrecorded (`services/runs_view.py:192`, `221`); a violation of neither
  severity is on the page and not in the digest; entries of a list that are no objects vanish.
* The fake guard is one-directional: a real run into fabricated data is not refused.
* A `retry:` pause of 300 s is longer than doctor's patience, and only a 429's pause is excused.
* In the fake Reddit `restore` of an item that was a tombstone when it was inserted keeps the marker and
  lists the item as live; `edit` shows a removed comment's new text while the world still remembers the
  removal; `set_status` promises an error for every request that touches the source
  (`adapters/reddit_fake/__init__.py:46`, `injection.py:68`), and only the listing and `about` ask
  (`listings.py:94`, `gateway.py:104`); a second `set_html_403`, `crash_after` or `fail_tree` replaces one that
  never fired, which the teardown then does not report.
* A link post whose author's account is deleted stays `gone_unconfirmed` for good, its content being empty
  and its category none (`core/deletion.py`).
* A rule of a theme whose search times out counts as no hit in every group, so a late exclusion lets an
  item in; `timed_out` says that it may have.
* Two sources that turn out to be one subreddit share an identity the table holds once: the terminal
  transaction of the second fails in every run, its status stays `ok`, and the run ends `partial`
  (`services/sweep.py:770`, `db/schema.py:165`).
* Damage to the database file reaches some checks of `doctor` as an exception.

## How it was built, and what is left

In this order: `RunLedger` and `Collector`, `Paging` and `SourceSweep`, `Deletion`, `ItemVerdict`,
`StoredItem` with their proofs; then `FetchLadder` over `Budget`, `Trees`, `DbUpgrade`, `RunBody` and
`Doctor`; then the rules the stages share, and the proofs about ladder, trees, ingest and gateways;
then those about upgrades, the body of a run, column owners, the readers of the run rows, and the rest of
ladder and trees; last those about a fetched tree, the fake and the rules of one input.  The last made the
ranking a count of the posts ahead instead of a library sort, which the provers cannot look into, and
put two alternatives of `Ping` in the order the code tries them, which TLC had taken them in already.

Worth doing next: a composition of `Trees` with `RunBody` once `run` calls the comment stage.

### Not modelled

* Whether `run` calls the comment stage: in this commit it does not, and `Trees` drives the stage by
  itself.
* The names and staging files of backups (every copy is distinct and complete or absent), and a loss of
  power in `DbUpgrade`, which the code guards against with `fsync` alone: `PowerFails` is FALSE.
* In `Trees`, Reddit's stubs are exact; stale counts and stubs without one (`adapters/reddit_praw.py:423-431`)
  are those of `TreeFetch`.
* An empty name or a negative counter in a run's row, which the digest's models refuse.
* Rendering, templates, headers, option parsing, wording, the spelling a theme's rule forgives; `core/fixture_scrub.py` and
  `services/probe.py`; the adapters of clock and notifications, which pass on what they are given.
* In the fake Reddit: search, blocks for threads, what a hook does but change the item, clamped trees, and a tree's or a lookup's own
  planted failures (kept like a block page and like a page's).
* Pragmas, indexes and single-field constraints; statistics of a post beyond its score.
* `removal_candidates`, which nothing calls; the scrub itself, which is not implemented in this commit.
* The repository's own tools (`src/tools/`) and the launchd jobs (`src/deploy/`), the latter present as
  the environment that starts commands.
