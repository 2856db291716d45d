------------------------------- MODULE Ingest -------------------------------
(***************************************************************************)
(* What the pages of one source leave in the tables: _prepare_page, the    *)
(* identity check, write_page with everything it writes, the counters      *)
(* folded after the commit and the adoption of the identity at the end.    *)
(* Which page is fetched when is SourceSweep's matter.                     *)
(***************************************************************************)
EXTENDS Normalise, Sequences, FiniteSets, Naturals, Absent

CONSTANTS
  Ids,         \* posts
  Looks,       \* what Reddit may show of one: [author, score, value]
  Identities,  \* t5_ identities a listing may carry
  KnownValues, \* the registered values of an enumerated field
  MaxPages, MaxSweeps  \* bounds

ASSUME IngestAssumption ==
  /\ IsFiniteSet(Ids) /\ Null \notin Identities \cup Nat /\ {MaxPages, MaxSweeps} \subseteq Nat
  /\ \A l \in Looks : l.score \in Nat /\ DOMAIN l = {"author", "score", "value"}

VARIABLES
  posts,       \* rows: what was last shown of each post, its identity, the run that wrote it
  numbers,     \* item_snapshots: the scores of each post, oldest first
  authors,     \* authors: post_count of each, Null for no row
  rejects,     \* raw_rejects: rows
  identity,    \* subreddits.subreddit_id
  sweeping, sweep,           \* whether a sweep is under way, and its number
  loaded, observed, pages,   \* the sweep: identity at its start, first one seen, pages
  counted, keys              \* Counters.rejects, RunContext.unknown_enum_keys

ingestVars == <<posts, numbers, authors, rejects, identity, sweeping, sweep, loaded, observed, pages,
          counted, keys>>

NoRow == [author |-> Null, score |-> 0, value |-> Null, identity |-> Null, sweep |-> 0]
Authors == {l.author : l \in Looks} \ {Null}

IngestInit ==
  /\ posts = [i \in Ids |-> NoRow] /\ numbers = [i \in Ids |-> <<>>]
  /\ authors = [a \in Authors |-> Null] /\ rejects = 0
  /\ identity = Null /\ sweeping = FALSE /\ sweep = 0
  /\ loaded = Null /\ observed = Null /\ pages = 0 /\ counted = 0 /\ keys = {}

\* prior_posts: the rows a page is compared with.
Stored == {i \in Ids : posts[i].sweep > 0}

BeginSweep ==
  /\ ~sweeping /\ sweep < MaxSweeps
  /\ sweeping' = TRUE /\ sweep' = sweep + 1 /\ loaded' = identity
  /\ observed' = Null /\ pages' = 0 /\ keys' = {}
  /\ UNCHANGED <<posts, numbers, authors, rejects, identity, counted>>

-----------------------------------------------------------------------------
(* A page: some posts as they look, one malformed item perhaps, and the     *)
(* identity of the listing on those that carry it.                          *)

Malformed == [Sound EXCEPT !.created = "infinite"]
Delivered(bad) == IF bad THEN Malformed ELSE Sound

\* _check_identity.
Foreign(seen) == seen # Null /\ loaded # Null /\ seen # loaded

\* Slip: an unknown value is counted each time it is delivered.
KeysOf_Deliveries(shown) ==
  {<<i, shown[i].value, pages + 1>> : i \in {j \in DOMAIN shown : shown[j].value \notin KnownValues \cup {Null}}}

\* count_unknown: occurrences, so that a post delivered again is not counted twice.
KeysOf(shown) ==
  {<<i, shown[i].value>> : i \in {j \in DOMAIN shown : shown[j].value \notin KnownValues \cup {Null}}}

\* upsert_posts under OWNERSHIP: the row as it was shown last.
Upserted(shown, seen) ==
  [i \in Ids |-> IF i \notin DOMAIN shown THEN posts[i]
                 ELSE [author |-> shown[i].author, score |-> shown[i].score,
                       value |-> shown[i].value, identity |-> seen, sweep |-> sweep]]

\* Slip: a snapshot for a new post only.
Moved_New(i, look) == i \notin Stored

\* _snapshot_needed, _snapshots.
Moved(i, look) == i \notin Stored \/ posts[i].score # look.score

\* insert_item_snapshots.
Snapped(shown) ==
  [i \in Ids |-> IF i \in DOMAIN shown /\ Moved(i, shown[i]) THEN Append(numbers[i], shown[i].score)
                 ELSE numbers[i]]

\* Slip: counted before the page is written.
Count_Before(rows, a) == Cardinality({i \in Stored : posts[i].author = a})

\* recount_authors' subquery.
Count(rows, a) == Cardinality({i \in Ids : rows[i].sweep > 0 /\ rows[i].author = a})

\* _author_writes: the page's authors.
Touched(shown) == {shown[i].author : i \in DOMAIN shown} \ {Null}

\* upsert_authors and recount_authors.
Recounted(shown, rows) ==
  [a \in Authors |-> IF a \in Touched(shown) THEN Count(rows, a) ELSE authors[a]]

\* insert_rejects: how many of the page's items are.
Rejected(bad) == IF Normalised(Delivered(bad)).row THEN 0 ELSE 1

\* write_page, one transaction; the loop folds its counts when it has committed.
WritePage(shown, bad, seen) ==
  LET rows == Upserted(shown, seen)
  IN  /\ posts' = rows /\ numbers' = Snapped(shown) /\ authors' = Recounted(shown, rows)
      /\ rejects' = rejects + Rejected(bad) /\ counted' = counted + Rejected(bad)
      /\ keys' = keys \cup KeysOf(shown)

RolledBack == UNCHANGED <<posts, numbers, authors, rejects, counted, keys>>

\* Slip: the listing's identity is looked at after the page is in the tables.
Page_WrittenFirst(shown, bad, seen) ==
  /\ sweeping /\ pages < MaxPages
  /\ WritePage(shown, bad, seen) /\ pages' = pages + 1
  /\ sweeping' = ~Foreign(seen)
  /\ observed' = IF observed = Null THEN seen ELSE observed
  /\ UNCHANGED <<identity, sweep, loaded>>

\* One turn of _page_loop: a foreign listing ends the source before anything is written, a
\* refused transaction after nothing was.
Page(shown, bad, seen) ==
  /\ sweeping /\ pages < MaxPages /\ pages' = pages + 1
  /\ \/ ~Foreign(seen) /\ WritePage(shown, bad, seen) /\ sweeping' = TRUE
     \/ RolledBack /\ sweeping' = FALSE
  /\ observed' = IF observed = Null THEN seen ELSE observed
  /\ UNCHANGED <<identity, sweep, loaded>>

\* set_subreddit_identity.
Adopted(seen) == IF loaded = Null THEN seen ELSE identity

\* _finish_subreddit's success path: a source without an identity adopts the first it saw.
Finish ==
  /\ sweeping /\ pages > 0 /\ sweeping' = FALSE
  /\ identity' = Adopted(observed)
  /\ UNCHANGED <<posts, numbers, authors, rejects, sweep, loaded, observed, pages, counted, keys>>

-----------------------------------------------------------------------------
(* What the run's own checks make of the rows it wrote.                     *)

\* _floor_population_stmt's window.
Written == {i \in Stored : posts[i].sweep = sweep}

\* floor_population: posts whose author is known.
FloorPopulation == {i \in Written : posts[i].author # Null}

\* unknown_enum_occurrences.
Occurrences ==
  {<<i, posts[i].value>> : i \in {j \in Written : posts[j].value \notin KnownValues \cup {Null}}}

\* unknown_enum_values_are_counted and population_floors_hold, at the end of the sweep.
Complaints ==
  IF sweeping THEN {}
  ELSE {c \in {"enum", "floors"} :
          \/ c = "enum" /\ Cardinality(Occurrences) # Cardinality(keys)
          \/ c = "floors" /\ Written # {} /\ FloorPopulation = {}}

Pages == UNION {[s -> Looks] : s \in SUBSET Ids}

IngestNext ==
  \/ BeginSweep \/ Finish
  \/ \E shown \in Pages, bad \in BOOLEAN, seen \in Identities \cup {Null} : Page(shown, bad, seen)

IngestSpec == IngestInit /\ [][IngestNext]_ingestVars

-----------------------------------------------------------------------------
(* Properties.                                                              *)

\* Once a source has an identity it keeps it, and no listing that names another is written
\* into its posts: what a sweep that knew the identity wrote carries it, or none.
IdentityStep ==
  /\ identity # Null => identity' = identity
  /\ \A i \in Ids : posts'[i] # posts[i] /\ loaded # Null => posts'[i].identity \in {loaded, Null}

IdentityHolds == [][IdentityStep]_ingestVars

\* The tables agree with one another across redelivered, refused and repeated pages: the
\* last snapshot of a post is its row's score and two in a row differ, no author is counted
\* below the posts that name them, every unknown value this sweep stored was counted as one
\* occurrence, the rejects counter is the rejects table, and the run's own checks complain
\* only of what Reddit showed: a value that changed under it, posts nobody is known to have
\* written.
TablesAgree ==
  /\ \A i \in Stored : /\ numbers[i][Len(numbers[i])] = posts[i].score
                       /\ \A n \in 1 .. Len(numbers[i]) - 1 : numbers[i][n] # numbers[i][n + 1]
  /\ \A a \in Authors : LET n == Count(posts, a)
                        IN  n > 0 => authors[a] # Null /\ authors[a] >= n
  /\ Occurrences \subseteq keys
  /\ "enum" \in Complaints => \E key \in keys : posts[key[1]].value # key[2]
  /\ "floors" \in Complaints => \A i \in Written : posts[i].author = Null
  /\ rejects = counted
=============================================================================
