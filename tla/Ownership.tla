----------------------------- MODULE Ownership ------------------------------
(***************************************************************************)
(* Who may write which column (db/ownership.py) and the one generator that *)
(* turns the declaration into statements (db/repo.py), under pages of the  *)
(* sweep and trees of the comment stage that write the same posts and the  *)
(* same author in any order.  The comments' terminal guard is StoredItem's *)
(* matter, their parents are Trees'.                                       *)
(***************************************************************************)
EXTENDS Naturals, FiniteSets, FiniteSetsExt

CONSTANTS
  Posts,      \* posts by the time they were created, all by one author
  Titles,     \* what a page may show of a post
  AuthorReplies,  \* when the author's comments below them were created
  Rungs,      \* the length of the revisit ladder
  MaxClock    \* bound: transactions

ASSUME OwnershipAssumption ==
  /\ Posts \subseteq Nat /\ AuthorReplies \subseteq Nat /\ IsFiniteSet(Posts \cup AuthorReplies)
  /\ {Rungs, MaxClock} \subseteq Nat

VARIABLES
  rows,       \* posts: a row per post, a function from columns; Unwritten for none
  provenance, \* post_sources: first_seen_at of each post from this source, Unwritten for none
  person,     \* authors: the author's row
  clock,
  born, shownLast, trees, sightings   \* history: when a post was first written, what the last
                                      \* page showed, trees stamped, times the author was seen at

ownedVars == <<rows, provenance, person, clock, born, shownLast, trees, sightings>>

Unwritten == << >>

OwnershipInit ==
  /\ rows = [p \in Posts |-> Unwritten] /\ provenance = [p \in Posts |-> Unwritten] /\ person = Unwritten
  /\ clock = 0 /\ born = [p \in Posts |-> 0] /\ shownLast = [p \in Posts |-> {}]
  /\ trees = [p \in Posts |-> 0] /\ sightings = {}

-----------------------------------------------------------------------------
(* The declaration: a column of each kind.                                  *)

PostColumns == {"created_utc", "title", "first_seen_at", "last_fetched_at", "check_stage"}

Declared(update, monotonic) == [update |-> update, monotonic |-> monotonic]

\* Slip: the sweep refreshes the ladder's columns with the row.
PostsOfTheSweep_Whole == Declared(PostColumns \ {"created_utc", "first_seen_at"}, {})

\* OWNERSHIP[posts, SUBREDDIT_NEW]: the rung and what was first seen never move.
PostsOfTheSweep == Declared({"title", "last_fetched_at"}, {})

\* Slip: provenance is refreshed like a post.
SourcesOfTheSweep_Refreshed == Declared({"first_seen_at"}, {})

\* OWNERSHIP[post_sources, SUBREDDIT_NEW]: DO NOTHING.
SourcesOfTheSweep == Declared({}, {})

\* _authors_row.
AuthorsOfEveryPath == Declared({"last_seen_at"}, {"last_seen_at"})

\* Slip: the last write wins, a page of older posts included.
Fragment_Plain(own, old, new, c) == new[c]

\* _set_fragment, of a row that is not deleted.
Fragment(own, old, new, c) == IF c \in own.monotonic THEN Max({old[c], new[c]}) ELSE new[c]

\* _upsert_for: INSERT, ON CONFLICT DO UPDATE of the declared columns, or DO NOTHING.
Merged(own, old, new) ==
  IF old = Unwritten THEN new
  ELSE [c \in DOMAIN old |-> IF c \in own.update THEN Fragment(own, old, new, c) ELSE old[c]]

-----------------------------------------------------------------------------
(* The statements.                                                          *)

\* post_values: a new post stands at the foot of the ladder, and every write says so.
PostValues(p, title) ==
  [created_utc |-> p, title |-> title, first_seen_at |-> clock + 1, last_fetched_at |-> clock + 1,
   check_stage |-> 0]

\* post_source_values.
SourceValues == [first_seen_at |-> clock + 1]

\* author_values: the time is the newest item's, on this page or in this tree.
AuthorValues(times) == [first_seen_at |-> Max(times), last_seen_at |-> Max(times)]

\* stamp_tree_on_post: an UPDATE by key of the tree's columns.
Stamped(row, rung) == [row EXCEPT !.check_stage = rung]

WriteAuthor(times) ==
  /\ person' = IF times = {} THEN person ELSE Merged(AuthorsOfEveryPath, person, AuthorValues(times))
  /\ sightings' = sightings \cup times

\* The posts, the provenance and the author of one page, in one transaction.
SweptPage(shown) ==
  /\ clock < MaxClock /\ clock' = clock + 1
  /\ rows' = [p \in Posts |-> IF p \in DOMAIN shown
                              THEN Merged(PostsOfTheSweep, rows[p], PostValues(p, shown[p]))
                              ELSE rows[p]]
  /\ provenance' = [p \in Posts |-> IF p \in DOMAIN shown
                                    THEN Merged(SourcesOfTheSweep, provenance[p], SourceValues)
                                    ELSE provenance[p]]
  /\ WriteAuthor(DOMAIN shown)
  /\ born' = [p \in Posts |-> IF born[p] = 0 /\ p \in DOMAIN shown THEN clock + 1 ELSE born[p]]
  /\ shownLast' = [p \in Posts |-> IF p \in DOMAIN shown THEN {shown[p]} ELSE shownLast[p]]
  /\ UNCHANGED trees

\* One tree: its comments' authors, and the stamp, one rung up.
FetchedTree(p, times) ==
  /\ clock < MaxClock /\ clock' = clock + 1
  /\ rows[p] # Unwritten /\ rows[p].check_stage < Rungs
  /\ rows' = [rows EXCEPT ![p] = Stamped(@, @.check_stage + 1)]
  /\ WriteAuthor(times)
  /\ trees' = [trees EXCEPT ![p] = @ + 1]
  /\ UNCHANGED <<provenance, born, shownLast>>

OwnershipNext ==
  \/ \E on \in SUBSET Posts \ {{}} : \E shown \in [on -> Titles] : SweptPage(shown)
  \/ \E p \in Posts, times \in SUBSET AuthorReplies : FetchedTree(p, times)

OwnershipSpec == OwnershipInit /\ [][OwnershipNext]_ownedVars

-----------------------------------------------------------------------------
(* Properties.                                                              *)

\* Whatever the order of pages and trees: a post shows what the last page showed, stands on
\* the rung its trees climbed, and keeps the moment it was first seen, as its provenance
\* does; and the author was last seen at the newest of his items, although a sweep pages
\* from new to old.
OwnersAgree ==
  /\ \A p \in Posts : rows[p] # Unwritten =>
       /\ {rows[p].title} = shownLast[p] /\ rows[p].check_stage = trees[p]
       /\ rows[p].first_seen_at = born[p] /\ rows[p].first_seen_at <= rows[p].last_fetched_at
       /\ provenance[p].first_seen_at = born[p]
  /\ person # Unwritten =>
       person.last_seen_at = Max(sightings) /\ person.first_seen_at \in sightings
=============================================================================
