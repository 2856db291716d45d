----------------------------- MODULE SourceSweep -----------------------------
(***************************************************************************)
(* One source swept by one run after another while Reddit's listing moves. *)
(*                                                                         *)
(* The listing is Reddit's: posts are numbered in the order they were      *)
(* created, the newest first on the page, at most Cap slots are served     *)
(* counting from the newest, and a removed post keeps its slot but is not  *)
(* delivered (external, as the repository's fake gateway serves it).  The  *)
(* sweep pages forward from a cursor, commits each page in a transaction   *)
(* of its own (T5), and closes the source in another (T6).  A run may die, *)
(* be stopped at a boundary or fail a step anywhere in between; nothing    *)
(* but the database survives it.  Runs of different processes never        *)
(* overlap: that is Collector.tla's MutualExclusion.                       *)
(***************************************************************************)
EXTENDS Paging

CONSTANTS
  LastPost,     \* bound: posts published
  Created,      \* created_utc of each post; Created[0] is the pinned sticky's
  Malformed,    \* posts normalize_post rejects
  Pinned,       \* 1 when a sticky heads the listing, else 0
  MaxOverlap,   \* how many slots a page may repeat of the one before
  MaxDrift,     \* bound: posts published between a sweep's first page and its last
  MaxPages,     \* MAX_PAGES_PER_SUBREDDIT
  MaxHidden,    \* bound: posts removed
  MaxFaults,    \* bound: failed, interrupted and killed steps
  DisableAt     \* REDIRECT_DISABLE_AFTER, QUARANTINE_DISABLE_AFTER by kind

Posts == 1 .. LastPost

ASSUME SweepAssumption ==
  /\ LastPost \in Nat
  /\ Created \in [0 .. LastPost -> Nat]
  /\ \A x \in 0 .. LastPost, y \in 0 .. LastPost : x < y => Created[x] <= Created[y]
  /\ Malformed \subseteq Posts
  /\ Pinned \in {0, 1} /\ Pinned < PageSize
  /\ MaxOverlap \in 0 .. PageSize
  /\ MaxDrift \in Nat /\ MaxPages \in Nat /\ MaxHidden \in Nat /\ MaxFaults \in Nat
  /\ DisableAt \in [FailureKinds -> (Nat \ {0}) \cup {Null}]

VARIABLES
  \* Reddit
  top,        \* the newest post published; 1 .. top exist
  hidden,     \* the posts removed
  \* the database
  stored,     \* the posts in table `posts`
  watermark,  \* subreddits.watermark_created_utc
  polled,     \* last_complete_poll_at, as the newest post when that sweep began
  gapAt,      \* gap_suspected_at is not NULL
  status, failures, enabled,  \* subreddits.status, consecutive_failures, enabled
  row,        \* run_subreddits.stop_reason of the latest run, "none" for no row
  \* the run in memory
  phase,      \* "idle", "page" (at a boundary), "write" (page in hand), "finish"
  cursor,     \* the post to continue after, Null before the first page
  pages,      \* pages fetched
  itemsSeen, minSeen, maxSeen,   \* SweepState
  page,       \* the page in hand: [items, low, after, cap]
  stop,       \* how the loop ended; a failure kind when a step failed
  postsNew,   \* ctx.counters.posts_new
  baseline,   \* ctx.baseline_counts["posts"]
  \* history, for the properties
  begun,      \* the newest post when the sweep fetched its first page
  horizon,    \* the oldest slot of the first sweep that closed
  streak,     \* failures in a row of the kind the source's status names
  faults

redditVars == <<top, hidden>>
sourceVars == <<watermark, polled, gapAt, status, failures, enabled, horizon, streak>>
stateVars  == <<cursor, pages, itemsSeen, minSeen, maxSeen, begun>>
vars == <<redditVars, stored, sourceVars, row, phase, stateVars, page, stop,
          postsNew, baseline, faults>>

NoPage == [items |-> {}, low |-> 1, after |-> Null, cap |-> FALSE]
Stops  == {"null", "exhausted", "cap"}

TypeOK ==
  /\ top \in 0 .. LastPost
  /\ hidden \subseteq Posts
  /\ stored \subseteq 0 .. LastPost
  /\ watermark \in Nat \cup {Null}
  /\ polled \in Nat \cup {Null}
  /\ gapAt \in BOOLEAN
  /\ status \in FailureKinds \cup {"ok"}
  /\ failures \in Nat
  /\ enabled \in BOOLEAN
  /\ row \in Stops \cup {"none", "error"}
  /\ phase \in {"idle", "page", "write", "finish"}
  /\ cursor \in Posts \cup {Null}
  /\ pages \in Nat
  /\ itemsSeen \in Nat
  /\ minSeen \in Nat \cup {Null} /\ maxSeen \in Nat \cup {Null}
  /\ page \in [items : SUBSET (0 .. LastPost), low : Nat, after : Posts \cup {Null}, cap : BOOLEAN]
  /\ stop \in Stops \cup FailureKinds
  /\ postsNew \in Nat /\ baseline \in Nat
  /\ begun \in 0 .. LastPost
  /\ horizon \in Nat
  /\ streak \in Nat
  /\ faults \in 0 .. MaxFaults

Init ==
  /\ top \in 0 .. LastPost /\ hidden = {}
  /\ stored = {} /\ watermark = Null /\ polled = Null /\ gapAt = FALSE
  /\ status = "ok" /\ failures = 0 /\ enabled = TRUE /\ row = "none"
  /\ phase = "idle" /\ cursor = Null /\ pages = 0 /\ itemsSeen = 0
  /\ minSeen = Null /\ maxSeen = Null /\ page = NoPage /\ stop = "null"
  /\ postsNew = 0 /\ baseline = 0
  /\ begun = 0 /\ horizon = 1 /\ streak = 0 /\ faults = 0

-----------------------------------------------------------------------------
(* Reddit.                                                                  *)

\* A post appears at the head of the listing; during the paging, MaxDrift of them.
Publish ==
  /\ top < LastPost
  /\ phase = "idle" \/ pages = 0 \/ top < begun + MaxDrift
  /\ top' = top + 1
  /\ UNCHANGED <<hidden, stored, sourceVars, row, phase, stateVars, page, stop,
                 postsNew, baseline, faults>>

Remove(x) ==
  /\ x \in 1 .. top \ hidden /\ Cardinality(hidden) < MaxHidden
  /\ hidden' = hidden \cup {x}
  /\ UNCHANGED <<top, stored, sourceVars, row, phase, stateVars, page, stop,
                 postsNew, baseline, faults>>

\* The oldest post the listing still serves: the cap counts slots from the newest.
Oldest == IF top > Cap - Pinned THEN top - (Cap - Pinned) + 1 ELSE 1

\* The slots of the page after c that repeats o of the page before it.
PageTop(c, o) == IF c = Null \/ c - 1 + o > top THEN top ELSE c - 1 + o
PageEnd(c, o) ==
  LET room == IF c = Null THEN PageSize - Pinned ELSE PageSize
      end  == PageTop(c, o) - room + 1
  IN  IF end < Oldest THEN Oldest ELSE end

-----------------------------------------------------------------------------
(* The run.                                                                 *)

Fault == faults < MaxFaults /\ faults' = faults + 1

\* Slip: the sweep resumes where the last one stopped.
Begin_Resuming ==
  /\ phase = "idle" /\ enabled
  /\ phase' = "page"
  /\ pages' = 0 /\ itemsSeen' = 0 /\ minSeen' = Null /\ maxSeen' = Null
  /\ postsNew' = 0 /\ baseline' = Cardinality(stored)
  /\ row' = "none"
  /\ UNCHANGED <<redditVars, stored, sourceVars, cursor, begun, page, stop, faults>>

\* A run reaches this source.  It reads the source's row once; nobody else
\* writes it while the run lasts.
Begin ==
  /\ phase = "idle" /\ enabled
  /\ phase' = "page"
  /\ cursor' = Null /\ pages' = 0 /\ itemsSeen' = 0 /\ minSeen' = Null /\ maxSeen' = Null
  /\ postsNew' = 0 /\ baseline' = Cardinality(stored)
  /\ row' = "none"
  /\ UNCHANGED <<redditVars, stored, sourceVars, begun, page, stop, faults>>

\* One request, normalised and absorbed.  The window takes in the accepted posts
\* alone; the rejected ones count as slots.
Fetch(o) ==
  /\ phase = "page" /\ pages < MaxPages
  /\ LET hi       == PageTop(cursor, o)
         lo       == PageEnd(cursor, o)
         shown    == (lo .. hi) \ hidden
         accepted == shown \ Malformed
         sticky   == IF cursor = Null /\ Pinned = 1 THEN {0} ELSE {}
         times    == {Created[x] : x \in accepted}
         pinnedAt == {Created[x] : x \in sticky}
         seen     == itemsSeen + Cardinality(shown) + Cardinality(sticky)
     IN  /\ itemsSeen' = seen
         /\ \E m \in times \cup pinnedAt \cup {minSeen} :
              minSeen' = m /\ IsLow(m, WithWindow(times, pinnedAt, minSeen))
         /\ \E m \in times \cup pinnedAt \cup {maxSeen} :
              maxSeen' = m /\ IsHigh(m, WithWindow(times, pinnedAt, maxSeen))
         /\ page' = [items |-> accepted \cup sticky,
                     low   |-> lo,
                     after |-> IF lo = Oldest THEN Null ELSE lo,
                     cap   |-> PlanCap(accepted \cup sticky # {}, seen)]
         /\ begun' = IF cursor = Null THEN top ELSE begun
  /\ pages' = pages + 1
  /\ phase' = "write"
  /\ UNCHANGED <<redditVars, stored, sourceVars, row, cursor, stop, postsNew, baseline, faults>>

\* new_posts: the page's posts that the store did not have.
NewRows == Cardinality(page.items \ stored)

\* The loop decides: the cap first, then the end of the listing; a cursor that
\* does not advance proves nothing.
PageStop ==
  IF page.cap THEN "cap"
  ELSE IF page.after = Null THEN EndOfListing(pages)
  ELSE "null"

\* T5 commits, then its counters are folded.
CommitPage ==
  /\ phase = "write"
  /\ stored' = stored \cup page.items
  /\ postsNew' = postsNew + NewRows
  /\ row' = "null"
  /\ stop' = PageStop
  /\ LET ends == PageStop # "null" \/ page.after = cursor
     IN  /\ phase' = IF ends THEN "finish" ELSE "page"
         /\ cursor' = IF ends THEN cursor ELSE page.after
  /\ UNCHANGED <<redditVars, sourceVars, pages, itemsSeen, minSeen, maxSeen, begun, page,
                 baseline, faults>>

\* The fetch fails for this source, after its ladder of retries.
FetchFails(kind) ==
  /\ phase = "page" /\ Fault
  /\ stop' = kind
  /\ phase' = "finish"
  /\ UNCHANGED <<redditVars, stored, sourceVars, row, stateVars, page, postsNew, baseline>>

\* Slip: the page's posts are counted before its transaction commits.
PageFails_Counted ==
  /\ phase = "write" /\ Fault
  /\ stop' = "error"
  /\ phase' = "finish"
  /\ postsNew' = postsNew + NewRows
  /\ UNCHANGED <<redditVars, stored, sourceVars, row, stateVars, page, baseline>>

\* T5 rolls back (OperationalError, IntegrityError): a per-source failure.
PageFails ==
  /\ phase = "write" /\ Fault
  /\ stop' = "error"
  /\ phase' = "finish"
  /\ UNCHANGED <<redditVars, stored, sourceVars, row, stateVars, page, postsNew, baseline>>

\* _interrupted_before_page: the ceiling or the budget (a fault), or too many pages.
Interrupted ==
  /\ phase = "page"
  /\ \/ Fault
     \/ pages >= MaxPages /\ UNCHANGED faults
  /\ stop' = "null"
  /\ phase' = "finish"
  /\ UNCHANGED <<redditVars, stored, sourceVars, row, stateVars, page, postsNew, baseline>>

FailedReason == "error"

\* T6 after a failure: the status, and perhaps the end of the source.
CloseFailed ==
  /\ phase = "finish" /\ stop \in FailureKinds
  /\ row' = FailedReason
  /\ status' = stop
  /\ failures' = failures + 1
  /\ enabled' = (enabled /\ ~Disables(DisableAt[stop], failures + 1))
  /\ streak' = IF status = stop THEN streak + 1 ELSE 1
  /\ phase' = "idle"
  /\ UNCHANGED <<redditVars, stored, watermark, polled, gapAt, horizon, stateVars, page, stop,
                 postsNew, baseline, faults>>

\* Slip: an interrupted sweep moves the watermark too.
CloseInterrupted_Advancing ==
  /\ phase = "finish" /\ stop = "null"
  /\ row' = "null"
  /\ watermark' = Advanced(watermark, maxSeen)
  /\ phase' = "idle"
  /\ UNCHANGED <<redditVars, stored, polled, gapAt, status, failures, enabled, horizon, streak,
                 stateVars, page, stop, postsNew, baseline, faults>>

\* T6 after an interruption: the row and nothing else.
CloseInterrupted ==
  /\ phase = "finish" /\ stop = "null"
  /\ row' = "null"
  /\ phase' = "idle"
  /\ UNCHANGED <<redditVars, stored, sourceVars, stateVars, page, stop, postsNew, baseline, faults>>

\* T6 after a complete or capped sweep.
CloseSwept ==
  /\ phase = "finish" /\ stop \in {"exhausted", "cap"}
  /\ LET gap == stop = "cap" /\ GapSuspected(minSeen, watermark)
     IN  /\ polled' = IF CoverageProven(stop, watermark, gap) THEN begun ELSE polled
         /\ gapAt' = IF stop = "exhausted" THEN FALSE ELSE gapAt \/ gap
  /\ watermark' = Advanced(watermark, maxSeen)
  /\ horizon' = IF stop = "exhausted" THEN 1
                ELSE IF watermark = Null THEN page.low ELSE horizon
  /\ row' = stop
  /\ status' = "ok" /\ failures' = 0
  /\ streak' = 0
  /\ phase' = "idle"
  /\ UNCHANGED <<redditVars, stored, enabled, stateVars, page, stop, postsNew, baseline, faults>>

\* T6 rolls back: the source keeps its state and its last progress row.
CloseFails ==
  /\ phase = "finish" /\ Fault
  /\ phase' = "idle"
  /\ UNCHANGED <<redditVars, stored, sourceVars, row, stateVars, page, stop, postsNew, baseline>>

\* RunTerminalError (a second 429, no network, bad credentials): the run closes
\* without closing the source.
Abort ==
  /\ phase = "page" /\ Fault
  /\ phase' = "idle"
  /\ UNCHANGED <<redditVars, stored, sourceVars, row, stateVars, page, stop, postsNew, baseline>>

\* The process dies; its counters are never compared with anything.
Crash ==
  /\ phase # "idle" /\ Fault
  /\ phase' = "idle"
  /\ postsNew' = 0 /\ baseline' = Cardinality(stored)
  /\ UNCHANGED <<redditVars, stored, sourceVars, row, stateVars, page, stop>>

Step == Begin \/ (\E o \in 0 .. MaxOverlap : Fetch(o)) \/ CommitPage
          \/ CloseFailed \/ CloseInterrupted \/ CloseSwept

Next == \/ Publish \/ (\E x \in Posts : Remove(x))
        \/ Step
        \/ (\E kind \in FailureKinds : FetchFails(kind))
        \/ PageFails \/ Interrupted \/ CloseFails \/ Abort \/ Crash

Spec == Init /\ [][Next]_vars
-----------------------------------------------------------------------------
(* Properties.                                                              *)

\* A post the store can be asked for: published, still there, well formed.
Obtainable(x) == x \in 1 .. top \ (hidden \cup Malformed)

\* No post is lost in silence: whatever Reddit still shows from the first closed
\* sweep's window up to the watermark is in the store, or the source carries its
\* gap flag -- across kills, interruptions and failures at any step, with posts
\* arriving and vanishing between two pages.
NothingLostInSilence ==
  \A x \in Posts :
    Obtainable(x) /\ x >= horizon /\ watermark # Null /\ Created[x] <= watermark =>
      x \in stored \/ gapAt

\* `exhausted` on the row of a run is the claim that the listing was seen to its
\* true end: every post that existed at the first page is in the store.
ExhaustedMeansAll ==
  phase = "idle" /\ row = "exhausted" =>
    \A x \in 1 .. begun : Obtainable(x) => x \in stored

\* Stamping last_complete_poll_at claims the sweep reached what was known: every
\* newer post that existed when it began is in the store, gap flag or not.
StampMeansReached ==
  [][polled' # polled =>
       \A x \in 1 .. polled' :
         Obtainable(x) /\ (watermark = Null \/ Created[x] > watermark) => x \in stored]_vars

\* The run's counter equals what the run added to the table, whatever rolled back
\* and however often a post was delivered: the invariant that fails a run.
CountersEqualDeltas == baseline + postsNew = Cardinality(stored)

-----------------------------------------------------------------------------
(* Fairness: runs keep coming and a run that can step does.                 *)

FairSpec == Spec /\ WF_vars(Step)

\* Once a source has a watermark, every new post is stored in the end, unless it
\* vanishes, is rejected, or the source is flagged or disabled.
NewPostsArrive ==
  \A x \in Posts :
    watermark # Null /\ Created[x] > watermark ~>
      x \in stored \cup hidden \cup Malformed \/ x > top \/ gapAt \/ ~enabled

-----------------------------------------------------------------------------
(* What the repository says of itself and the code does not quite do.       *)

\* The comment of gap_suspected: no watermark means nothing is known of the
\* source, so there can be no gap between what is known and the window.
KnownPostsBoundGaps ==
  \A x, y \in Posts :
    Obtainable(x) /\ watermark # Null /\ Created[x] <= watermark /\ y \in stored /\ y < x =>
      x \in stored \/ gapAt

\* The message of the disable: that many results of that status in a row.
DisabledAfterARow ==
  ~enabled /\ DisableAt[status] # Null => streak >= DisableAt[status]
=============================================================================
