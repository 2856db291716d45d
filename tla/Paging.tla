------------------------------- MODULE Paging -------------------------------
(***************************************************************************)
(* The pure rules of the `/new` sweep (core/paging.py) and the rules that  *)
(* services/sweep.py applies to their results.  Null is SQL's NULL and     *)
(* Python's None.  Minima and maxima are characterised, not computed.      *)
(***************************************************************************)
EXTENDS Integers, FiniteSets

CONSTANTS
  PageSize,   \* LISTING_PAGE_SIZE
  CapPages,   \* CAP_PAGES
  Null

ASSUME PagingAssumption ==
  /\ PageSize \in Nat \ {0}
  /\ CapPages \in Nat \ {0}
  /\ Null \notin Int

\* DEFAULT_CAP: the slots Reddit serves of a listing and the sweep accepts.
Cap == PageSize * CapPages

-----------------------------------------------------------------------------
(* SweepState.absorb: the window of the non-stickied items seen so far.     *)

\* The timestamps the new minimum or maximum is taken over.
WithWindow(times, stickies, old) == times \cup (IF old = Null THEN {} ELSE {old})

IsLow(m, S)  == IF S = {} THEN m = Null ELSE m \in S /\ \A t \in S : m <= t
IsHigh(m, S) == IF S = {} THEN m = Null ELSE m \in S /\ \A t \in S : m >= t

\* plan_stop: a page with nothing accepted never stops the sweep by itself, and
\* `cap` is reached by slots, duplicates and rejects included.
PlanCap(nonEmpty, itemsSeen) == nonEmpty /\ itemsSeen >= Cap

-----------------------------------------------------------------------------
(* What the end of a sweep means.                                           *)

\* gap_suspected: nothing known, no gap; nothing seen, a gap.
GapSuspected(seenMin, known) ==
  /\ known # Null
  /\ \/ seenMin = Null
     \/ seenMin # Null /\ seenMin > known

\* Slip: whatever ended the listing, it was exhausted (the defect KI-018 fixed).
EndOfListing_Exhausted(pages) == "exhausted"

\* An end of listing on the tenth page cannot be told from Reddit's cap.
EndOfListing(pages) == IF pages >= CapPages THEN "cap" ELSE "exhausted"

\* Slip: the gap is not looked at.
CoverageProven_DespiteGap(stop, known, gap) ==
  stop = "exhausted" \/ (stop = "cap" /\ known # Null)

\* _coverage_proven: may last_complete_poll_at be stamped?
CoverageProven(stop, known, gap) ==
  stop = "exhausted" \/ (stop = "cap" /\ known # Null /\ ~gap)

\* advance_watermark: never backward, never to NULL.
Advanced(known, seenMax) ==
  IF seenMax = Null THEN known
  ELSE IF known = Null \/ known < seenMax THEN seenMax ELSE known

-----------------------------------------------------------------------------
(* _FAILURE_TABLE: the failures of one source, and when each disables it.   *)

FailureKinds == {"forbidden", "not_found", "redirect", "quarantined", "error"}

\* record_subreddit_failure's disable_at test; Null never disables.
Disables(disableAt, failures) == disableAt # Null /\ failures >= disableAt
=============================================================================
