------------------------- MODULE SourceSweepProofs -------------------------
(***************************************************************************)
(* The sweep of one source, for every size of listing, page and cap and    *)
(* every overlap, failure and crash.  The argument follows the window: the *)
(* pages fetched so far cover, without a hole, the slots from the cursor   *)
(* up to a post at least as new as the first page's head, and the window's *)
(* minimum and maximum lie in that stretch.                                *)
(***************************************************************************)
EXTENDS SourceSweep, TLAPS, FiniteSetTheorems

-----------------------------------------------------------------------------
(* The listing's arithmetic.                                                *)

\* The cap holds at least one page.
LEMMA CapHoldsAPage == Cap \in Nat /\ Cap >= PageSize
<1>1. \A m, n \in Nat \ {0} : m * n \in Nat /\ m * n >= m
  OBVIOUS
<1> QED BY <1>1, PagingAssumption DEF Cap

\* The oldest slot served is a post, or the first slot of an empty listing.
LEMMA OldestType ==
  ASSUME TypeOK
  PROVE  Oldest \in Nat \ {0} /\ (Oldest <= top \/ Oldest = 1)
  BY CapHoldsAPage, SweepAssumption, PagingAssumption DEF TypeOK, Oldest

\* A page's slots: from lo, no older than the oldest slot, up to a published post;
\* a page that stops short of the oldest slot ends on a post.
LEMMA PageSlots ==
  ASSUME TypeOK, NEW o \in 0 .. MaxOverlap
  PROVE  /\ PageTop(cursor, o) \in 0 .. top
         /\ PageEnd(cursor, o) \in Nat \ {0}
         /\ PageEnd(cursor, o) >= Oldest
         /\ PageEnd(cursor, o) # Oldest =>
              PageEnd(cursor, o) \in Posts /\ PageEnd(cursor, o) <= top
<1>1. top \in Nat /\ top <= LastPost /\ LastPost \in Nat /\ o \in Nat
      /\ (cursor = Null \/ cursor \in Nat \ {0})
  BY SweepAssumption, PagingAssumption DEF TypeOK, Posts
<1>2. PageTop(cursor, o) \in 0 .. top
  BY <1>1 DEF PageTop
<1>3. PageSize \in Nat \ {0} /\ PageSize - Pinned \in Nat \ {0}
  BY SweepAssumption, PagingAssumption
<1> QED BY <1>1, <1>2, <1>3, OldestType DEF PageEnd, Posts

\* The slots of a page are finitely many, and so is the store.
LEMMA FinitePosts ==
  ASSUME NEW S \in SUBSET (0 .. LastPost)
  PROVE  IsFiniteSet(S) /\ Cardinality(S) \in Nat
<1>1. IsFiniteSet(0 .. LastPost)
  BY SweepAssumption, FS_Interval
<1> QED BY <1>1, FS_Subset, FS_CardinalityType

-----------------------------------------------------------------------------
(* Types.                                                                   *)

LEMMA FetchType ==
  ASSUME TypeOK, NEW o \in 0 .. MaxOverlap, Fetch(o) PROVE TypeOK'
<1> DEFINE hi       == PageTop(cursor, o)
           lo       == PageEnd(cursor, o)
           shown    == (lo .. hi) \ hidden
           accepted == shown \ Malformed
           sticky   == IF cursor = Null /\ Pinned = 1 THEN {0} ELSE {}
           times    == {Created[x] : x \in accepted}
           pinnedAt == {Created[x] : x \in sticky}
<1>1. shown \in SUBSET (0 .. LastPost) /\ sticky \in SUBSET (0 .. LastPost)
  BY PageSlots, SweepAssumption DEF TypeOK
<1>2. Cardinality(shown) \in Nat /\ Cardinality(sticky) \in Nat
  BY <1>1, FinitePosts
<1>3. times \subseteq Nat /\ pinnedAt \subseteq Nat
  BY <1>1, SweepAssumption
<1>4. minSeen' \in Nat \cup {Null} /\ maxSeen' \in Nat \cup {Null}
  BY <1>3 DEF Fetch, TypeOK
<1>5. itemsSeen' \in Nat
  BY <1>2 DEF Fetch, TypeOK
<1>6. page' \in [items : SUBSET (0 .. LastPost), low : Nat, after : Posts \cup {Null}, cap : BOOLEAN]
  <2>1. accepted \cup sticky \in SUBSET (0 .. LastPost)
    BY <1>1
  <2>2. lo \in Nat /\ (lo # Oldest => lo \in Posts)
    BY PageSlots
  <2>3. PlanCap(accepted \cup sticky # {}, itemsSeen') \in BOOLEAN
    BY DEF PlanCap
  <2> QED BY <2>1, <2>2, <2>3 DEF Fetch
<1>7. pages' \in Nat /\ phase' = "write" /\ begun' \in 0 .. LastPost
  BY DEF Fetch, TypeOK
<1> QED BY <1>4, <1>5, <1>6, <1>7 DEF Fetch, TypeOK, redditVars, sourceVars

\* Every step keeps every variable in its type.
LEMMA TypeStep == TypeOK /\ [Next]_vars => TypeOK'
<1> SUFFICES ASSUME TypeOK, [Next]_vars PROVE TypeOK'
  OBVIOUS
<1> USE SweepAssumption DEF TypeOK, redditVars, sourceVars, stateVars
<1>1. CASE UNCHANGED vars
  BY <1>1 DEF vars
<1>2. CASE Publish
  BY <1>2 DEF Publish
<1>3. ASSUME NEW x \in Posts, Remove(x) PROVE TypeOK'
  BY <1>3 DEF Remove, Posts
<1>4. CASE Begin
  BY <1>4, FinitePosts DEF Begin, Stops
<1>5. ASSUME NEW o \in 0 .. MaxOverlap, Fetch(o) PROVE TypeOK'
  BY <1>5, FetchType
<1>6. CASE CommitPage
  <2>1. NewRows \in Nat
    <3>1. page.items \ stored \in SUBSET (0 .. LastPost)
      OBVIOUS
    <3> QED BY <3>1, FinitePosts DEF NewRows
  <2>2. PageStop \in Stops
    BY DEF PageStop, EndOfListing, Stops
  <2>3. phase' \in {"page", "finish"} /\ cursor' \in Posts \cup {Null}
    BY <1>6 DEF CommitPage
  <2>4. row' \in Stops \cup {"none", "error"} /\ stop' \in Stops \cup FailureKinds
    BY <1>6, <2>2 DEF CommitPage, Stops
  <2>5. stored' \subseteq 0 .. LastPost
    <3>1. page.items \subseteq 0 .. LastPost
      OBVIOUS
    <3> QED BY <1>6, <3>1 DEF CommitPage
  <2>6. postsNew' \in Nat
    BY <1>6, <2>1 DEF CommitPage
  <2> QED BY <1>6, <2>3, <2>4, <2>5, <2>6 DEF CommitPage
<1>7. CASE CloseFailed
  BY <1>7 DEF CloseFailed, FailedReason, Disables
<1>8. CASE CloseInterrupted
  BY <1>8 DEF CloseInterrupted, Stops
<1>9. CASE CloseSwept
  <2>1. watermark' \in Nat \cup {Null}
    BY <1>9 DEF CloseSwept, Advanced
  <2>2. gapAt' \in BOOLEAN
    BY <1>9 DEF CloseSwept, GapSuspected
  <2>3. polled' \in Nat \cup {Null}
    BY <1>9 DEF CloseSwept
  <2>4. horizon' \in Nat
    BY <1>9 DEF CloseSwept
  <2> QED BY <1>9, <2>1, <2>2, <2>3, <2>4 DEF CloseSwept, Stops
<1>10. ASSUME NEW kind \in FailureKinds, FetchFails(kind) PROVE TypeOK'
  BY <1>10 DEF FetchFails, Fault
<1>11. CASE PageFails
  BY <1>11 DEF PageFails, Fault, FailureKinds
<1>12. CASE Interrupted
  BY <1>12 DEF Interrupted, Fault, Stops
<1>13. CASE CloseFails
  BY <1>13 DEF CloseFails, Fault
<1>14. CASE Abort
  BY <1>14 DEF Abort, Fault
<1>15. CASE Crash
  BY <1>15, FinitePosts DEF Crash, Fault
<1> QED
  BY <1>1, <1>2, <1>3, <1>4, <1>5, <1>6, <1>7, <1>8, <1>9, <1>10, <1>11, <1>12, <1>13,
     <1>14, <1>15 DEF Next, Step

LEMMA TypeInit == Init => TypeOK
<1> SUFFICES ASSUME Init PROVE TypeOK
  OBVIOUS
<1>1. page \in [items : SUBSET (0 .. LastPost), low : Nat, after : Posts \cup {Null}, cap : BOOLEAN]
  <2>1. {} \in SUBSET (0 .. LastPost) /\ 1 \in Nat /\ FALSE \in BOOLEAN
    OBVIOUS
  <2> QED BY <2>1 DEF Init, NoPage
<1>2. /\ row \in Stops \cup {"none", "error"} /\ stop \in Stops \cup FailureKinds
      /\ status \in FailureKinds \cup {"ok"} /\ phase \in {"idle", "page", "write", "finish"}
  BY DEF Init, Stops
<1>3. top \in 0 .. LastPost /\ begun \in 0 .. LastPost /\ faults \in 0 .. MaxFaults
  BY SweepAssumption DEF Init
<1> QED BY <1>1, <1>2, <1>3 DEF Init, TypeOK

\* The state of the sweep, the source and the store stay in their types.
THEOREM TypeCorrect == Spec => []TypeOK
  BY TypeInit, TypeStep, PTL DEF Spec

-----------------------------------------------------------------------------
(* The counters.                                                            *)

\* What a set adds to the store.
LEMMA Added ==
  ASSUME NEW S \in SUBSET (0 .. LastPost), NEW T \in SUBSET (0 .. LastPost)
  PROVE  Cardinality(S \cup T) = Cardinality(S) + Cardinality(T \ S)
<1>1. IsFiniteSet(S) /\ IsFiniteSet(T \ S)
      /\ Cardinality(S) \in Nat /\ Cardinality(T \ S) \in Nat
  BY FinitePosts
<1>2. S \cap (T \ S) = {} /\ S \cup (T \ S) = S \cup T
  OBVIOUS
<1>3. Cardinality(S \cup (T \ S))
        = Cardinality(S) + Cardinality(T \ S) - Cardinality(S \cap (T \ S))
  BY <1>1, FS_Union
<1>4. Cardinality(S \cap (T \ S)) = 0
  BY <1>2, FS_EmptySet
<1>5. Cardinality(S \cup (T \ S)) = Cardinality(S) + Cardinality(T \ S)
  BY <1>1, <1>3, <1>4
<1> QED BY <1>2, <1>5

\* The run's counter equals the rows it added to the table, after every step: the
\* invariant that fails a run never fails one that counts this way.
THEOREM CountersAgree == Spec => []CountersEqualDeltas
<1>1. Init => CountersEqualDeltas
  BY FS_EmptySet DEF Init, CountersEqualDeltas
<1>2. TypeOK /\ CountersEqualDeltas /\ [Next]_vars => CountersEqualDeltas'
  <2> SUFFICES ASSUME TypeOK, CountersEqualDeltas, [Next]_vars PROVE CountersEqualDeltas'
    OBVIOUS
  <2>1. CASE CommitPage
    <3>1. Cardinality(stored') = Cardinality(stored) + NewRows
      BY <2>1, Added DEF CommitPage, NewRows, TypeOK
    <3>2. NewRows \in Nat
      BY FinitePosts DEF NewRows, TypeOK
    <3> QED BY <2>1, <3>1, <3>2 DEF CommitPage, CountersEqualDeltas, TypeOK
  <2>2. CASE Begin \/ Crash
    BY <2>2, FinitePosts DEF Begin, Crash, CountersEqualDeltas, TypeOK
  <2>3. CASE ~(CommitPage \/ Begin \/ Crash)
    <3>1. UNCHANGED <<stored, postsNew, baseline>>
      BY <2>3 DEF Next, Step, vars, Publish, Remove, Fetch, CloseFailed, CloseInterrupted,
                  CloseSwept, FetchFails, PageFails, Interrupted, CloseFails, Abort
    <3> QED BY <3>1 DEF CountersEqualDeltas
  <2> QED BY <2>1, <2>2, <2>3
<1> QED BY <1>1, <1>2, TypeCorrect, PTL DEF Spec

-----------------------------------------------------------------------------
(* The window.                                                              *)

\* Fewer posts arrive during a sweep than a page holds.
SlowDrift == MaxDrift < PageSize

\* Every post has a second of its own.
OwnSecond == \A x, y \in 0 .. LastPost : x < y => Created[x] < Created[y]

\* Without a hole, from slot low up to a post at least as new as the first page's
\* head, the posts to be had are had, and the window's ends lie in that stretch.
Covers(low, have) ==
  \E h \in begun .. top :
    /\ \A x \in low .. h : Obtainable(x) => x \in have
    /\ minSeen # Null => \E y \in low .. h : minSeen = Created[y]
    /\ maxSeen # Null => \E z \in low .. h : maxSeen = Created[z]

\* Whole pages have been gone through down to slot c.
Depth(c) == c >= begun - pages * PageSize + Pinned + 1

RowInProgress == phase # "idle" => row \in {"none", "null"}
Fresh == phase = "page" /\ cursor = Null => pages = 0 /\ minSeen = Null /\ maxSeen = Null
WatermarkIsPost == watermark # Null => \E b \in 1 .. top : watermark = Created[b]

SweepBounds ==
  /\ begun <= top
  /\ phase # "idle" /\ pages > 0 =>
       /\ top <= begun + MaxDrift
       /\ watermark # Null => \E b \in 1 .. begun : watermark = Created[b]

\* Between two pages: covered from the cursor up.
AtBoundary ==
  phase = "page" /\ cursor # Null =>
    pages > 0 /\ cursor <= begun /\ Depth(cursor) /\ Covers(cursor, stored)

\* A page in hand: covered once it is written; its end, the next cursor or the end
\* of the listing.
PageInHand ==
  phase = "write" =>
    /\ pages > 0
    /\ page.after # Null =>
         /\ page.after = page.low /\ page.low <= begun
         /\ Depth(page.low) /\ Covers(page.low, stored \cup page.items)
    /\ \E low \in 1 .. page.low : Covers(low, stored \cup page.items)
    /\ page.after = Null /\ pages < CapPages => page.low = 1

\* A sweep that ended by itself: covered from its last slot up, all of it if exhausted.
Ended ==
  phase = "finish" /\ stop \in {"exhausted", "cap"} =>
    /\ pages > 0
    /\ \E low \in 1 .. page.low : Covers(low, stored)
    /\ stop = "exhausted" => page.low = 1

Window == RowInProgress /\ Fresh /\ WatermarkIsPost /\ SweepBounds
            /\ AtBoundary /\ PageInHand /\ Ended

LEMMA WindowInit == Init => Window
  BY SweepAssumption
  DEF Init, Window, RowInProgress, Fresh, WatermarkIsPost, SweepBounds, AtBoundary,
      PageInHand, Ended

\* Reddit's steps, which leave the sweep alone, keep what is covered covered: a new
\* post is newer than the stretch and a removed one is no longer to be had.
LEMMA CoveredStays ==
  ASSUME TypeOK, Publish \/ (\E x \in Posts : Remove(x)),
         NEW low \in Nat, NEW have, Covers(low, have)
  PROVE  Covers(low, have)'
<1>1. UNCHANGED <<begun, minSeen, maxSeen>> /\ hidden \subseteq hidden'
      /\ top' \in {top, top + 1} /\ top \in Nat /\ begun \in Nat
  BY SweepAssumption DEF Publish, Remove, TypeOK, stateVars
<1>2. PICK h \in begun .. top :
         /\ \A x \in low .. h : Obtainable(x) => x \in have
         /\ minSeen # Null => \E y \in low .. h : minSeen = Created[y]
         /\ maxSeen # Null => \E z \in low .. h : maxSeen = Created[z]
  BY DEF Covers
<1>3. h \in begun' .. top' /\ h \in Nat
  BY <1>1, <1>2
<1>4. \A x \in low .. h : Obtainable(x)' => Obtainable(x)
  BY <1>1, <1>2 DEF Obtainable
<1> QED BY <1>1, <1>2, <1>3, <1>4 DEF Covers

LEMMA WindowReddit ==
  ASSUME TypeOK, Window, Publish \/ (\E x \in Posts : Remove(x))
  PROVE  Window'
<1> USE DEF Window
<1>1. /\ UNCHANGED <<stored, phase, row, cursor, pages, page, stop, begun, minSeen, maxSeen, watermark>>
      /\ top' \in {top, top + 1}
      /\ top' # top => phase = "idle" \/ pages = 0 \/ top < begun + MaxDrift
  BY DEF Publish, Remove, sourceVars, stateVars
<1>2. top \in Nat /\ begun \in Nat /\ pages \in Nat /\ MaxDrift \in Nat
  BY SweepAssumption DEF TypeOK
<1>3. RowInProgress' /\ Fresh'
  BY <1>1 DEF RowInProgress, Fresh
<1>4. WatermarkIsPost'
  BY <1>1, <1>2 DEF WatermarkIsPost
<1>5. SweepBounds'
  BY <1>1, <1>2 DEF SweepBounds
<1>6. AtBoundary'
  <2>1. SUFFICES ASSUME phase = "page", cursor # Null
                 PROVE  pages > 0 /\ cursor <= begun /\ Depth(cursor)' /\ Covers(cursor, stored)'
    BY <1>1 DEF AtBoundary
  <2>2. cursor \in Nat
    BY <2>1, SweepAssumption DEF TypeOK, Posts
  <2>3. Covers(cursor, stored)'
    BY <1>1, <2>1, <2>2, CoveredStays DEF AtBoundary
  <2> QED BY <1>1, <2>1, <2>3 DEF AtBoundary, Depth
<1>7. PageInHand'
  <2>1. SUFFICES ASSUME phase = "write" PROVE PageInHand'
    BY <1>1 DEF PageInHand
  <2>2. UNCHANGED (stored \cup page.items) /\ page.low \in Nat
    BY <1>1 DEF TypeOK
  <2>3. page.after # Null => Covers(page.low, stored \cup page.items)'
    BY <1>1, <2>1, <2>2, CoveredStays DEF PageInHand
  <2>4. PICK low \in 1 .. page.low : Covers(low, stored \cup page.items)
    BY <2>1 DEF PageInHand
  <2>5. PICK have : have = stored \cup page.items
    OBVIOUS
  <2>6. low \in Nat /\ Covers(low, have)
    BY <2>2, <2>4, <2>5
  <2>7. Covers(low, have)'
    BY <2>6, CoveredStays
  <2>8. Covers(low, stored \cup page.items)'
    BY <2>2, <2>5, <2>7 DEF Covers
  <2> QED BY <1>1, <2>1, <2>3, <2>4, <2>8 DEF PageInHand, Depth
<1>8. Ended'
  <2>1. SUFFICES ASSUME phase = "finish", stop \in {"exhausted", "cap"} PROVE Ended'
    BY <1>1 DEF Ended
  <2>2. page.low \in Nat
    BY DEF TypeOK
  <2>3. PICK low \in 1 .. page.low : Covers(low, stored)
    BY <2>1 DEF Ended
  <2>4. Covers(low, stored)'
    BY <1>1, <2>2, <2>3, CoveredStays
  <2> QED BY <1>1, <2>1, <2>3, <2>4 DEF Ended
<1> QED BY <1>3, <1>4, <1>5, <1>6, <1>7, <1>8

\* A page fetched: what the request showed joins the stretch below without a hole,
\* however many of the slots it repeats.
LEMMA WindowFetch ==
  ASSUME TypeOK, Window, SlowDrift, NEW o \in 0 .. MaxOverlap, Fetch(o)
  PROVE  PageInHand' /\ SweepBounds'
<1> DEFINE hi       == PageTop(cursor, o)
           lo       == PageEnd(cursor, o)
           accepted == ((lo .. hi) \ hidden) \ Malformed
           times    == {Created[x] : x \in accepted}
           Stretch(low, h) ==
             /\ \A x \in low .. h : Obtainable(x) => x \in stored \cup page'.items
             /\ minSeen' # Null => \E y \in low .. h : minSeen' = Created[y]
             /\ maxSeen' # Null => \E z \in low .. h : maxSeen' = Created[z]
<1>1. /\ phase = "page" /\ phase' = "write"
      /\ pages' = pages + 1 /\ UNCHANGED <<top, hidden, stored, watermark, cursor>>
      /\ begun' = IF cursor = Null THEN top ELSE begun
      /\ accepted \subseteq page'.items /\ page'.low = lo
      /\ page'.after = IF lo = Oldest THEN Null ELSE lo
  BY DEF Fetch, redditVars, sourceVars
<1>2. /\ minSeen' # Null => minSeen' \in times \/ minSeen' = minSeen
      /\ maxSeen' # Null => maxSeen' \in times \/ maxSeen' = maxSeen
  BY DEF Fetch, IsLow, IsHigh, WithWindow
<1>3. /\ top \in Nat /\ begun \in Nat /\ pages \in Nat /\ PageSize \in Nat \ {0}
      /\ MaxDrift \in Nat /\ Pinned \in {0, 1} /\ Pinned < PageSize /\ o \in Nat /\ o <= PageSize
      /\ cursor # Null => cursor \in Nat \ {0}
      /\ CapPages \in Nat \ {0} /\ Null \notin Int
  BY SweepAssumption, PagingAssumption DEF TypeOK, Posts
<1>4. hi \in 0 .. top /\ lo \in Nat \ {0} /\ lo >= Oldest /\ Oldest \in Nat \ {0}
  BY PageSlots, OldestType
<1>5. Cap \in Nat /\ Cap >= PageSize
      /\ \A k \in Nat : k <= CapPages => k * PageSize <= Cap
  <2>1. ASSUME NEW k \in Nat, k <= CapPages PROVE k * PageSize <= CapPages * PageSize
    BY <1>3, <2>1
  <2> QED BY <1>3, <2>1, CapHoldsAPage DEF Cap
<1>6. MaxDrift < PageSize
  BY DEF SlowDrift
<1>7. /\ \E low \in 1 .. lo, h \in begun' .. top : Stretch(low, h) /\ (lo # Oldest => low = lo)
      /\ lo # Oldest => lo <= begun' /\ Depth(page.low)'
      /\ lo = Oldest /\ pages + 1 < CapPages => lo = 1
  <2>1. CASE cursor = Null
    <3>1. /\ hi = top /\ begun' = top /\ pages = 0 /\ minSeen = Null /\ maxSeen = Null
          /\ lo >= top - (PageSize - Pinned) + 1
          /\ lo # Oldest => lo = top - (PageSize - Pinned) + 1
      BY <1>1, <1>3, <1>4, <2>1 DEF PageTop, PageEnd, Window, Fresh
    <3>2. Stretch(lo, top)
      BY <1>1, <1>2, <1>4, <3>1 DEF Obtainable
    <3>3. lo # Oldest => lo <= begun' /\ Depth(page.low)'
      <4>1. pages' * PageSize = PageSize
        BY <1>1, <1>3, <3>1
      <4> QED BY <1>1, <1>3, <3>1, <4>1 DEF Depth
    <3>4. lo = Oldest /\ pages + 1 < CapPages => lo = 1
      <4>1. CASE 1 < CapPages
        <5>1. 2 * PageSize <= Cap
          BY <1>3, <1>5, <4>1
        <5> QED BY <1>3, <1>4, <1>5, <3>1, <5>1 DEF Oldest
      <4> QED BY <1>3, <3>1, <4>1
    <3> QED BY <1>3, <1>4, <3>1, <3>2, <3>3, <3>4
  <2>2. CASE cursor # Null
    <3>1. /\ pages > 0 /\ cursor <= begun /\ Depth(cursor) /\ begun' = begun
          /\ top <= begun + MaxDrift
      BY <1>1, <2>2 DEF Window, AtBoundary, SweepBounds
    <3>2. PICK h \in begun .. top :
             /\ \A x \in cursor .. h : Obtainable(x) => x \in stored
             /\ minSeen # Null => \E y \in cursor .. h : minSeen = Created[y]
             /\ maxSeen # Null => \E z \in cursor .. h : maxSeen = Created[z]
      BY <1>1, <2>2 DEF Window, AtBoundary, Covers
    <3>3. /\ hi >= cursor - 1 /\ lo >= hi - PageSize + 1
          /\ lo # Oldest => lo = hi - PageSize + 1 /\ lo <= cursor
      BY <1>3, <1>4, <2>2, <3>1 DEF PageTop, PageEnd
    <3>4. Oldest <= begun + 1
      BY <1>3, <1>5, <1>6, <3>1 DEF Oldest
    <3>5. lo <= cursor \/ lo <= begun + 1
      BY <1>4, <3>3, <3>4
    <3>6. Stretch(IF lo <= cursor THEN lo ELSE cursor, IF h >= hi THEN h ELSE hi)
      <4> DEFINE l == IF lo <= cursor THEN lo ELSE cursor
                 g == IF h >= hi THEN h ELSE hi
      <4>1. /\ l \in Nat /\ l <= lo /\ l <= cursor /\ l \in {lo, cursor}
            /\ g \in Nat /\ g >= h /\ g >= hi /\ g \in {h, hi}
            /\ h \in Nat /\ hi \in Nat /\ lo \in Nat /\ cursor \in Nat /\ h >= begun
        BY <1>3, <1>4, <2>2, <3>2
      <4> HIDE DEF l, g
      <4>2. ASSUME NEW x \in l .. g, Obtainable(x) PROVE x \in stored \cup page'.items
        <5>1. CASE x \in cursor .. h
          BY <3>2, <4>2, <5>1
        <5>2. CASE x \in lo .. hi
          BY <1>1, <4>2, <5>2 DEF Obtainable
        <5>3. x \in cursor .. h \/ x \in lo .. hi
          BY <1>3, <3>3, <3>5, <4>1
        <5> QED BY <5>1, <5>2, <5>3
      <4>3. lo .. hi \subseteq l .. g /\ cursor .. h \subseteq l .. g
        BY <4>1
      <4>4. minSeen' # Null => \E y \in l .. g : minSeen' = Created[y]
        BY <1>2, <3>2, <4>3
      <4>5. maxSeen' # Null => \E z \in l .. g : maxSeen' = Created[z]
        BY <1>2, <3>2, <4>3
      <4> QED BY <4>2, <4>4, <4>5 DEF l, g
    <3>7. lo # Oldest => lo <= begun' /\ Depth(page.low)'
      <4>1. pages' * PageSize = pages * PageSize + PageSize
        BY <1>1, <1>3
      <4> QED BY <1>1, <1>3, <1>4, <2>2, <3>1, <3>3, <4>1 DEF Depth
    <3>8. lo = Oldest /\ pages + 1 < CapPages => lo = 1
      <4>1. SUFFICES ASSUME lo = Oldest, pages + 1 < CapPages PROVE lo = 1
        OBVIOUS
      <4>2. (pages + 2) * PageSize <= Cap
        <5>1. pages + 2 \in Nat /\ pages + 2 <= CapPages
          BY <1>3, <4>1
        <5> QED BY <1>5, <5>1
      <4>3. (pages + 2) * PageSize = pages * PageSize + 2 * PageSize
        BY <1>3
      <4>4. cursor >= begun - pages * PageSize + Pinned + 1
        BY <3>1 DEF Depth
      <4> QED BY <1>3, <1>4, <1>5, <1>6, <2>2, <3>1, <3>3, <4>1, <4>2, <4>3, <4>4 DEF Oldest
    <3>9. (IF h >= hi THEN h ELSE hi) \in begun' .. top
          /\ (IF lo <= cursor THEN lo ELSE cursor) \in 1 .. lo
          /\ (lo # Oldest => (IF lo <= cursor THEN lo ELSE cursor) = lo)
      BY <1>3, <1>4, <2>2, <3>1, <3>2, <3>3
    <3> HIDE DEF Stretch
    <3> QED BY <3>6, <3>7, <3>8, <3>9
  <2> QED BY <2>1, <2>2
<1>8. ASSUME NEW low \in Nat, NEW h \in begun' .. top, Stretch(low, h)
      PROVE  Covers(low, stored \cup page.items)'
  BY <1>1, <1>8 DEF Covers, Obtainable
<1>9. PageInHand'
  <2> HIDE DEF Stretch
  <2>1. pages' > 0 /\ lo \in Nat /\ page'.low = lo
    BY <1>1, <1>3, <1>4
  <2>2. PICK low \in 1 .. lo, h \in begun' .. top : Stretch(low, h) /\ (lo # Oldest => low = lo)
    BY <1>7
  <2>3. Covers(low, stored \cup page.items)'
    BY <1>4, <1>8, <2>2
  <2>4. page'.after # Null =>
          /\ page'.after = page'.low /\ page'.low <= begun'
          /\ Depth(page.low)' /\ Covers(page.low, stored \cup page.items)'
    BY <1>1, <1>7, <2>1, <2>2, <2>3
  <2>5. page'.after = Null /\ pages' < CapPages => page'.low = 1
    BY <1>1, <1>3, <1>4, <1>7
  <2> QED BY <1>1, <2>1, <2>2, <2>3, <2>4, <2>5 DEF PageInHand
<1>10. SweepBounds'
  BY <1>1, <1>3 DEF Window, WatermarkIsPost, SweepBounds, AtBoundary, Fresh
<1> QED BY <1>9, <1>10

\* A page committed: the store now has it, and the loop goes on below its last slot
\* or ends there.
LEMMA WindowCommit ==
  ASSUME TypeOK, Window, CommitPage PROVE Window'
<1> USE DEF Window
<1>1. /\ phase = "write" /\ stored' = stored \cup page.items /\ stop' = PageStop
      /\ row' = "null" /\ phase' \in {"page", "finish"}
      /\ UNCHANGED <<top, hidden, watermark, pages, minSeen, maxSeen, begun, page>>
      /\ phase' = "page" => PageStop = "null" /\ cursor' = page.after
      /\ phase' = "finish" => cursor' = cursor
  BY DEF CommitPage, redditVars, sourceVars
<1>2. /\ PageStop = "null" => page.after # Null
      /\ PageStop = "exhausted" => page.after = Null /\ ~(pages >= CapPages)
  BY DEF PageStop, EndOfListing
<1>3. pages \in Nat /\ CapPages \in Nat
  BY PagingAssumption DEF TypeOK
<1>4. \A low : Covers(low, stored \cup page.items) => Covers(low, stored)'
  BY <1>1 DEF Covers, Obtainable
<1>5. RowInProgress' /\ Fresh' /\ WatermarkIsPost' /\ SweepBounds' /\ PageInHand'
  BY <1>1, <1>2 DEF RowInProgress, Fresh, WatermarkIsPost, SweepBounds, PageInHand
<1>6. AtBoundary'
  <2>1. CASE phase' = "page"
    <3>1. /\ pages' > 0 /\ cursor' = page.low /\ cursor' <= begun' /\ Depth(page.low)
          /\ Covers(page.low, stored \cup page.items)
      BY <1>1, <1>2, <2>1 DEF PageInHand
    <3>2. Covers(cursor, stored)'
      BY <1>1, <3>1 DEF Covers, Obtainable
    <3> QED BY <1>1, <2>1, <3>1, <3>2 DEF AtBoundary, Depth
  <2> QED BY <1>1, <2>1 DEF AtBoundary
<1>7. Ended'
  <2>1. PICK low \in 1 .. page.low : Covers(low, stored \cup page.items)
    BY <1>1 DEF PageInHand
  <2>2. Covers(low, stored)'
    BY <1>4, <2>1
  <2>3. PageStop = "exhausted" => page.low = 1
    BY <1>1, <1>2, <1>3 DEF PageInHand
  <2> QED BY <1>1, <2>1, <2>2, <2>3 DEF Ended, PageInHand
<1> QED BY <1>5, <1>6, <1>7

\* The source closed: its watermark is still the time of a published post.
LEMMA WindowClose ==
  ASSUME TypeOK, Window, CloseSwept PROVE Window'
<1> USE DEF Window
<1>1. /\ phase' = "idle" /\ UNCHANGED <<top, hidden, begun>>
      /\ watermark' = Advanced(watermark, maxSeen)
      /\ phase = "finish" /\ stop \in {"exhausted", "cap"}
  BY DEF CloseSwept, redditVars, stateVars
<1>2. maxSeen # Null => \E z \in 1 .. top : maxSeen = Created[z]
  <2>1. PICK low \in 1 .. page.low : Covers(low, stored)
    BY <1>1 DEF Ended
  <2> QED BY <2>1 DEF Covers, TypeOK
<1>3. WatermarkIsPost'
  BY <1>1, <1>2 DEF WatermarkIsPost, Advanced
<1> QED BY <1>1, <1>3 DEF RowInProgress, Fresh, SweepBounds, AtBoundary, PageInHand, Ended

LEMMA WindowStep == TypeOK /\ Window /\ SlowDrift /\ [Next]_vars => Window'
<1> SUFFICES ASSUME TypeOK, Window, SlowDrift, [Next]_vars PROVE Window'
  OBVIOUS
<1> USE DEF redditVars, sourceVars, stateVars
<1>1. CASE Publish \/ (\E x \in Posts : Remove(x))
  BY <1>1, WindowReddit
<1>2. ASSUME NEW o \in 0 .. MaxOverlap, Fetch(o) PROVE Window'
  <2>1. PageInHand' /\ SweepBounds'
    BY <1>2, WindowFetch
  <2>2. phase = "page" /\ phase' = "write" /\ UNCHANGED <<top, watermark, row>>
    BY <1>2 DEF Fetch
  <2> QED BY <2>1, <2>2 DEF Window, RowInProgress, Fresh, WatermarkIsPost, AtBoundary, Ended
<1>3. CASE CommitPage
  BY <1>3, WindowCommit
<1>4. CASE CloseSwept
  BY <1>4, WindowClose
<1>5. ASSUME UNCHANGED <<top, hidden, stored, watermark, row, cursor, pages, minSeen, maxSeen, begun, page>>,
             \/ phase' = phase /\ stop' = stop
             \/ phase' = "finish" /\ stop' \notin {"exhausted", "cap"} /\ phase # "idle"
             \/ phase' = "idle"
      PROVE  Window'
  BY <1>5 DEF Window, RowInProgress, Fresh, WatermarkIsPost, SweepBounds, AtBoundary,
              PageInHand, Ended, Covers, Obtainable, Depth
<1>6. CASE UNCHANGED vars
  BY <1>5, <1>6 DEF vars
<1>7. CASE \/ \E kind \in FailureKinds : FetchFails(kind)
           \/ PageFails \/ Interrupted \/ CloseFails \/ Abort \/ Crash
  BY <1>5, <1>7 DEF FetchFails, FailureKinds, PageFails, Interrupted, CloseFails, Abort, Crash
<1>8. CASE Begin
  BY <1>8 DEF Begin, Window, RowInProgress, Fresh, WatermarkIsPost, SweepBounds, AtBoundary,
              PageInHand, Ended
<1>9. CASE CloseFailed \/ CloseInterrupted
  BY <1>9 DEF CloseFailed, CloseInterrupted, Window, RowInProgress, Fresh, WatermarkIsPost,
              SweepBounds, AtBoundary, PageInHand, Ended
<1> QED BY <1>1, <1>2, <1>3, <1>4, <1>6, <1>7, <1>8, <1>9 DEF Next, Step

\* The types and the window hold throughout.
LEMMA WindowAlways == SlowDrift => (Spec => [](TypeOK /\ Window))
<1> SUFFICES ASSUME SlowDrift PROVE Spec => [](TypeOK /\ Window)
  OBVIOUS
<1>1. TypeOK /\ Window /\ [Next]_vars => (TypeOK /\ Window)'
  BY TypeStep, WindowStep
<1> QED BY <1>1, TypeInit, WindowInit, PTL DEF Spec

-----------------------------------------------------------------------------
(* What the close of a sweep claims.                                        *)

\* The steps other than the close of a swept source leave its claims alone.
LEMMA ClaimsStand ==
  ASSUME [Next]_vars, ~CloseSwept
  PROVE  UNCHANGED <<watermark, polled, gapAt, horizon>>
  BY DEF Next, Step, vars, sourceVars, Begin, Publish, Remove, Fetch, CommitPage, CloseFailed,
         CloseInterrupted, FetchFails, PageFails, Interrupted, CloseFails, Abort, Crash

\* Nothing is taken out of the store, and what is newly to be had is a new post.
LEMMA StoreGrows ==
  ASSUME TypeOK, [Next]_vars
  PROVE  stored \subseteq stored' /\ \A x \in 1 .. top : Obtainable(x)' => Obtainable(x)
<1>1. stored \subseteq stored' /\ hidden \subseteq hidden'
  BY DEF Next, Step, vars, redditVars, Begin, Publish, Remove, Fetch, CommitPage, CloseFailed,
         CloseInterrupted, CloseSwept, FetchFails, PageFails, Interrupted, CloseFails, Abort, Crash
<1> QED BY <1>1 DEF Obtainable

\* `exhausted` is never a lie: the listing was seen to its true end, whatever was
\* published, removed, repeated or interrupted, if fewer posts arrive during a sweep
\* than a page holds.
THEOREM ExhaustedIsAll == SlowDrift => (Spec => []ExhaustedMeansAll)
<1> SUFFICES ASSUME SlowDrift PROVE Spec => []ExhaustedMeansAll
  OBVIOUS
<1>1. Init => ExhaustedMeansAll
  BY DEF Init, ExhaustedMeansAll
<1>2. TypeOK /\ Window /\ ExhaustedMeansAll /\ [Next]_vars => ExhaustedMeansAll'
  <2> SUFFICES ASSUME TypeOK, Window, ExhaustedMeansAll, [Next]_vars PROVE ExhaustedMeansAll'
    OBVIOUS
  <2>1. CASE CloseSwept
    <3>1. SUFFICES ASSUME row' = "exhausted", NEW x \in 1 .. begun', Obtainable(x)'
                   PROVE  x \in stored'
      BY DEF ExhaustedMeansAll
    <3>2. UNCHANGED <<top, hidden, stored, begun>> /\ stop = "exhausted" /\ phase = "finish"
      BY <2>1, <3>1 DEF CloseSwept, redditVars, stateVars
    <3>3. Covers(1, stored)
      BY <3>2 DEF Window, Ended
    <3> QED BY <3>1, <3>2, <3>3 DEF Covers, Obtainable, TypeOK
  <2>2. CASE ~CloseSwept /\ UNCHANGED <<phase, row, begun>>
    <3>1. \A x \in 1 .. begun : Obtainable(x)' => Obtainable(x)
      BY StoreGrows DEF Window, SweepBounds, TypeOK
    <3> QED BY <2>2, <3>1, StoreGrows DEF ExhaustedMeansAll
  <2>3. CASE ~CloseSwept /\ ~UNCHANGED <<phase, row, begun>>
    <3>1. phase' = "idle" => row' # "exhausted"
      BY <2>3 DEF Window, RowInProgress, Next, Step, vars, redditVars, sourceVars, stateVars,
                  Begin, Publish, Remove, Fetch, CommitPage, CloseFailed, FailedReason,
                  CloseInterrupted, FetchFails, PageFails, Interrupted, CloseFails, Abort, Crash
    <3> QED BY <3>1 DEF ExhaustedMeansAll
  <2> QED BY <2>1, <2>2, <2>3
<1> QED BY <1>1, <1>2, WindowAlways, PTL DEF Spec

\* A stamped poll reached what was known: posts that share a second included, every
\* newer post of the first page's time is in the store, under the same condition.
THEOREM StampsReach == SlowDrift => (Spec => StampMeansReached)
<1> SUFFICES ASSUME SlowDrift PROVE Spec => StampMeansReached
  OBVIOUS
<1> DEFINE Reached ==
      polled' # polled =>
        \A x \in 1 .. polled' :
          Obtainable(x) /\ (watermark = Null \/ Created[x] > watermark) => x \in stored
<1>1. TypeOK /\ Window /\ [Next]_vars => [Reached]_vars
  <2> SUFFICES ASSUME TypeOK, Window, [Next]_vars, polled' # polled,
                      NEW x \in 1 .. polled', Obtainable(x),
                      watermark = Null \/ Created[x] > watermark
               PROVE  x \in stored
    OBVIOUS
  <2>1. CloseSwept
    BY ClaimsStand
  <2> DEFINE gap == stop = "cap" /\ GapSuspected(minSeen, watermark)
  <2>2. polled' = begun /\ CoverageProven(stop, watermark, gap) /\ phase = "finish"
        /\ stop \in {"exhausted", "cap"}
    BY <2>1 DEF CloseSwept
  <2>3. PICK low \in 1 .. page.low : Covers(low, stored) /\ (stop = "exhausted" => low = 1)
    BY <2>2 DEF Window, Ended, TypeOK
  <2>4. PICK h \in begun .. top :
           /\ \A y \in low .. h : Obtainable(y) => y \in stored
           /\ minSeen # Null => \E y \in low .. h : minSeen = Created[y]
    BY <2>3 DEF Covers
  <2>5. x <= h /\ x \in Nat /\ h \in Nat /\ h <= LastPost /\ LastPost \in Nat
    BY <2>2, <2>4, SweepAssumption DEF TypeOK
  <2>6. CASE stop = "exhausted"
    BY <2>3, <2>4, <2>5, <2>6
  <2>7. CASE stop = "cap"
    <3>1. watermark # Null /\ minSeen # Null /\ ~(minSeen > watermark)
      BY <2>2, <2>7 DEF CoverageProven, GapSuspected
    <3>2. PICK y \in low .. h : minSeen = Created[y]
      BY <2>4, <3>1
    <3>3. x \in 0 .. LastPost /\ y \in 0 .. LastPost /\ low \in Nat
      BY <2>3, <2>4, <2>5, <3>2
    <3>4. Created[y] < Created[x]
      BY <3>1, <3>2, <3>3, SweepAssumption DEF TypeOK
    <3>5. y < x
      BY <3>3, <3>4, SweepAssumption
    <3> QED BY <2>4, <2>5, <3>3, <3>5
  <2> QED BY <2>2, <2>6, <2>7
<1> QED BY <1>1, WindowAlways, PTL DEF Spec, StampMeansReached

\* No post is lost in silence: when each post has a second of its own, what Reddit
\* still shows from the first closed window up to the watermark is in the store, or
\* the source is flagged.
THEOREM NothingLost == SlowDrift /\ OwnSecond => (Spec => []NothingLostInSilence)
<1> SUFFICES ASSUME SlowDrift, OwnSecond PROVE Spec => []NothingLostInSilence
  OBVIOUS
<1>1. Init => NothingLostInSilence
  BY DEF Init, NothingLostInSilence
<1>2. TypeOK /\ Window /\ NothingLostInSilence /\ [Next]_vars => NothingLostInSilence'
  <2> SUFFICES ASSUME TypeOK, Window, NothingLostInSilence, [Next]_vars,
                      NEW x \in Posts, Obtainable(x)', x >= horizon',
                      watermark' # Null, Created[x] <= watermark', ~gapAt'
               PROVE  x \in stored'
    BY DEF NothingLostInSilence
  <2>0. /\ x \in 0 .. LastPost /\ LastPost \in Nat /\ top \in Nat /\ begun \in Nat
        /\ \A y \in 0 .. LastPost : Created[y] \in Nat
        /\ top <= LastPost
    BY SweepAssumption DEF Posts, TypeOK
  <2>1. CASE ~CloseSwept
    <3>1. UNCHANGED <<watermark, gapAt, horizon>>
      BY <2>1, ClaimsStand
    <3>2. PICK b \in 1 .. top : watermark = Created[b]
      BY <3>1 DEF Window, WatermarkIsPost
    <3>3. x <= b
      BY <2>0, <3>1, <3>2 DEF OwnSecond
    <3>4. Obtainable(x)
      BY <2>0, <3>2, <3>3, StoreGrows DEF Posts
    <3> QED BY <3>1, <3>4, StoreGrows DEF NothingLostInSilence
  <2>2. CASE CloseSwept
    <3>1. /\ UNCHANGED <<top, hidden, stored, begun>>
          /\ phase = "finish" /\ stop \in {"exhausted", "cap"}
          /\ watermark' = Advanced(watermark, maxSeen)
          /\ horizon' = IF stop = "exhausted" THEN 1
                        ELSE IF watermark = Null THEN page.low ELSE horizon
          /\ stop = "cap" => ~gapAt /\ ~GapSuspected(minSeen, watermark)
      BY <2>2 DEF CloseSwept, redditVars, stateVars
    <3>2. PICK low \in 1 .. page.low : Covers(low, stored) /\ (stop = "exhausted" => low = 1)
      BY <3>1 DEF Window, Ended, TypeOK
    <3>3. PICK h \in begun .. top :
             /\ \A y \in low .. h : Obtainable(y) => y \in stored
             /\ minSeen # Null => \E y \in low .. h : minSeen = Created[y]
             /\ maxSeen # Null => \E z \in low .. h : maxSeen = Created[z]
      BY <3>2 DEF Covers
    <3>4. \E b \in 1 .. h : watermark' = Created[b]
      <4>1. watermark # Null => \E b \in 1 .. h : watermark = Created[b]
        BY <2>0, <3>1, <3>3 DEF Window, SweepBounds, Ended
      <4> QED BY <3>1, <3>2, <3>3, <4>1 DEF Advanced
    <3>5. x <= h
      BY <2>0, <3>3, <3>4 DEF OwnSecond
    <3>6. Obtainable(x)
      BY <3>1 DEF Obtainable
    <3>7. x >= low => x \in stored
      BY <2>0, <3>2, <3>3, <3>5, <3>6
    <3>8. CASE stop = "exhausted" \/ watermark = Null
      BY <3>1, <3>2, <3>7, <3>8, <2>0 DEF TypeOK, Posts
    <3>9. CASE stop = "cap" /\ watermark # Null
      <4>1. CASE Created[x] <= watermark
        BY <3>1, <3>6, <3>9, <4>1 DEF NothingLostInSilence
      <4>2. CASE ~(Created[x] <= watermark)
        <5>1. minSeen # Null /\ ~(minSeen > watermark)
          BY <3>1, <3>9 DEF GapSuspected
        <5>2. PICK y \in low .. h : minSeen = Created[y]
          BY <3>3, <5>1
        <5>3. y \in 0 .. LastPost /\ low \in Nat
          BY <2>0, <3>2, <3>3, <5>2
        <5>4. Created[y] < Created[x]
          BY <2>0, <3>9, <4>2, <5>1, <5>2, <5>3 DEF TypeOK
        <5>5. y < x
          BY <2>0, <5>3, <5>4, SweepAssumption
        <5> QED BY <2>0, <3>1, <3>7, <5>2, <5>3, <5>5
      <4> QED BY <4>1, <4>2
    <3> QED BY <3>1, <3>8, <3>9
  <2> QED BY <2>1, <2>2
<1> QED BY <1>1, <1>2, WindowAlways, PTL DEF Spec
=============================================================================
