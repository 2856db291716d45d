----------------------------- MODULE FakeWorld ------------------------------
(***************************************************************************)
(* One post or comment in the in-memory Reddit that the demo and the tests *)
(* run against (adapters/reddit_fake): what its builders make of it, which *)
(* of listing, tree and info() show it, and what `decide` then concludes.  *)
(* The fake stands in for Reddit wherever the rules of deletion are tried, *)
(* so a look at it has to tell what was done to the item.                  *)
(***************************************************************************)
EXTENDS Deletion, FakeStatus

CONSTANTS
  Bodytexts,   \* what posts and comments of the scenarios are written with
  MaxVanish,   \* bound: lookups a vanished item may miss
  MaxOmitted   \* bound: omissions counted

ASSUME WorldAssumption ==
  /\ Bodytexts \subseteq Texts /\ {MaxVanish, MaxOmitted} \subseteq Nat
  /\ Null \notin [body : Bodies, named : BOOLEAN, category : Categories] \cup Nat

VARIABLES
  sort, leaf,          \* "self", "link" or "comment"; a comment without replies
  wire, original,      \* the stored payload; _originals, Null for none
  state, removedBy,    \* _state and removals
  vanished,            \* _vanished: lookups still to be missed, Null for ever, 0 for none
  dropped,             \* _dropped
  infoReturns,         \* the subreddit's info_returns; its status is `banned`
  row,                 \* the item's row: content, author, misses
  looked,              \* history: what the last look at the item as it now is has shown
  stood,               \* history: the row was deleted_by_author before that look
  overwritten,         \* history: edited since it was made a tombstone
  inherited            \* history: a tombstone already when it was loaded

itemVars == <<sort, leaf, wire, original, state, removedBy, vanished, dropped, infoReturns,
              row, looked, stood, overwritten, inherited>>
worldVars == <<itemVars, banned>>

Removers == {"moderator", "reddit", "author"}

\* add_post, add_comment: a link post has no text of its own.
Payload(body, named, category) == [body |-> body, named |-> named, category |-> category]
Untouched == {Payload(t, TRUE, Null) : t \in IF sort = "link" THEN {EmptyText} ELSE Bodytexts}

\* _insert_post and _insert_comment: the state is read off the markers.
StateOf(w) ==
  IF w.category = "deleted" \/ w.body = DeletedMarker THEN "deleted"
  ELSE IF w.category # Null \/ w.body = RemovedMarker THEN "removed" ELSE "live"

RemoverOf(w) ==
  IF StateOf(w) # "removed" THEN Null ELSE IF w.category = Null THEN "moderator" ELSE w.category

WorldInit ==
  /\ sort \in {"self", "link", "comment"} /\ leaf \in BOOLEAN
  /\ wire \in Untouched /\ original = Null
  /\ state \in {"live"} \cup (IF sort = "comment" THEN {} ELSE {"hidden"}) /\ removedBy = Null
  /\ vanished = 0 /\ dropped = FALSE /\ banned = FALSE /\ infoReturns = TRUE
  /\ row = [content |-> "live", author |-> "known", misses |-> 0]
  /\ looked = "nothing" /\ stood = FALSE
  /\ overwritten = FALSE /\ inherited = FALSE

-----------------------------------------------------------------------------
(* What happens to the item.                                                *)

\* Slip: each change remembers what it found.
Remembered_Latest == wire

\* _remember: the payload before the first change.
Remembered == IF original = Null THEN wire ELSE original

\* The item as it now is has not been looked at.
Unseen == looked' = "nothing" /\ stood' = FALSE

Becomes(w, s, by, over) ==
  /\ wire' = w /\ original' = Remembered /\ state' = s /\ removedBy' = by
  /\ Unseen /\ overwritten' = over
  /\ UNCHANGED <<sort, leaf, vanished, dropped, banned, infoReturns, row, inherited>>

\* Slip: a link post shows only an empty text, which it had before.
Tombstone_ByText(w) == [w EXCEPT !.named = FALSE, !.body = IF sort = "link" THEN @ ELSE DeletedMarker]

\* What `delete` leaves of a payload: a link post has nothing but the category to show it.
Tombstone(w) ==
  [w EXCEPT !.named = FALSE, !.body = IF sort = "link" THEN @ ELSE DeletedMarker,
            !.category = IF sort = "comment" THEN @ ELSE "deleted"]

\* What `remove` leaves: a post keeps its author, a comment seems to have none.
RemovedBy(w, by) ==
  IF sort = "comment" THEN [w EXCEPT !.body = RemovedMarker, !.named = FALSE]
  ELSE [w EXCEPT !.body = IF sort = "link" THEN @ ELSE RemovedMarker, !.category = by]

Delete         == Becomes(Tombstone(wire), "deleted", Null, FALSE)
RemoveItem(by) == Becomes(RemovedBy(wire, by), "removed", by, FALSE)
Edit(text) ==
  Becomes([wire EXCEPT !.body = text], state, removedBy,
          overwritten \/ (sort = "comment" /\ state \in {"deleted", "removed"}))

\* delete_account reaches what still carries the name.
DeleteAccount == wire.named /\ Becomes([wire EXCEPT !.named = FALSE], state, removedBy, overwritten)

Restore ==
  /\ wire' = IF original = Null THEN wire ELSE original
  /\ original' = Null /\ state' = "live" /\ removedBy' = Null /\ dropped' = FALSE
  /\ Unseen /\ overwritten' = FALSE
  /\ UNCHANGED <<sort, leaf, vanished, banned, infoReturns, row, inherited>>

\* A world written to a fixture and loaded again: the payload is all that is kept.
Reload ==
  /\ original' = Null /\ state' = StateOf(wire) /\ removedBy' = RemoverOf(wire)
  /\ vanished' = 0 /\ dropped' = FALSE /\ banned' = FALSE /\ infoReturns' = TRUE
  /\ Unseen /\ overwritten' = FALSE /\ inherited' = (StateOf(wire) # "live")
  /\ UNCHANGED <<sort, leaf, wire, row>>

\* vanish(times), reappear, drop_from_tree, unhide; ban_subreddit and set_status("ok").
Visibility ==
  /\ \/ vanished' \in 0 .. MaxVanish \cup {Null} /\ UNCHANGED <<dropped, banned, infoReturns, state>>
     \/ /\ sort = "comment" /\ dropped' = TRUE
        /\ UNCHANGED <<vanished, banned, infoReturns, state>>
     \/ state = "hidden" /\ state' = "live" /\ UNCHANGED <<vanished, dropped, banned, infoReturns>>
     \/ /\ banned' \in BOOLEAN /\ infoReturns' \in {TRUE, ~banned'}
        /\ UNCHANGED <<vanished, dropped, state>>
  /\ Unseen
  /\ UNCHANGED <<sort, leaf, wire, original, removedBy, row, overwritten, inherited>>

-----------------------------------------------------------------------------
(* Looks at it.                                                             *)

\* The observation a stage makes of a payload, or of an omission.
Observation(omitted) ==
  [body |-> wire.body, named |-> wire.named, fullname |-> wire.named, category |-> wire.category,
   link |-> sort = "link", omitted |-> omitted]

Judged(what) ==
  /\ what = "omission" => row.misses < MaxOmitted
  /\ LET d == Decide(row.content, row.author, Observation(what = "omission"), row.misses)
     IN  row' = [content |-> d.content, author |-> d.author, misses |-> d.misses]
  /\ looked' = what /\ stood' = (row.content = "deleted_by_author")
  /\ UNCHANGED <<sort, leaf, wire, original, state, removedBy, dropped, banned, infoReturns,
                 overwritten, inherited>>

\* Slip: whatever is not hidden is listed.
Listed_Tombstones == state # "hidden" /\ vanished = 0

\* _listed.
Listed == state = "live" /\ vanished = 0

\* Slip: a deleted comment stays in its tree.
InTree_Leaves == ~dropped /\ vanished = 0

\* fetch_tree asks nobody whether the subreddit is banned; deleted leaves drop out.
InTree == ~dropped /\ vanished = 0 /\ (sort = "comment" => ~(state = "deleted" /\ leaf))

LookAtListing == sort # "comment" /\ ~banned /\ Listed /\ Judged("listing") /\ UNCHANGED vanished
LookAtTree    == InTree /\ Judged("tree") /\ UNCHANGED vanished

\* _consume_vanish, not reached when the subreddit's items are not returned.
Consumed == IF vanished \in {0, Null} \/ ~infoReturns THEN vanished ELSE vanished - 1

LookUp ==
  /\ Judged(IF infoReturns /\ vanished = 0 THEN "info" ELSE "omission")
  /\ vanished' = Consumed

Changes ==
  \/ Delete \/ DeleteAccount \/ Restore \/ Reload \/ Visibility
  \/ \E by \in Removers : RemoveItem(by)
  \/ \E text \in Bodytexts : Edit(text)

WorldNext == Changes \/ LookAtListing \/ LookAtTree \/ LookUp

WorldSpec == WorldInit /\ [][WorldNext]_worldVars

-----------------------------------------------------------------------------
(* Properties.                                                              *)

\* The two cases in which the wire no longer shows what the world remembers: a comment's
\* tombstone that was written over (edit does not ask), and a tombstone from a fixture that
\* `restore` had nothing to put back for.
Plain == ~overwritten /\ ~(inherited /\ state \in {"live", "hidden"})

\* The payload shows what was done to the item, after any sequence of changes and undoings,
\* so that a world saved and loaded is the same world.
PayloadTells == Plain => StateOf(wire) = IF state = "hidden" THEN "live" ELSE state

\* What one look makes of the item's row is what was done to it: who deleted or removed it
\* by whom, live otherwise.  Only a row that was deleted before the look stays so, and only a
\* link post whose author's account is gone is held back although nobody removed it.
Told ==
  CASE state = "deleted" -> {"deleted_by_author"}
    [] state = "removed" -> {IF sort = "comment" THEN "removed_by_moderator" ELSE Classify(removedBy)}
    [] OTHER -> IF sort = "link" /\ ~wire.named THEN {"gone_unconfirmed", "gone"} ELSE {"live"}
LooksTell ==
  looked \in {"listing", "tree", "info"} /\ Plain =>
    row.content \in IF stood THEN {"deleted_by_author"} ELSE Told

\* A listing shows no tombstone, a tree no deleted leaf.
TombstonesAreHidden ==
  /\ looked = "listing" /\ Plain => StateOf(wire) = "live"
  /\ looked = "tree" /\ sort = "comment" /\ leaf => state # "deleted"

\* Together: a scenario built on the fake means what it says.
FakeIsUnderstood == PayloadTells /\ LooksTell /\ TombstonesAreHidden
=============================================================================
