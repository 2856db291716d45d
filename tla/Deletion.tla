------------------------------ MODULE Deletion ------------------------------
(***************************************************************************)
(* The content and author state machine of core/deletion.py: what one      *)
(* observation makes of an item.  Pure operators; the first rule that      *)
(* applies wins.  A body is a text of Texts, the empty string, one of the  *)
(* two markers, or Null when the key was absent on the wire.               *)
(***************************************************************************)
EXTENDS Naturals, Absent

CONSTANT Texts   \* bodies that are intact content

EmptyText == ""
DeletedMarker == "[deleted]"
RemovedMarker == "[removed]"
Bodies == Texts \cup {EmptyText, DeletedMarker, RemovedMarker, Null}

ASSUME DeletionAssumption ==
  /\ Texts \cap {EmptyText, DeletedMarker, RemovedMarker, Null} = {}
  /\ Null \notin {EmptyText, DeletedMarker, RemovedMarker}
  /\ Null \notin {"deleted", "moderator", "reddit", "author"}

ContentStates == {"live", "deleted_by_author", "removed_by_moderator", "removed_by_reddit",
                  "gone_unconfirmed", "gone"}
AuthorStates  == {"known", "account_deleted"}

\* States whose content must be purged.
ScrubStates == {"deleted_by_author", "removed_by_moderator", "removed_by_reddit", "gone"}

GoneAtMisses == 2

\* removed_by_category: `reddit` stands for REDDIT_REMOVAL_CATEGORIES, `author` for
\* every value nobody has explained.
Categories == {Null, "deleted", "moderator", "reddit", "author"}

\* named: an author is shown; fullname: the key author_fullname was there;
\* omitted: returned_by_info is False.
Observations ==
  [body : Bodies, named : BOOLEAN, fullname : BOOLEAN, category : Categories,
   link : BOOLEAN, omitted : BOOLEAN]

\* The item was returned, but shows too little to be called anything.
Inconclusive(o) ==
  ~o.omitted /\ o.category = Null /\ (o.body = Null \/ (o.body \in Texts \cup {EmptyText}
                                                        /\ ~o.named /\ o.link))

-----------------------------------------------------------------------------
\* Slip: a category nobody explained is stored as it came.
Classify_AsItCame(category) ==
  IF category = "moderator" THEN "removed_by_moderator"
  ELSE IF category = "reddit" THEN "removed_by_reddit" ELSE category

Classify(category) ==
  IF category = "moderator" THEN "removed_by_moderator" ELSE "removed_by_reddit"

\* Slip: only a live item has anything to purge.
Settle_FromLiveOnly(prior, author, state) ==
  [content |-> state, author |-> author, misses |-> 0,
   scrub |-> state \in ScrubStates /\ prior = "live"]

\* The item was observed with a definite state: a scrub on entry, the misses reset.
Settle(prior, author, state) ==
  [content |-> state, author |-> author, misses |-> 0,
   scrub |-> state \in ScrubStates /\ prior \notin ScrubStates]

\* Slip: a hold counts as a miss whatever was returned (the defect KI-021 fixed).
Hold_CountingHolds(prior, author, misses, escalate) ==
  LET now  == misses + 1
      gone == prior = "gone" \/ now >= GoneAtMisses
  IN  [content |-> IF gone THEN "gone" ELSE "gone_unconfirmed", author |-> author,
       misses |-> now, scrub |-> gone /\ prior \notin ScrubStates]

\* The item is held out of `live`; only an omission counts and escalates.
Hold(prior, author, misses, escalate) ==
  LET now  == IF escalate THEN misses + 1 ELSE misses
      gone == prior = "gone" \/ (escalate /\ now >= GoneAtMisses)
  IN  [content |-> IF gone THEN "gone" ELSE "gone_unconfirmed", author |-> author,
       misses |-> now, scrub |-> gone /\ prior \notin ScrubStates]

\* Who wrote intact content; an inconclusive observation changes nothing.
AuthorOf(prior, obs) ==
  IF ~obs.named /\ ~obs.fullname THEN "account_deleted"
  ELSE IF obs.named /\ obs.fullname THEN "known"
  ELSE prior

\* Slip: a link post counts as deleted only when the fullname is gone too.
PendingDeletion_ByFullname(obs) == ~obs.named /\ ~obs.fullname /\ obs.link

\* Rule 7: a deleted link post has an empty body, not the marker.
PendingDeletion(obs) == ~obs.named /\ obs.link

\* Rules 2 to 8, in their order.
Judge(prior, author, obs, misses) ==
  IF obs.omitted THEN Hold(prior, author, misses, TRUE)
  ELSE IF obs.category = "deleted" \/ obs.body = DeletedMarker
       THEN Settle(prior, author, "deleted_by_author")
  ELSE IF obs.category # Null THEN Settle(prior, author, Classify(obs.category))
  ELSE IF obs.body = Null THEN Hold(prior, author, misses, FALSE)
  ELSE IF obs.body = RemovedMarker THEN Settle(prior, author, "removed_by_moderator")
  ELSE IF PendingDeletion(obs) THEN Hold(prior, author, misses, FALSE)
  ELSE Settle(prior, AuthorOf(author, obs), "live")

\* Slip: rule 1 is forgotten, so an intact copy revives a deleted item.
Decide_Reviving(prior, author, obs, misses) == Judge(prior, author, obs, misses)

\* Rule 1 before all others: deletion by the author is terminal.
Decide(prior, author, obs, misses) ==
  IF prior = "deleted_by_author"
  THEN [content |-> prior, author |-> author, misses |-> misses, scrub |-> FALSE]
  ELSE Judge(prior, author, obs, misses)
=============================================================================
