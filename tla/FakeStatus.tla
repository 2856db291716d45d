----------------------------- MODULE FakeStatus -----------------------------
(***************************************************************************)
(* What the items and the requests of the in-memory Reddit share: whether  *)
(* the one subreddit answers (its status is "ok"), or refuses everything   *)
(* that asks for it by its name.                                           *)
(***************************************************************************)
VARIABLE banned   \* the subreddit's status is not "ok"
=============================================================================
