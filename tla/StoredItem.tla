----------------------------- MODULE StoredItem -----------------------------
(***************************************************************************)
(* One item's row as the sweep and the tree stage write it, and its entry  *)
(* in the search index as the triggers of the schema keep it.              *)
(*                                                                         *)
(* The upsert stores what the wire returned next to the states that        *)
(* `decide` computed from the row as it was before.  A comment's content   *)
(* columns carry a guard in the statement itself: a row already deleted by *)
(* its author keeps them.  A post's columns carry none.                    *)
(***************************************************************************)
EXTENDS Deletion

CONSTANT Names   \* author names

ASSUME StoreAssumption == Null \notin Names

VARIABLES
  kind,                          \* "self", "link" or "comment", for ever
  exists,                        \* the row is there
  content, author, misses,       \* content_state, author_state, misses
  text, name,                    \* selftext or body; author
  index                          \* entries of the FTS table for this row

vars == <<kind, exists, content, author, misses, text, name, index>>

TypeOK ==
  /\ kind \in {"self", "link", "comment"}
  /\ exists \in BOOLEAN
  /\ content \in ContentStates /\ author \in AuthorStates /\ misses \in Nat
  /\ text \in Bodies /\ name \in Names \cup {Null}
  /\ index \subseteq [text : Bodies, name : Names \cup {Null}]

\* No row yet: decide takes the item for live, by a known author, never missed.
Init ==
  /\ kind \in {"self", "link", "comment"}
  /\ exists = FALSE
  /\ content = "live" /\ author = "known" /\ misses = 0
  /\ text = Null /\ name = Null /\ index = {}

\* What a listing or a tree can show of this item.
Wire ==
  [body : Bodies, name : Names \cup {Null}, fullname : BOOLEAN,
   category : IF kind = "comment" THEN {Null} ELSE Categories]

\* _post_write and comment_values reduce it to an observation.
Observed(w) ==
  [body |-> w.body, named |-> w.name # Null, fullname |-> w.fullname,
   category |-> w.category, link |-> kind = "link", omitted |-> FALSE]

\* Slip: comments have no guarded columns either.
Terminal_Dropped == FALSE

\* terminal_guard_columns: CASE WHEN the stored row is deleted_by_author.
Terminal == exists /\ kind = "comment" /\ content = "deleted_by_author"

\* Slip: the WHEN clause leaves the author out, for a text that did not change.
Changed_TextOnly ==
  text' # text \/ content' # content

\* posts_fts_au and comments_fts_au fire when an indexed column or the state moved.
Changed == text' # text \/ name' # name \/ content' # content

\* The update trigger: the old entry goes if it was live, the new one comes if it is.
Reindexed ==
  (index \ (IF content = "live" THEN {[text |-> text, name |-> name]} ELSE {}))
     \cup (IF content' = "live" THEN {[text |-> text', name |-> name']} ELSE {})

\* One upsert of the item, last delivery of its batch, and the triggers it fires.
Upsert(w) ==
  /\ LET d == Decide(content, author, Observed(w), misses)
     IN  /\ content' = IF Terminal THEN content ELSE d.content
         /\ author' = d.author /\ misses' = d.misses
         /\ text' = IF Terminal THEN text ELSE w.body
         /\ name' = IF Terminal THEN name ELSE w.name
  /\ exists' = TRUE
  /\ index' = IF ~exists THEN (IF content' = "live" THEN {[text |-> text', name |-> name']} ELSE {})
              ELSE IF Changed THEN Reindexed ELSE index
  /\ UNCHANGED kind

Next == \E w \in Wire : Upsert(w)

Spec == Init /\ [][Next]_vars
-----------------------------------------------------------------------------
(* Properties.                                                              *)

\* The search index holds exactly the live row's current text and author: an edit, a
\* removal, a return, an author who vanishes leave no entry behind and lose none.
IndexMirrorsLive ==
  index = IF exists /\ content = "live" THEN {[text |-> text, name |-> name]} ELSE {}

\* What the digest and the search show is never a marker, a missing body or a link
\* whose author is gone.
LiveRowsShowContent ==
  exists /\ content = "live" => text \in Texts \cup {EmptyText} /\ (kind = "link" => name # Null)

\* A deleted comment's row holds the marker and nothing its author wrote, although
\* later trees may return the text again.
DeletedCommentsKeepNoText ==
  kind = "comment" /\ content = "deleted_by_author" => text = DeletedMarker

\* Together: what a reader of the row and of the index may rely on.
RowIsFaithful == TypeOK /\ IndexMirrorsLive /\ LiveRowsShowContent /\ DeletedCommentsKeepNoText
=============================================================================
