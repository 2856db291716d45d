----------------------------- MODULE Normalise -----------------------------
(***************************************************************************)
(* The boundary of the store (core/normalize.py): one wire item becomes a  *)
(* row or a reject, whatever its fields hold, and what is kept of it.  A   *)
(* field is the kind of thing the wire carries in it.                      *)
(***************************************************************************)

Kinds == {"post", "comment"}

\* whole: a mapping at all; link: a comment's post, parents: a crosspost's.
Item(kind, id, name, created, link, author, text, parents, score) ==
  [kind |-> kind, id |-> id, name |-> name, created |-> created, link |-> link,
   author |-> author, text |-> text, parents |-> parents, score |-> score]

Sound == Item("post", "id", "own", "epoch", "absent", "name", "text", "absent", "integer")

\* The shapes of each field that the code tells apart.
Shapes ==
  [kind : Kinds,
   id : {"id", "empty", "number", "absent"},
   name : {"absent", "own", "other"},
   created : {"epoch", "fraction", "infinite", "bool", "absent"},
   link : {"absent", "own", "other"},
   author : {"name", "record", "marker", "number", "absent"},
   text : {"text", "number", "absent"},
   parents : {"records", "junk", "text", "absent"},
   score : {"integer", "whole_float", "fraction", "absent"}]

-----------------------------------------------------------------------------
(* canonicalize.                                                            *)

\* Slip: entries that are no mappings are passed through.
Parents_PassedThrough(item) == IF item.parents = "records" THEN "pointers" ELSE item.parents

\* _strip_crosspost_parents: a list becomes pointers, whatever its entries are.
Parents(item) == IF item.parents \in {"records", "junk"} THEN "pointers" ELSE item.parents

Canonical(item) ==
  [item EXCEPT !.author = IF @ = "record" THEN "name" ELSE @, !.parents = Parents(item)]

-----------------------------------------------------------------------------
(* The coercers: whether the field gives a value.                           *)

RequiredText(shape)  == shape = "id"
RequiredEpoch(shape) == shape \in {"epoch", "fraction"}
OptionalText(shape)  == shape # "number"
OptionalInteger(shape) == shape # "fraction"

\* Slip: a comment is filed under the post it was asked for, whatever it says itself.
Agrees_NameOnly(item) == item.name # "other"

\* _fullname, and a comment's link_id: both may be absent, neither may disagree.
Agrees(item) == item.name # "other" /\ (item.kind = "comment" => item.link # "other")

\* A crosspost that is no list is rejected by its type; comments have no such field.
CrosspostFits(item) == item.kind = "post" => item.parents # "text"

Accepted(item) ==
  /\ RequiredText(item.id) /\ RequiredEpoch(item.created)
  /\ OptionalText(item.author) /\ OptionalText(item.text) /\ OptionalInteger(item.score)
  /\ Agrees(item) /\ CrosspostFits(item)

\* Slip: the marker of a deleted account is stored like a name.
WriterOf_AsItCame(item) == item.author

\* _author.
WriterOf(item) == IF item.author \in {"marker", "absent"} THEN "nobody" ELSE item.author

\* normalize_post, normalize_comment and _guarded: the row's facts, or the reject's; `kept`
\* is the crosspost parents as they reach a raw_json column.
Normalised(item) ==
  LET c == Canonical(item)
  IN  IF Accepted(c)
      THEN [row |-> TRUE, author |-> WriterOf(c), kept |-> c.parents,
            post |-> IF c.kind = "comment" /\ c.link = "other" THEN "other" ELSE "own"]
      ELSE [row |-> FALSE, kept |-> Parents(item)]

-----------------------------------------------------------------------------
(* Properties.                                                              *)

\* A row names no deleted account, stands under its own post, and has an author only when the
\* wire named one; neither a row nor a reject keeps an entry of a crosspost's parents.
RowsAreClean(item) ==
  LET result == Normalised(item)
  IN  /\ result.row => /\ result.author = "name" => item.author \in {"name", "record"}
                       /\ result.author # "marker"
                       /\ result.post = "own"
      /\ item.parents \in {"records", "junk"} => result.kept = "pointers"
=============================================================================
