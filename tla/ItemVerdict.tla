---------------------------- MODULE ItemVerdict ----------------------------
(***************************************************************************)
(* One item judged by `decide` over any sequence of observations: listing  *)
(* pages, comment trees and info() lookups in any order.  This is the      *)
(* contract every caller inherits, the sweep and the tree stage of today   *)
(* and the reconcile stage the rules for info() were written for.          *)
(***************************************************************************)
EXTENDS Deletion

CONSTANT MaxMisses   \* bound: info() omissions counted in a row

VARIABLES
  standing, authorship, missed,   \* the stored states and the miss counter
  seen,                      \* the last observation
  owed,                      \* history: a scrub was asked for, and nothing settled it since
  absences                   \* history: omissions since the last definite look, up to the threshold

verdictVars == <<standing, authorship, missed, seen, owed, absences>>

ASSUME VerdictAssumption == MaxMisses \in Nat

VerdictTypeOK ==
  /\ standing \in ContentStates /\ authorship \in AuthorStates /\ missed \in Nat
  /\ seen \in Observations /\ owed \in BOOLEAN /\ absences \in Nat

\* A new row is judged as if it had been live with a known author.
VerdictInit ==
  /\ standing = "live" /\ authorship = "known" /\ missed = 0
  /\ seen \in {o \in Observations : o.body \in Texts /\ o.named /\ o.fullname
                                    /\ o.category = Null /\ ~o.omitted}
  /\ owed = FALSE /\ absences = 0

Observe(o) ==
  /\ o.omitted => missed < MaxMisses
  /\ LET d == Decide(standing, authorship, o, missed)
     IN  /\ standing' = d.content /\ authorship' = d.author /\ missed' = d.misses
         /\ owed' = (d.scrub \/ (owed /\ d.content \in ScrubStates))
  /\ seen' = o
  /\ absences' = IF o.omitted THEN (IF absences < GoneAtMisses THEN absences + 1 ELSE absences)
                 ELSE IF Inconclusive(o) THEN absences ELSE 0

VerdictNext == \E o \in Observations : Observe(o)

VerdictSpec == VerdictInit /\ [][VerdictNext]_verdictVars
-----------------------------------------------------------------------------
(* Properties.                                                              *)

\* Deletion by the author is final whatever is seen later, an approved copy or a
\* stale listing included: the states do not move and no scrub is asked for twice.
FinalStep ==
  standing = "deleted_by_author" => standing' = standing /\ authorship' = authorship /\ owed' = owed

DeletionIsFinal == [][FinalStep]_verdictVars

\* Content is purged as gone only on two info() omissions with nothing definite in
\* between: a returned item never escalates, whatever it lacks.
GoneTakesTwoOmissions == standing = "gone" => absences >= GoneAtMisses

\* Whatever path leads into a state whose content must go, a scrub was asked for on
\* the way in and none of the later observations took it back.
PurgeIsOwed == standing \in ScrubStates => owed

\* Live means intact: the last look showed a text that nobody removed and, on a link
\* post, somebody who wrote it.
LiveMeansIntact ==
  standing = "live" =>
    /\ ~seen.omitted /\ seen.category = Null
    /\ seen.body \in Texts \cup {EmptyText}
    /\ seen.link => seen.named

\* Together: what a caller of `decide` may rely on, in whatever order its looks come.
VerdictIsSound == VerdictTypeOK /\ GoneTakesTwoOmissions /\ PurgeIsOwed /\ LiveMeansIntact
=============================================================================
