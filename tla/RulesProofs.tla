---------------------------- MODULE RulesProofs ----------------------------
(***************************************************************************)
(* The rules of the store, for every set of texts, looks, posts, sources   *)
(* and processes: the contract of `decide` (ItemVerdict), the stored row   *)
(* with its search entry (StoredItem), a source's tables and identity      *)
(* (Ingest), the guards that keep fabricated data away (Gateways), the     *)
(* columns and their owners (Ownership), what the readers of the run rows  *)
(* are told (History), and the rules that are functions of one input       *)
(* (PureRules).  Each part but the last has an invariant of its own; the   *)
(* first two rest on the same lemmas on `decide`.  NothingFabricated is    *)
(* not inductive: nothing in it ties a fake run that is about to write to  *)
(* the lock that keeps a real one out, nor real data to the row that tells *)
(* of it.  OwnersAgree is not either: it says nothing of a post without a  *)
(* row, nor of the times a second page brings.  Nor is ReadersAreTold:     *)
(* that a verdict stays true of its row rests on the rows up to it being   *)
(* closed, so that no later command changes them.  The last has no steps   *)
(* to speak of: its theorems say of every input what its rule does.        *)
(***************************************************************************)
EXTENDS ItemVerdict, StoredItem, Ingest, Gateways, Ownership, History, PureRules,
        FiniteSetTheorems, SequenceTheorems, WellFoundedInduction, TLAPS

-----------------------------------------------------------------------------
(* `decide`.                                                                *)

Intact(o) == /\ o.category = Null /\ o.body \in Texts \cup {EmptyText}
             /\ o.link => o.named

Definite == {"deleted_by_author", "removed_by_moderator", "removed_by_reddit", "live"}

\* The eight rules make four kinds of decision: nothing moves, an omission, a hold
\* that does not count, or a definite state, which is live for intact content only.
Outcome(c, a, o, m, d) ==
  \/ /\ c = "deleted_by_author"
     /\ d = [content |-> c, author |-> a, misses |-> m, scrub |-> FALSE]
  \/ c # "deleted_by_author" /\ o.omitted /\ d = Hold(c, a, m, TRUE)
  \/ c # "deleted_by_author" /\ ~o.omitted /\ Inconclusive(o) /\ d = Hold(c, a, m, FALSE)
  \/ /\ c # "deleted_by_author" /\ ~o.omitted /\ ~Inconclusive(o)
     /\ \E s \in Definite, b \in AuthorStates : d = Settle(c, b, s) /\ (s = "live" => Intact(o))

\* Every decision is one of the four.
LEMMA DecideCases ==
  ASSUME NEW c \in ContentStates, NEW a \in AuthorStates, NEW o \in Observations, NEW m \in Nat
  PROVE  Outcome(c, a, o, m, Decide(c, a, o, m))
<1> USE DEF Outcome
<1>o. /\ o.body \in Texts \/ o.body \in {EmptyText, DeletedMarker, RemovedMarker, Null}
      /\ o.omitted \in BOOLEAN /\ o.named \in BOOLEAN /\ o.link \in BOOLEAN
  BY DEF Observations, Bodies
<1>m. /\ Texts \cap {EmptyText, DeletedMarker, RemovedMarker, Null} = {}
      /\ Null \notin {EmptyText, DeletedMarker, RemovedMarker, "deleted"}
      /\ EmptyText # DeletedMarker /\ EmptyText # RemovedMarker
  BY DeletionAssumption DEF EmptyText, DeletedMarker, RemovedMarker
<1>b. AuthorOf(a, o) \in AuthorStates
  BY DEF AuthorOf, AuthorStates
<1>1. CASE c = "deleted_by_author"
  BY <1>1 DEF Decide
<1>2. CASE c # "deleted_by_author" /\ o.omitted
  BY <1>2 DEF Decide, Judge
<1>3. CASE c # "deleted_by_author" /\ ~o.omitted
  <2>0. CASE o.category = "deleted" \/ o.body = DeletedMarker
    <3>1. Decide(c, a, o, m) = Settle(c, a, "deleted_by_author")
      BY <1>3, <2>0 DEF Decide, Judge
    <3>2. ~Inconclusive(o)
      BY <1>m, <2>0 DEF Inconclusive
    <3> QED BY <1>3, <3>1, <3>2 DEF Definite
  <2>1. CASE o.category \notin {"deleted", Null} /\ o.body # DeletedMarker
    <3>1. Decide(c, a, o, m) = Settle(c, a, Classify(o.category))
      BY <1>3, <2>1 DEF Decide, Judge
    <3>2. Classify(o.category) \in Definite \ {"live"}
      BY DEF Classify, Definite
    <3>3. ~Inconclusive(o)
      BY <2>1 DEF Inconclusive
    <3> QED BY <1>3, <3>1, <3>2, <3>3
  <2>2. CASE o.category = Null /\ o.body = Null
    <3>1. Decide(c, a, o, m) = Hold(c, a, m, FALSE)
      BY <1>3, <1>m, <2>2 DEF Decide, Judge
    <3>2. Inconclusive(o)
      BY <1>3, <2>2 DEF Inconclusive
    <3> QED BY <1>3, <3>1, <3>2
  <2>3. CASE o.category = Null /\ o.body = RemovedMarker
    <3>1. Decide(c, a, o, m) = Settle(c, a, "removed_by_moderator")
      BY <1>3, <1>m, <2>3 DEF Decide, Judge, DeletedMarker, RemovedMarker
    <3>2. ~Inconclusive(o)
      BY <1>m, <2>3 DEF Inconclusive
    <3> QED BY <1>3, <3>1, <3>2 DEF Definite
  <2>4. CASE o.category = Null /\ o.body \in Texts \cup {EmptyText} /\ PendingDeletion(o)
    <3>1. Decide(c, a, o, m) = Hold(c, a, m, FALSE)
      BY <1>3, <1>m, <2>4 DEF Decide, Judge
    <3>2. Inconclusive(o)
      BY <1>3, <2>4 DEF Inconclusive, PendingDeletion
    <3> QED BY <1>3, <3>1, <3>2
  <2>5. CASE o.category = Null /\ o.body \in Texts \cup {EmptyText} /\ ~PendingDeletion(o)
    <3>1. Decide(c, a, o, m) = Settle(c, AuthorOf(a, o), "live")
      BY <1>3, <1>m, <2>5 DEF Decide, Judge
    <3>2. ~Inconclusive(o) /\ Intact(o)
      BY <1>m, <2>5 DEF Inconclusive, PendingDeletion, Intact
    <3> QED BY <1>3, <1>b, <3>1, <3>2 DEF Definite
  <2> QED BY <1>o, <2>0, <2>1, <2>2, <2>3, <2>4, <2>5
<1> QED BY <1>o, <1>1, <1>2, <1>3

\* A decision is well typed.
LEMMA DecideType ==
  ASSUME NEW c \in ContentStates, NEW a \in AuthorStates, NEW o \in Observations, NEW m \in Nat
  PROVE  /\ Decide(c, a, o, m).content \in ContentStates
         /\ Decide(c, a, o, m).author \in AuthorStates
         /\ Decide(c, a, o, m).misses \in Nat
         /\ Decide(c, a, o, m).scrub \in BOOLEAN
<1> DEFINE d == Decide(c, a, o, m)
<1>c. Outcome(c, a, o, m, d)
  BY DecideCases
<1> HIDE DEF d
<1>1. \/ d = [content |-> c, author |-> a, misses |-> m, scrub |-> FALSE]
      \/ d = Hold(c, a, m, TRUE) \/ d = Hold(c, a, m, FALSE)
      \/ \E s \in Definite, b \in AuthorStates : d = Settle(c, b, s)
  BY <1>c DEF Outcome
<1>2. CASE d = [content |-> c, author |-> a, misses |-> m, scrub |-> FALSE]
  BY <1>2 DEF d
<1>3. ASSUME NEW e \in BOOLEAN, d = Hold(c, a, m, e)
      PROVE  d.content \in ContentStates /\ d.author \in AuthorStates /\ d.misses \in Nat
             /\ d.scrub \in BOOLEAN
  BY <1>3 DEF Hold, ContentStates, GoneAtMisses
<1>4. ASSUME NEW s \in Definite, NEW b \in AuthorStates, d = Settle(c, b, s)
      PROVE  d.content \in ContentStates /\ d.author \in AuthorStates /\ d.misses \in Nat
             /\ d.scrub \in BOOLEAN
  BY <1>4 DEF Settle, Definite, ContentStates
<1> QED BY <1>1, <1>2, <1>3, <1>4 DEF d

\* Entering a scrub state asks for the scrub.
LEMMA DecideScrub ==
  ASSUME NEW c \in ContentStates, NEW a \in AuthorStates, NEW o \in Observations, NEW m \in Nat,
         Decide(c, a, o, m).content \in ScrubStates
  PROVE  Decide(c, a, o, m).scrub \/ c \in ScrubStates
<1> DEFINE d == Decide(c, a, o, m)
<1>c. Outcome(c, a, o, m, d)
  BY DecideCases
<1> HIDE DEF d
<1>1. \/ d = [content |-> c, author |-> a, misses |-> m, scrub |-> FALSE]
      \/ d = Hold(c, a, m, TRUE) \/ d = Hold(c, a, m, FALSE)
      \/ \E s \in Definite, b \in AuthorStates : d = Settle(c, b, s)
  BY <1>c DEF Outcome
<1>0. d.content \in ScrubStates
  BY DEF d
<1>2. ASSUME NEW e \in BOOLEAN, d = Hold(c, a, m, e) PROVE d.scrub \/ c \in ScrubStates
  BY <1>0, <1>2 DEF Hold, ScrubStates
<1>3. ASSUME NEW s, NEW b, d = Settle(c, b, s) PROVE d.scrub \/ c \in ScrubStates
  BY <1>0, <1>3 DEF Settle
<1>4. CASE d = [content |-> c, author |-> a, misses |-> m, scrub |-> FALSE]
  BY <1>0, <1>4
<1>5. d = Hold(c, a, m, TRUE) \/ d = Hold(c, a, m, FALSE) => d.scrub \/ c \in ScrubStates
  BY <1>2
<1>6. (\E s \in Definite, b \in AuthorStates : d = Settle(c, b, s)) => d.scrub \/ c \in ScrubStates
  BY <1>3
<1> QED BY <1>1, <1>4, <1>5, <1>6 DEF d

\* Only intact content comes out live.
LEMMA DecideLive ==
  ASSUME NEW c \in ContentStates, NEW a \in AuthorStates, NEW o \in Observations, NEW m \in Nat,
         Decide(c, a, o, m).content = "live"
  PROVE  ~o.omitted /\ Intact(o)
  BY DecideCases DEF Outcome, Settle, Hold

\* Outside the terminal state the counter moves as the omissions do, and `gone` is
\* reached at the threshold only.
LEMMA DecideMisses ==
  ASSUME NEW c \in ContentStates, NEW a \in AuthorStates, NEW o \in Observations, NEW m \in Nat,
         c # "deleted_by_author"
  PROVE  /\ Decide(c, a, o, m).misses =
              IF o.omitted THEN m + 1 ELSE IF Inconclusive(o) THEN m ELSE 0
         /\ Decide(c, a, o, m).content = "gone" =>
              \/ Decide(c, a, o, m).misses >= GoneAtMisses
              \/ c = "gone" /\ Decide(c, a, o, m).misses >= m
  BY DecideCases DEF Outcome, Settle, Hold, Definite, GoneAtMisses

-----------------------------------------------------------------------------
(* An item's life.                                                          *)

\* The counter tells the truth about the omissions, up to the threshold.
MissesCounted ==
  /\ standing # "deleted_by_author" =>
       absences = IF missed >= GoneAtMisses THEN GoneAtMisses ELSE missed
  /\ standing = "gone" => missed >= GoneAtMisses

VerdictInv == VerdictTypeOK /\ MissesCounted /\ PurgeIsOwed /\ LiveMeansIntact

-----------------------------------------------------------------------------
(* The invariant.                                                           *)

\* The first judgement of an item finds the invariant true.
LEMMA FirstJudgement == VerdictInit => VerdictInv
<1> SUFFICES ASSUME VerdictInit PROVE VerdictInv
  OBVIOUS
<1>1. VerdictTypeOK
  BY DEF VerdictInit, VerdictTypeOK, ContentStates, AuthorStates
<1>2. MissesCounted /\ PurgeIsOwed
  BY DEF VerdictInit, MissesCounted, PurgeIsOwed, ScrubStates, GoneAtMisses
<1>3. LiveMeansIntact
  BY DEF VerdictInit, LiveMeansIntact
<1> QED BY <1>1, <1>2, <1>3 DEF VerdictInv

\* One more observation keeps it.
LEMMA OneMoreLook == VerdictInv /\ [VerdictNext]_verdictVars => VerdictInv'
<1> SUFFICES ASSUME VerdictInv, [VerdictNext]_verdictVars PROVE VerdictInv'
  OBVIOUS
<1> USE DEF VerdictInv
<1>1. CASE UNCHANGED verdictVars
  BY <1>1 DEF verdictVars, VerdictTypeOK, MissesCounted, PurgeIsOwed, LiveMeansIntact
<1>2. ASSUME NEW o \in Observations, Observe(o) PROVE VerdictInv'
  <2> DEFINE d == Decide(standing, authorship, o, missed)
  <2>0. /\ standing' = d.content /\ authorship' = d.author /\ missed' = d.misses
        /\ owed' = (d.scrub \/ (owed /\ d.content \in ScrubStates)) /\ seen' = o
        /\ absences' = IF o.omitted THEN (IF absences < GoneAtMisses THEN absences + 1 ELSE absences)
                       ELSE IF Inconclusive(o) THEN absences ELSE 0
    BY <1>2 DEF Observe
  <2>t. standing \in ContentStates /\ authorship \in AuthorStates /\ missed \in Nat /\ absences \in Nat
    BY DEF VerdictTypeOK
  <2> HIDE DEF d
  <2>1. VerdictTypeOK'
    BY <2>0, <2>t, DecideType DEF VerdictTypeOK, d, GoneAtMisses
  <2>2. MissesCounted'
    <3>1. CASE standing = "deleted_by_author"
      BY <3>1, <2>0 DEF MissesCounted, d, Decide
    <3>2. CASE standing # "deleted_by_author"
      <4>1. /\ d.misses = IF o.omitted THEN missed + 1 ELSE IF Inconclusive(o) THEN missed ELSE 0
            /\ d.content = "gone" => d.misses >= GoneAtMisses \/ (standing = "gone" /\ d.misses >= missed)
        BY <3>2, <2>t, <1>2, DecideMisses DEF d
      <4> QED BY <3>2, <4>1, <2>0, <2>t DEF MissesCounted, GoneAtMisses
    <3> QED BY <3>1, <3>2
  <2>3. PurgeIsOwed'
    BY <2>0, <2>t, DecideScrub, <1>2 DEF PurgeIsOwed, d
  <2>4. LiveMeansIntact'
    BY <2>0, <2>t, DecideLive, <1>2 DEF LiveMeansIntact, d, Intact
  <2> QED BY <2>1, <2>2, <2>3, <2>4
<1> QED BY <1>1, <1>2 DEF VerdictNext

\* The invariant of an item's life.
LEMMA VerdictInvariant == VerdictSpec => []VerdictInv
  BY FirstJudgement, OneMoreLook, PTL DEF VerdictSpec

-----------------------------------------------------------------------------
(* The theorems.                                                            *)

\* The states stay within their sets, so the CHECK constraints never fire.
THEOREM VerdictTypeCorrect == VerdictSpec => []VerdictTypeOK
<1>1. VerdictInv => VerdictTypeOK
  BY DEF VerdictInv
<1> QED BY <1>1, VerdictInvariant, PTL

\* An item is purged as gone only after two omissions with nothing definite between.
THEOREM GoneIsConfirmed == VerdictSpec => []GoneTakesTwoOmissions
<1>1. VerdictInv => GoneTakesTwoOmissions
  BY DEF VerdictInv, VerdictTypeOK, MissesCounted, GoneTakesTwoOmissions, GoneAtMisses
<1> QED BY <1>1, VerdictInvariant, PTL

\* No path into a scrub state forgets to ask for the scrub.
THEOREM PurgesAreAsked == VerdictSpec => []PurgeIsOwed
<1>1. VerdictInv => PurgeIsOwed
  BY DEF VerdictInv
<1> QED BY <1>1, VerdictInvariant, PTL

\* The state machine fails closed.
THEOREM FailsClosed == VerdictSpec => []LiveMeansIntact
<1>1. VerdictInv => LiveMeansIntact
  BY DEF VerdictInv
<1> QED BY <1>1, VerdictInvariant, PTL

\* The contract of `decide` as one statement.
THEOREM VerdictSound == VerdictSpec => []VerdictIsSound
<1>1. VerdictInv => VerdictIsSound
  BY DEF VerdictInv, VerdictIsSound, VerdictTypeOK, MissesCounted, GoneTakesTwoOmissions, GoneAtMisses
<1> QED BY <1>1, VerdictInvariant, PTL

\* An author's deletion is never undone.
THEOREM DeletionStands == VerdictSpec => DeletionIsFinal
<1>1. VerdictInv /\ [VerdictNext]_verdictVars => FinalStep
  <2> SUFFICES ASSUME VerdictInv, [VerdictNext]_verdictVars, standing = "deleted_by_author"
               PROVE  standing' = standing /\ authorship' = authorship /\ owed' = owed
    BY DEF FinalStep
  <2>1. CASE UNCHANGED verdictVars
    BY <2>1 DEF verdictVars
  <2>2. ASSUME NEW o \in Observations, Observe(o)
        PROVE  standing' = standing /\ authorship' = authorship /\ owed' = owed
    BY <2>2 DEF Observe, Decide, VerdictInv, VerdictTypeOK, ScrubStates
  <2> QED BY <2>1, <2>2 DEF VerdictNext
<1>2. VerdictInv /\ [VerdictNext]_verdictVars => [FinalStep]_verdictVars
  BY <1>1
<1> QED BY <1>2, VerdictInvariant, PTL DEF VerdictSpec, DeletionIsFinal

-----------------------------------------------------------------------------
(* The stored row.  The parts of its invariant hold each other up: the      *)
(* index is exact after an update because it was exact before, and a        *)
(* guarded row keeps the marker because it held it when the guard closed.   *)

\* Before the row exists, decide is given the column defaults.
NoRowYet == ~exists => content = "live" /\ author = "known" /\ misses = 0

StoredInv == /\ TypeOK /\ NoRowYet
        /\ IndexMirrorsLive /\ LiveRowsShowContent /\ DeletedCommentsKeepNoText

-----------------------------------------------------------------------------
(* The invariant.                                                           *)

\* Whatever the wire shows is an observation decide is defined on.
LEMMA ObservedType ==
  ASSUME TypeOK, NEW w \in Wire PROVE Observed(w) \in Observations
  BY DeletionAssumption DEF Observed, Wire, Observations, Categories

\* No row: nothing indexed, nothing shown.
LEMMA FirstStored == Init => StoredInv
<1> SUFFICES ASSUME Init PROVE StoredInv
  OBVIOUS
<1>1. TypeOK
  BY DEF Init, TypeOK, ContentStates, AuthorStates, Bodies
<1>2. IndexMirrorsLive /\ LiveRowsShowContent /\ DeletedCommentsKeepNoText /\ NoRowYet
  BY DEF Init, IndexMirrorsLive, LiveRowsShowContent, DeletedCommentsKeepNoText, NoRowYet
<1> QED BY <1>1, <1>2 DEF StoredInv

\* A comment, which has no removal category, is judged deleted by the marker alone.
LEMMA CommentDeletedByMarker ==
  ASSUME NEW c \in ContentStates \ {"deleted_by_author"}, NEW a \in AuthorStates,
         NEW o \in Observations, NEW m \in Nat,
         ~o.omitted, o.category = Null,
         Decide(c, a, o, m).content = "deleted_by_author"
  PROVE  o.body = DeletedMarker
<1>1. Null # "deleted"
  BY DeletionAssumption
<1> QED BY <1>1 DEF Decide, Judge, Settle, Hold

\* One more upsert keeps it.
LEMMA OneMoreUpsert == StoredInv /\ [Next]_vars => StoredInv'
<1> SUFFICES ASSUME StoredInv, [Next]_vars PROVE StoredInv'
  OBVIOUS
<1> USE DEF StoredInv
<1>1. CASE UNCHANGED vars
  BY <1>1 DEF vars, TypeOK, NoRowYet, IndexMirrorsLive, LiveRowsShowContent, DeletedCommentsKeepNoText
<1>2. ASSUME NEW w \in Wire, Upsert(w) PROVE StoredInv'
  <2> DEFINE o == Observed(w)
             d == Decide(content, author, o, misses)
             entry == [text |-> text, name |-> name]
  <2>0. /\ content' = IF Terminal THEN content ELSE d.content
        /\ author' = d.author /\ misses' = d.misses
        /\ text' = IF Terminal THEN text ELSE w.body
        /\ name' = IF Terminal THEN name ELSE w.name
        /\ exists' = TRUE /\ kind' = kind
    BY <1>2 DEF Upsert
  <2>i. index' = IF ~exists THEN (IF content' = "live" THEN {[text |-> text', name |-> name']} ELSE {})
                 ELSE IF Changed THEN Reindexed ELSE index
    BY <1>2 DEF Upsert
  <2>t. /\ kind \in {"self", "link", "comment"}
        /\ content \in ContentStates /\ author \in AuthorStates /\ misses \in Nat
        /\ text \in Bodies /\ name \in Names \cup {Null}
    BY DEF TypeOK
  <2>w. w.body \in Bodies /\ w.name \in Names \cup {Null}
    BY DEF Wire
  <2>o. o \in Observations
    BY <1>2, ObservedType
  <2>f. /\ o.body = w.body /\ o.named = (w.name # Null) /\ o.link = (kind = "link")
        /\ o.omitted = FALSE /\ (kind = "comment" => o.category = Null)
    BY DEF Observed, Wire
  <2> HIDE DEF o, d
  <2>d. d.content \in ContentStates /\ d.author \in AuthorStates /\ d.misses \in Nat
    BY <2>t, <2>o, DecideType DEF d
  <2>1. TypeOK'
    <3>1. text' \in Bodies /\ name' \in Names \cup {Null} /\ content' \in ContentStates
      BY <2>0, <2>t, <2>w, <2>d
    <3>2. index' \subseteq [text : Bodies, name : Names \cup {Null}]
      BY <2>i, <3>1 DEF Reindexed, TypeOK
    <3> QED BY <2>0, <2>t, <2>d, <3>1, <3>2 DEF TypeOK
  <2>2. IndexMirrorsLive'
    <3>1. CASE ~exists
      BY <2>0, <2>i, <3>1 DEF IndexMirrorsLive
    <3>2. CASE exists /\ Changed
      BY <2>0, <2>i, <3>2 DEF IndexMirrorsLive, Reindexed
    <3>3. CASE exists /\ ~Changed
      BY <2>0, <2>i, <3>3 DEF IndexMirrorsLive, Changed
    <3> QED BY <3>1, <3>2, <3>3
  <2>3. LiveRowsShowContent'
    <3>1. CASE Terminal
      BY <2>0, <3>1 DEF LiveRowsShowContent, Terminal
    <3>2. CASE ~Terminal
      <4> SUFFICES ASSUME d.content = "live"
                   PROVE  w.body \in Texts \cup {EmptyText} /\ (kind = "link" => w.name # Null)
        BY <2>0, <3>2 DEF LiveRowsShowContent
      <4>1. Intact(o)
        BY <2>t, <2>o, DecideLive DEF d
      <4> QED BY <4>1, <2>f DEF Intact
    <3> QED BY <3>1, <3>2
  <2>4. DeletedCommentsKeepNoText'
    <3>1. CASE Terminal
      BY <2>0, <3>1 DEF DeletedCommentsKeepNoText
    <3>2. CASE ~Terminal
      <4> SUFFICES ASSUME kind = "comment", d.content = "deleted_by_author" PROVE w.body = DeletedMarker
        BY <2>0, <3>2 DEF DeletedCommentsKeepNoText
      <4>1. content # "deleted_by_author"
        BY <3>2 DEF Terminal, NoRowYet
      <4> QED BY <4>1, <2>t, <2>o, <2>f, CommentDeletedByMarker DEF d
    <3> QED BY <3>1, <3>2
  <2>5. NoRowYet'
    BY <2>0 DEF NoRowYet
  <2> QED BY <2>1, <2>2, <2>3, <2>4, <2>5
<1> QED BY <1>1, <1>2 DEF Next

\* The invariant of the stored row.
LEMMA StoredInvariant == Spec => []StoredInv
  BY FirstStored, OneMoreUpsert, PTL DEF Spec

-----------------------------------------------------------------------------
(* The theorems.                                                            *)

\* Rows and entries stay within their sets.
THEOREM StoredTypeCorrect == Spec => []TypeOK
<1>1. StoredInv => TypeOK
  BY DEF StoredInv
<1> QED BY <1>1, StoredInvariant, PTL

\* The triggers keep the index equal to the live content after any upserts.
THEOREM IndexIsExact == Spec => []IndexMirrorsLive
<1>1. StoredInv => IndexMirrorsLive
  BY DEF StoredInv
<1> QED BY <1>1, StoredInvariant, PTL

\* A live row has something to show.
THEOREM LiveRowsAreShown == Spec => []LiveRowsShowContent
<1>1. StoredInv => LiveRowsShowContent
  BY DEF StoredInv
<1> QED BY <1>1, StoredInvariant, PTL

\* The guard in the statement keeps a deleted comment's text out for good.
THEOREM DeletedTextStaysOut == Spec => []DeletedCommentsKeepNoText
<1>1. StoredInv => DeletedCommentsKeepNoText
  BY DEF StoredInv
<1> QED BY <1>1, StoredInvariant, PTL

\* The stored row and its search entry as one statement.
THEOREM RowFaithful == Spec => []RowIsFaithful
<1>1. StoredInv => RowIsFaithful
  BY DEF StoredInv, RowIsFaithful
<1> QED BY <1>1, StoredInvariant, PTL

-----------------------------------------------------------------------------
(* The tables of a source.                                                  *)

Shown  == {l.author : l \in Looks} \cup {Null}
Values == {l.value : l \in Looks} \cup {Null}
Rows   == [author : Shown, score : Nat, value : Values, identity : Identities \cup {Null},
           sweep : Nat]

IngestTypes ==
  /\ posts \in [Ids -> Rows] /\ numbers \in [Ids -> Seq(Nat)]
  /\ authors \in [Authors -> Nat \cup {Null}]
  /\ sweep \in Nat /\ sweeping \in BOOLEAN

\* The identity a sweep compares with is the source's, until the sweep itself changes it.
InStep == sweeping => loaded = identity /\ sweep > 0

\* No row is of a sweep to come.
Dated == \A i \in Ids : posts[i].sweep <= sweep

\* A post's snapshots: none before its row, then its scores as they moved.
Snapshots ==
  \A i \in Ids :
    /\ i \notin Stored => numbers[i] = <<>>
    /\ i \in Stored =>
         /\ Len(numbers[i]) > 0
         /\ numbers[i][Len(numbers[i])] = posts[i].score
         /\ \A n \in 1 .. Len(numbers[i]) - 1 : numbers[i][n] # numbers[i][n + 1]

\* No author is counted below the posts that name them.
Counted ==
  \A a \in Authors : Count(posts, a) > 0 => authors[a] # Null /\ authors[a] >= Count(posts, a)

\* Every unknown value this sweep stored was counted, and only such were.
Keys ==
  /\ Occurrences \subseteq keys
  /\ \A key \in keys : \E i \in Written, v \in Values \ (KnownValues \cup {Null}) : key = <<i, v>>

IngestInv == IngestTypes /\ InStep /\ Dated /\ Snapshots /\ Counted /\ Keys /\ rejects = counted

-----------------------------------------------------------------------------
(* A page that is written.                                                  *)

\* What WritePage is given, and what it starts from.
Writes(page, bad, met) ==
  /\ IngestInv /\ sweeping
  /\ page \in Pages /\ bad \in BOOLEAN /\ met \in Identities \cup {Null}
  /\ WritePage(page, bad, met) /\ UNCHANGED <<sweep, sweeping>>

\* A count is a number.
LEMMA CountIsNat ==
  ASSUME IsFiniteSet(Ids), NEW table, NEW a
  PROVE  Count(table, a) \in Nat
<1>1. IsFiniteSet({i \in Ids : table[i].sweep > 0 /\ table[i].author = a})
  BY FS_Subset
<1> QED BY <1>1, FS_CardinalityType DEF Count

\* An author whose posts are among those there were has no more of them.
LEMMA CountShrinks ==
  ASSUME IsFiniteSet(Ids), NEW old, NEW new, NEW a,
         \A i \in Ids : new[i].sweep > 0 /\ new[i].author = a => old[i].sweep > 0 /\ old[i].author = a
  PROVE  Count(new, a) <= Count(old, a)
<1> DEFINE Of(table) == {i \in Ids : table[i].sweep > 0 /\ table[i].author = a}
<1>1. IsFiniteSet(Of(old))
  BY FS_Subset
<1>2. Of(new) \in SUBSET Of(old)
  OBVIOUS
<1>3. Cardinality(Of(new)) <= Cardinality(Of(old))
  BY <1>1, <1>2, FS_Subset
<1> QED BY <1>3 DEF Count

\* Posts the page shows carry its look, the others are as they were.
LEMMA RowsAfter ==
  ASSUME NEW page, NEW bad, NEW met, Writes(page, bad, met)
  PROVE  /\ DOMAIN page \subseteq Ids
         /\ \A i \in DOMAIN page : /\ page[i] \in Looks /\ page[i].score \in Nat
                                    /\ posts'[i].author = page[i].author
                                    /\ posts'[i].score = page[i].score
                                    /\ posts'[i].value = page[i].value
                                    /\ posts'[i].identity = met
                                    /\ posts'[i].sweep = sweep
         /\ \A i \in Ids \ DOMAIN page : posts'[i] = posts[i]
         /\ posts' \in [Ids -> Rows]
<1>1. DOMAIN page \subseteq Ids /\ \A i \in DOMAIN page : page[i] \in Looks
  BY DEF Writes, Pages
<1>2. \A i \in DOMAIN page : page[i].score \in Nat
  BY <1>1, IngestAssumption DEF Writes
<1>3. posts' = Upserted(page, met)
  BY DEF Writes, WritePage
<1>4. \A i \in DOMAIN page :
        posts'[i] = [author |-> page[i].author, score |-> page[i].score,
                     value |-> page[i].value, identity |-> met, sweep |-> sweep]
  BY <1>1, <1>3 DEF Upserted
<1>5. \A i \in Ids \ DOMAIN page : posts'[i] = posts[i]
  BY <1>3 DEF Upserted
<1>6. ASSUME NEW i \in DOMAIN page PROVE posts'[i] \in Rows
  <2>1. page[i].author \in Shown /\ page[i].value \in Values
    BY <1>1 DEF Shown, Values
  <2>2. met \in Identities \cup {Null} /\ sweep \in Nat
    BY DEF Writes, IngestInv, IngestTypes
  <2>3. posts'[i] = [author |-> page[i].author, score |-> page[i].score,
                     value |-> page[i].value, identity |-> met, sweep |-> sweep]
    BY <1>4
  <2>4. page[i].score \in Nat
    BY <1>2
  <2> QED BY <2>1, <2>2, <2>3, <2>4 DEF Rows
<1>7. \A i \in Ids : posts'[i] \in Rows
  BY <1>5, <1>6 DEF Writes, IngestInv, IngestTypes
<1>8. DOMAIN posts' = Ids
  BY <1>3 DEF Upserted
<1>9. posts' \in [Ids -> Rows]
  BY <1>3, <1>7 DEF Upserted
<1>10. ASSUME NEW i \in DOMAIN page
       PROVE  /\ posts'[i].author = page[i].author /\ posts'[i].score = page[i].score
              /\ posts'[i].value = page[i].value /\ posts'[i].identity = met
              /\ posts'[i].sweep = sweep
  <2>1. posts'[i] = [author |-> page[i].author, score |-> page[i].score,
                     value |-> page[i].value, identity |-> met, sweep |-> sweep]
    BY <1>4
  <2> QED BY <2>1
<1> QED BY <1>1, <1>2, <1>5, <1>9, <1>10

\* A snapshot is appended when the score moved, and then only.
LEMMA SnapshotsAfter ==
  ASSUME NEW page, NEW bad, NEW met, Writes(page, bad, met)
  PROVE  numbers' \in [Ids -> Seq(Nat)] /\ Snapshots'
<1>1. numbers' = Snapped(page)
  BY DEF Writes, WritePage
<1>2. sweep > 0 /\ sweep \in Nat /\ sweep' = sweep /\ numbers \in [Ids -> Seq(Nat)]
  BY DEF Writes, IngestInv, InStep, IngestTypes
<1>3. \A i \in Ids : numbers'[i] = IF i \in DOMAIN page /\ Moved(i, page[i])
                                   THEN Append(numbers[i], page[i].score) ELSE numbers[i]
  BY <1>1 DEF Snapped
<1>4. numbers' \in [Ids -> Seq(Nat)]
  <2>1. \A i \in DOMAIN page : page[i].score \in Nat
    BY RowsAfter
  <2>2. \A i \in Ids : numbers'[i] \in Seq(Nat)
    <3> TAKE i \in Ids
    <3>1. numbers[i] \in Seq(Nat)
      BY <1>2
    <3>2. CASE i \in DOMAIN page /\ Moved(i, page[i])
      <4>1. numbers'[i] = Append(numbers[i], page[i].score)
        BY <1>3, <3>2
      <4>2. page[i].score \in Nat
        BY <2>1, <3>2
      <4> QED BY <3>1, <4>1, <4>2
    <3> QED BY <1>3, <3>1, <3>2
  <2> QED BY <1>1, <2>2 DEF Snapped
<1>5. ASSUME NEW i \in Ids
      PROVE  /\ i \notin Stored' => numbers'[i] = <<>>
             /\ i \in Stored' =>
                  /\ Len(numbers'[i]) > 0
                  /\ numbers'[i][Len(numbers'[i])] = posts'[i].score
                  /\ \A n \in 1 .. Len(numbers'[i]) - 1 : numbers'[i][n] # numbers'[i][n + 1]
  <2> DEFINE old == numbers[i]
  <2>1. old \in Seq(Nat)
    BY <1>2
  <2>2. /\ i \notin Stored => old = <<>>
        /\ i \in Stored =>
             /\ Len(old) > 0 /\ old[Len(old)] = posts[i].score
             /\ \A n \in 1 .. Len(old) - 1 : old[n] # old[n + 1]
    BY DEF Writes, IngestInv, Snapshots
  <2>3. CASE i \in DOMAIN page
    <3>1. posts'[i].score = page[i].score /\ page[i].score \in Nat /\ i \in Stored'
      BY <1>2, <2>3, RowsAfter DEF Stored
    <3>2. CASE Moved(i, page[i])
      <4>1. numbers'[i] = Append(old, page[i].score)
        BY <1>3, <2>3, <3>2
      <4>2. i \in Stored => posts[i].score # page[i].score
        BY <3>2 DEF Moved
      <4> HIDE DEF old
      <4>3. Len(numbers'[i]) = Len(old) + 1 /\ Len(old) \in Nat
        BY <2>1, <3>1, <4>1
      <4>4. \A n \in 1 .. Len(old) : numbers'[i][n] = old[n]
        BY <2>1, <3>1, <4>1
      <4>5. numbers'[i][Len(old) + 1] = page[i].score
        BY <2>1, <3>1, <4>1
      <4>6. Len(old) > 0 => i \in Stored
        BY <2>2
      <4>7. ASSUME NEW n \in 1 .. Len(numbers'[i]) - 1
            PROVE  numbers'[i][n] # numbers'[i][n + 1]
        <5>1. n \in 1 .. Len(old) /\ i \in Stored
          BY <4>3, <4>6
        <5>2. CASE n = Len(old)
          BY <2>2, <4>2, <4>4, <4>5, <5>1, <5>2
        <5>3. CASE n # Len(old)
          <6>1. n \in 1 .. Len(old) - 1 /\ n + 1 \in 1 .. Len(old)
            BY <4>3, <5>1, <5>3
          <6> QED BY <2>2, <4>4, <5>1, <6>1
        <5> QED BY <5>2, <5>3
      <4> QED BY <3>1, <4>3, <4>5, <4>7
    <3>3. CASE ~Moved(i, page[i])
      BY <1>3, <2>2, <2>3, <3>1, <3>3 DEF Moved
    <3> QED BY <3>2, <3>3
  <2>4. CASE i \notin DOMAIN page
    <3>1. posts'[i] = posts[i] /\ numbers'[i] = old
      BY <1>3, <2>4, RowsAfter
    <3> QED BY <2>2, <3>1 DEF Stored
  <2> QED BY <2>3, <2>4
<1>6. Snapshots'
  BY <1>5 DEF Snapshots
<1> QED BY <1>4, <1>6

\* An author the page touches is counted anew; of the others no post is added.
LEMMA CountsAfter ==
  ASSUME NEW page, NEW bad, NEW met, Writes(page, bad, met)
  PROVE  authors' \in [Authors -> Nat \cup {Null}] /\ Counted'
<1>1. IsFiniteSet(Ids) /\ Null \notin Nat
  BY IngestAssumption DEF Writes
<1>2. \A a : Count(posts, a) \in Nat /\ Count(posts', a) \in Nat
  BY <1>1, CountIsNat
<1>3. authors' = [a \in Authors |-> IF a \in Touched(page) THEN Count(posts', a) ELSE authors[a]]
  BY DEF Writes, WritePage, Recounted
<1>4. authors \in [Authors -> Nat \cup {Null}] /\ Counted
  BY DEF Writes, IngestInv, IngestTypes
<1>5. authors' \in [Authors -> Nat \cup {Null}]
  BY <1>2, <1>3, <1>4
<1>6. ASSUME NEW a \in Authors, Count(posts', a) > 0
      PROVE  authors'[a] # Null /\ authors'[a] >= Count(posts', a)
  <2>1. CASE a \in Touched(page)
    <3>1. authors'[a] = Count(posts', a)
      BY <1>3, <2>1
    <3> QED BY <1>1, <1>2, <3>1
  <2>2. CASE a \notin Touched(page)
    <3>1. a # Null
      BY DEF Authors
    <3>2. \A i \in Ids : posts'[i].author = a => posts'[i] = posts[i]
      BY <2>2, <3>1, RowsAfter DEF Touched
    <3>3. Count(posts', a) <= Count(posts, a)
      BY <1>1, <3>2, CountShrinks
    <3>4. authors'[a] = authors[a]
      BY <1>3, <2>2
    <3>5. Count(posts, a) > 0 /\ Count(posts, a) \in Nat /\ Count(posts', a) \in Nat
      BY <1>2, <1>6, <3>3
    <3>6. authors[a] \in Nat /\ authors[a] >= Count(posts, a) /\ authors[a] # Null
      BY <1>4, <3>5 DEF Counted
    <3> QED BY <1>1, <3>3, <3>4, <3>5, <3>6
  <2> QED BY <2>1, <2>2
<1>7. Counted'
  BY <1>6 DEF Counted, Count
<1> QED BY <1>5, <1>7

\* A key for every unknown value written, and for nothing else.
LEMMA KeysAfter ==
  ASSUME NEW page, NEW bad, NEW met, Writes(page, bad, met)
  PROVE  Keys'
<1>1. keys' = keys \cup KeysOf(page) /\ sweep' = sweep /\ sweep > 0 /\ sweep \in Nat
  BY DEF Writes, WritePage, IngestInv, InStep, IngestTypes
<1>2. Written' = Written \cup DOMAIN page
  BY <1>1, RowsAfter DEF Written, Stored
<1>3. Occurrences' \subseteq keys'
  <2>1. \A i \in DOMAIN page : posts'[i].value = page[i].value
    BY RowsAfter
  <2>2. \A i \in Written' \ DOMAIN page : i \in Written /\ posts'[i] = posts[i]
    BY <1>2, RowsAfter DEF Written, Stored
  <2>3. Occurrences \subseteq keys
    BY DEF Writes, IngestInv, Keys
  <2> QED BY <1>1, <1>2, <2>1, <2>2, <2>3 DEF Occurrences, KeysOf
<1>4. \A key \in KeysOf(page) :
        \E i \in Written', v \in Values \ (KnownValues \cup {Null}) : key = <<i, v>>
  BY <1>2, RowsAfter DEF KeysOf, Values
<1>5. \A key \in keys :
        \E i \in Written', v \in Values \ (KnownValues \cup {Null}) : key = <<i, v>>
  BY <1>2 DEF Writes, IngestInv, Keys
<1> QED BY <1>1, <1>3, <1>4, <1>5 DEF Keys

-----------------------------------------------------------------------------

\* Nothing is stored, and no sweep is under way.
LEMMA IngestStart == IngestInit => IngestInv
<1> SUFFICES ASSUME IngestInit PROVE IngestInv
  OBVIOUS
<1>1. Stored = {} /\ Written = {} /\ Occurrences = {}
  BY DEF IngestInit, NoRow, Stored, Written, Occurrences
<1>2. IngestTypes
  <2>1. NoRow \in Rows
    BY DEF NoRow, Rows, Shown, Values
  <2>2. posts \in [Ids -> Rows]
    BY <2>1 DEF IngestInit
  <2>3. <<>> \in Seq(Nat)
    OBVIOUS
  <2>4. numbers \in [Ids -> Seq(Nat)]
    BY <2>3 DEF IngestInit
  <2>5. authors \in [Authors -> Nat \cup {Null}]
    BY DEF IngestInit
  <2> QED BY <2>2, <2>4, <2>5 DEF IngestInit, IngestTypes
<1>3. \A a : {i \in Ids : posts[i].sweep > 0 /\ posts[i].author = a} = {}
  BY DEF IngestInit, NoRow
<1>4. \A a : Count(posts, a) = 0
  BY <1>3, FS_EmptySet DEF Count
<1>5. InStep /\ Dated /\ Snapshots /\ Counted /\ Keys /\ rejects = counted
  BY <1>1, <1>4 DEF IngestInit, NoRow, InStep, Dated, Snapshots, Counted, Keys
<1> QED BY <1>2, <1>5 DEF IngestInv

\* Every step keeps the invariant.
LEMMA IngestStep == IngestInv /\ [IngestNext]_ingestVars => IngestInv'
<1> SUFFICES ASSUME IngestInv, [IngestNext]_ingestVars PROVE IngestInv'
  OBVIOUS
<1> DEFINE Same == UNCHANGED <<posts, numbers, authors, rejects, counted>>
<1>1. ASSUME Same PROVE Snapshots' /\ Counted' /\ rejects' = counted'
  BY <1>1 DEF IngestInv, Snapshots, Stored, Counted, Count
<1>2. CASE UNCHANGED ingestVars
  BY <1>1, <1>2 DEF ingestVars, IngestInv, IngestTypes, InStep, Dated, Keys, Occurrences, Written, Stored
<1>3. CASE BeginSweep
  <2>1. Same /\ sweep' = sweep + 1 /\ sweep \in Nat /\ keys' = {}
    BY <1>3 DEF BeginSweep, IngestInv, IngestTypes
  <2>2. IngestTypes' /\ InStep'
    BY <1>3, <2>1 DEF BeginSweep, IngestInv, IngestTypes, InStep
  <2>3. \A i \in Ids : posts'[i].sweep <= sweep /\ posts'[i].sweep \in Nat
    BY <2>1 DEF IngestInv, IngestTypes, Rows, Dated
  <2>4. Dated' /\ Written' = {}
    BY <2>1, <2>3 DEF Dated, Written, Stored
  <2>5. Keys'
    BY <2>1, <2>4 DEF Keys, Occurrences
  <2> QED BY <1>1, <2>1, <2>2, <2>4, <2>5 DEF IngestInv
<1>4. CASE Finish
  BY <1>1, <1>4 DEF Finish, IngestInv, IngestTypes, InStep, Dated, Keys, Occurrences, Written, Stored
<1>5. ASSUME NEW page \in Pages, NEW bad \in BOOLEAN, NEW met \in Identities \cup {Null},
             Page(page, bad, met)
      PROVE  IngestInv'
  <2>1. sweeping /\ UNCHANGED <<identity, sweep, loaded>>
    BY <1>5 DEF Page
  <2>2. CASE RolledBack /\ sweeping' = FALSE
    BY <1>1, <2>1, <2>2 DEF RolledBack, IngestInv, IngestTypes, InStep, Dated, Keys, Occurrences, Written,
                            Stored
  <2>3. CASE WritePage(page, bad, met) /\ sweeping' = TRUE
    <3>1. Writes(page, bad, met)
      BY <2>1, <2>3 DEF Writes
    <3>2. IngestTypes'
      BY <2>1, <2>3, <3>1, RowsAfter, SnapshotsAfter, CountsAfter DEF IngestInv, IngestTypes
    <3>3. InStep' /\ rejects' = counted'
      BY <2>1, <2>3 DEF IngestInv, InStep, WritePage
    <3>4. Dated'
      BY <2>1, <3>1, RowsAfter DEF IngestInv, Dated, IngestTypes
    <3> QED BY <3>1, <3>2, <3>3, <3>4, SnapshotsAfter, CountsAfter, KeysAfter DEF IngestInv
  <2> QED BY <1>5, <2>2, <2>3 DEF Page
<1> QED BY <1>2, <1>3, <1>4, <1>5 DEF IngestNext

\* If every key names what its post holds, keys and occurrences are the same.
LEMMA IngestSuffices == IngestInv => TablesAgree
<1> SUFFICES ASSUME IngestInv PROVE TablesAgree
  OBVIOUS
<1>1. \A i \in Stored : /\ numbers[i][Len(numbers[i])] = posts[i].score
                        /\ \A n \in 1 .. Len(numbers[i]) - 1 : numbers[i][n] # numbers[i][n + 1]
  BY DEF IngestInv, Snapshots, Stored
<1>2. "enum" \in Complaints => \E key \in keys : posts[key[1]].value # key[2]
  <2> SUFFICES ASSUME \A key \in keys : posts[key[1]].value = key[2], Cardinality(Occurrences) # Cardinality(keys)
               PROVE  FALSE
    BY DEF Complaints
  <2>1. keys \subseteq Occurrences
    <3> SUFFICES ASSUME NEW key \in keys PROVE key \in Occurrences
      OBVIOUS
    <3>1. PICK i \in Written, v \in Values \ (KnownValues \cup {Null}) : key = <<i, v>>
      BY DEF IngestInv, Keys
    <3>2. posts[i].value = v
      BY <3>1
    <3> QED BY <3>1, <3>2 DEF Occurrences
  <2>2. Occurrences = keys
    BY <2>1 DEF IngestInv, Keys
  <2> QED BY <2>2
<1>3. "floors" \in Complaints => \A i \in Written : posts[i].author = Null
  BY DEF Complaints, FloorPopulation
<1> QED BY <1>1, <1>2, <1>3 DEF IngestInv, Counted, Keys, TablesAgree

\* Posts, snapshots, authors, rejects and the run's own counters agree (write_page and what it
\* calls), for any posts and looks and any number of sweeps and pages.
THEOREM TablesStayInStep == IngestSpec => []TablesAgree
<1>1. IngestInit => IngestInv
  BY IngestStart
<1>2. IngestInv /\ [IngestNext]_ingestVars => IngestInv'
  BY IngestStep
<1> QED BY <1>1, <1>2, IngestSuffices, PTL DEF IngestSpec

\* A source keeps its identity and takes no post of another (_check_identity,
\* set_subreddit_identity).
THEOREM IdentityStands == IngestSpec => IdentityHolds
<1>1. IngestInit => IngestInv
  BY IngestStart
<1>2. IngestInv /\ [IngestNext]_ingestVars => IngestInv'
  BY IngestStep
<1>3. IngestInv /\ [IngestNext]_ingestVars => [IdentityStep]_ingestVars
  <2> SUFFICES ASSUME IngestInv, IngestNext PROVE IdentityStep
    OBVIOUS
  <2>1. CASE BeginSweep
    BY <2>1 DEF BeginSweep, IdentityStep
  <2>2. CASE Finish
    BY <2>2 DEF Finish, Adopted, IngestInv, InStep, IdentityStep
  <2>3. ASSUME NEW page \in Pages, NEW bad \in BOOLEAN, NEW met \in Identities \cup {Null},
               Page(page, bad, met)
        PROVE  IdentityStep
    <3>1. CASE RolledBack
      BY <2>3, <3>1 DEF Page, RolledBack, IdentityStep
    <3>2. CASE ~Foreign(met) /\ WritePage(page, bad, met) /\ sweeping' = TRUE
      <4>1. Writes(page, bad, met)
        BY <2>3, <3>2 DEF Writes, Page, IngestInv, IngestTypes
      <4>2. \A i \in Ids : posts'[i] # posts[i] => posts'[i].identity = met
        BY <4>1, RowsAfter
      <4>3. loaded # Null => met \in {loaded, Null}
        BY <3>2 DEF Foreign
      <4> QED BY <2>3, <4>2, <4>3 DEF Page, IdentityStep
    <3> QED BY <2>3, <3>1, <3>2 DEF Page
  <2> QED BY <2>1, <2>2, <2>3 DEF IngestNext
<1> QED BY <1>1, <1>2, <1>3, PTL DEF IngestSpec, IdentityHolds

-----------------------------------------------------------------------------
(* The gateways.                                                            *)

\* How far a process has come.
Stands == {"idle", "placed", "locked", "checked", "writing"}

Types ==
  /\ place \in {"default", "elsewhere"}
  /\ command \in [Processes -> Commands \cup {Null}]
  /\ at \in [Processes -> Stands]
  /\ asked \subseteq Processes

\* A process under way has a command.
Commanded == \A p \in Processes : at[p] # "idle" => command[p] \in Commands

\* A process past the lock that is not dry has it.
Locked ==
  \A p \in Processes :
    at[p] \in {"locked", "checked", "writing"} /\ ~command[p].dry => holder = p

\* What the place allowed still holds: the directory stays where it is while anybody is under way.
Placed ==
  \A p \in Processes : at[p] # "idle" => PlaceFits(command[p])

\* Real data is written under a row that says so, and the row outlives it.
OnRecord ==
  /\ \A p \in Processes :
       at[p] = "writing" /\ ~command[p].dry => command[p].gateway \in recorded \cap {"praw", "fake"}
  /\ "real" \in holds => Evidence # {}

\* What the rows allowed still holds: nobody else can write meanwhile.
Checked ==
  \A p \in Processes :
    at[p] \in {"checked", "writing"} /\ ~command[p].dry /\ command[p].gateway = "fake" =>
      ("real" \in holds => command[p].allow)

\* A gateway is built for the write alone.
Asked == \A p \in asked : at[p] = "writing"

IInv == Types /\ Commanded /\ Locked /\ Placed /\ OnRecord /\ Checked /\ Asked

\* The conjuncts say what the property asks.
LEMMA InvSuffices == IInv => NothingFabricated
  BY DEF IInv, Types, Commanded, Locked, Placed, OnRecord, Checked, Asked, NothingFabricated,
         PlaceFits

\* Nobody is under way and nothing is held.
LEMMA Start == GatewaysInit => IInv
  BY DEF GatewaysInit, IInv, Types, Commanded, Locked, Placed, OnRecord, Checked, Asked, Stands

\* Leaving frees the lock if it was one's own, and touches nobody else.
LEMMA LeaveKeeps ==
  ASSUME IInv, NEW p \in Processes, Leave(p), UNCHANGED <<place, holds>>,
         recorded' \in {recorded, recorded \cup {Null}}
  PROVE  IInv'
<1> USE DEF Leave, IInv
<1>1. at' \in [Processes -> Stands] /\ command' \in [Processes -> Commands \cup {Null}]
  BY DEF Types, Stands
<1>2. \A q \in Processes : q # p => at'[q] = at[q] /\ command'[q] = command[q]
  BY DEF Types
<1>3. at'[p] = "idle"
  BY DEF Types
<1>4. recorded \subseteq recorded' /\ Evidence' = Evidence
  BY DEF Evidence
<1>5. Types' /\ Commanded' /\ Asked'
  BY <1>1, <1>2, <1>3 DEF Types, Commanded, Asked
<1>6. Locked'
  BY <1>2, <1>3 DEF Locked
<1>7. Placed' /\ Checked'
  BY <1>2, <1>3 DEF Placed, PlaceFits, Checked
<1>8. OnRecord'
  BY <1>2, <1>3, <1>4 DEF OnRecord
<1> QED BY <1>5, <1>6, <1>7, <1>8

\* Every step keeps the invariant.
LEMMA Step == IInv /\ [GatewaysNext]_gatewayVars => IInv'
<1> SUFFICES ASSUME IInv, [GatewaysNext]_gatewayVars PROVE IInv'
  OBVIOUS
<1>1. CASE UNCHANGED gatewayVars
  BY <1>1 DEF gatewayVars, IInv, Types, Commanded, Locked, Placed, PlaceFits, OnRecord, Evidence,
              Checked, Asked
<1>2. CASE Owner
  <2>1. \A p \in Processes : at'[p] = "idle"
    BY <1>2 DEF Owner
  <2>2. Types' /\ Commanded' /\ Locked' /\ Placed' /\ Checked' /\ Asked'
    BY <1>2, <2>1 DEF Owner, IInv, Types, Commanded, Locked, Placed, Checked, Asked
  <2>3. OnRecord'
    BY <1>2, <2>1, GatewaysAssumption DEF Owner, IInv, OnRecord, Evidence
  <2> QED BY <2>2, <2>3 DEF IInv
<1>3. ASSUME NEW p \in Processes, NEW c \in Commands, Launch(p, c)
      PROVE  IInv'
  <2>1. \A q \in Processes : q # p => at'[q] = at[q] /\ command'[q] = command[q]
    BY <1>3 DEF Launch, IInv, Types
  <2>2. at'[p] = "placed" /\ command'[p] = c /\ PlaceFits(c)
    BY <1>3 DEF Launch, IInv, Types
  <2>3. Types' /\ Commanded' /\ Locked' /\ Asked'
    BY <1>3, <2>1, <2>2 DEF Launch, IInv, Types, Stands, Commanded, Locked, Asked
  <2>4. Placed' /\ Checked' /\ OnRecord'
    BY <1>3, <2>1, <2>2 DEF Launch, IInv, Placed, PlaceFits, Checked, OnRecord, Evidence
  <2> QED BY <2>3, <2>4 DEF IInv
<1>4. ASSUME NEW p \in Processes, PassDry(p) \/ Acquire(p)
      PROVE  IInv'
  <2>1. command' = command /\ at' \in [Processes -> Stands]
    BY <1>4 DEF PassDry, Acquire, Go, IInv, Types, Stands
  <2>2. at'[p] = "locked" /\ at[p] = "placed" /\ \A q \in Processes : q # p => at'[q] = at[q]
    BY <1>4 DEF PassDry, Acquire, Go, IInv, Types
  <2>3. UNCHANGED <<place, recorded, holds, asked>> /\ holder = Null
    BY <1>4 DEF PassDry, Acquire
  <2>4. Types' /\ Commanded' /\ Asked'
    BY <2>1, <2>2, <2>3 DEF IInv, Types, Commanded, Asked
  <2>5. Locked'
    <3>1. \A q \in Processes : at[q] \in {"locked", "checked", "writing"} => command[q].dry
      BY <2>3, GatewaysAssumption DEF IInv, Locked
    <3>2. ~command[p].dry => holder' = p
      BY <1>4 DEF PassDry, Acquire
    <3> QED BY <2>1, <2>2, <3>1, <3>2 DEF Locked
  <2>6. Placed' /\ Checked' /\ OnRecord'
    BY <2>1, <2>2, <2>3 DEF IInv, Placed, PlaceFits, Checked, OnRecord, Evidence
  <2> QED BY <2>4, <2>5, <2>6 DEF IInv
<1>5. ASSUME NEW p \in Processes, Refused(p) \/ End(p)
      PROVE  IInv'
  BY <1>5, LeaveKeeps DEF Refused, End
<1>6. ASSUME NEW p \in Processes, Check(p)
      PROVE  IInv'
  <2>1. CASE ~(file = "head" /\ RowsFit(command[p]))
    BY <1>6, <2>1, LeaveKeeps DEF Check
  <2>2. CASE file = "head" /\ RowsFit(command[p])
    <3>1. command' = command /\ at' \in [Processes -> Stands]
      BY <1>6, <2>2 DEF Check, Go, IInv, Types, Stands
    <3>2. at'[p] = "checked" /\ at[p] = "locked" /\ \A q \in Processes : q # p => at'[q] = at[q]
      BY <1>6, <2>2 DEF Check, Go, IInv, Types
    <3>3. UNCHANGED <<place, recorded, holds, asked, holder>>
      BY <1>6, <2>2 DEF Check
    <3>4. Types' /\ Commanded' /\ Asked' /\ Locked' /\ Placed' /\ OnRecord'
      BY <3>1, <3>2, <3>3 DEF IInv, Types, Commanded, Asked, Locked, Placed, PlaceFits,
                              OnRecord, Evidence
    <3>5. command[p].gateway = "fake" => ("real" \in holds => command[p].allow)
      BY <2>2 DEF RowsFit, IInv, OnRecord
    <3>6. Checked'
      BY <3>1, <3>2, <3>3, <3>5 DEF IInv, Checked
    <3> QED BY <3>4, <3>6 DEF IInv
  <2> QED BY <2>1, <2>2
<1>7. ASSUME NEW p \in Processes, Build(p)
      PROVE  IInv'
  <2>1. CASE command[p].gateway = "other"
    BY <1>7, <2>1, LeaveKeeps DEF Build
  <2>2. CASE command[p].gateway # "other"
    <3>1. command' = command /\ at' \in [Processes -> Stands]
      BY <1>7, <2>2 DEF Build, Go, IInv, Types, Stands
    <3>2. at'[p] = "writing" /\ at[p] = "checked" /\ \A q \in Processes : q # p => at'[q] = at[q]
      BY <1>7, <2>2 DEF Build, Go, IInv, Types
    <3>3. UNCHANGED <<place, holds, holder>> /\ asked' = asked \cup {p}
      BY <1>7, <2>2 DEF Build
    <3>4. recorded \subseteq recorded' /\ (~command[p].dry => command[p].gateway \in recorded')
      BY <1>7, <2>2 DEF Build
    <3>5. command[p].gateway \in {"praw", "fake"}
      BY <2>2, <3>2 DEF IInv, Commanded, Commands, GatewayKinds
    <3>6. Types' /\ Commanded' /\ Asked' /\ Locked' /\ Placed' /\ Checked'
      BY <3>1, <3>2, <3>3 DEF IInv, Types, Commanded, Asked, Locked, Placed, PlaceFits, Checked
    <3>7. OnRecord'
      BY <3>1, <3>2, <3>3, <3>4, <3>5 DEF IInv, OnRecord, Evidence
    <3> QED BY <3>6, <3>7 DEF IInv
  <2> QED BY <2>1, <2>2
<1>8. ASSUME NEW p \in Processes, Write(p)
      PROVE  IInv'
  <2>1. CASE command[p].dry
    BY <1>8, <2>1 DEF Write, IInv, Types, Commanded, Locked, Placed, PlaceFits, OnRecord,
                      Evidence, Checked, Asked
  <2>2. CASE ~command[p].dry
    <3>1. Types' /\ Commanded' /\ Locked' /\ Placed' /\ Asked'
      BY <1>8 DEF Write, IInv, Types, Commanded, Locked, Placed, PlaceFits, Asked
    <3>2. holds' = holds \cup {Data(command[p].gateway)}
      BY <1>8, <2>2 DEF Write
    <3>3. command[p].gateway \in recorded \cap {"praw", "fake"}
      BY <1>8, <2>2 DEF Write, IInv, OnRecord
    <3>4. "real" \in holds' => "real" \in holds \/ command[p].gateway = "praw"
      BY <3>2, <3>3 DEF Data
    <3>5. OnRecord'
      BY <1>8, <3>3, <3>4, GatewaysAssumption DEF Write, IInv, OnRecord, Evidence
    <3>6. \A q \in Processes : at[q] \in {"checked", "writing"} /\ ~command[q].dry => q = p
      BY <1>8, <2>2 DEF Write, IInv, Locked
    <3>7. Checked'
      BY <1>8, <3>4, <3>6 DEF Write, IInv, Checked
    <3> QED BY <3>1, <3>5, <3>7 DEF IInv
  <2> QED BY <2>1, <2>2
<1> QED BY <1>1, <1>2, <1>3, <1>4, <1>5, <1>6, <1>7, <1>8 DEF GatewaysNext

\* Nothing fabricated is written beside real data, in the default directory, or by anything
\* but the fake under a test (the guards of cli.py's run), for any number of processes.
THEOREM FakeStaysAway == GatewaysSpec => []NothingFabricated
<1>1. IInv /\ [GatewaysNext]_gatewayVars => IInv'
  BY Step
<1> QED BY <1>1, Start, InvSuffices, PTL DEF GatewaysSpec

-----------------------------------------------------------------------------
(* The columns and their owners.                                            *)

\* A row of posts: the columns the tree does not own are those of the last page that showed
\* it, but for when it was first seen; the rung is the number of its trees.
PostAgrees(p) ==
  /\ rows[p] = Unwritten => born[p] = 0 /\ trees[p] = 0 /\ provenance[p] = Unwritten
  /\ rows[p] # Unwritten =>
       /\ DOMAIN rows[p] = PostColumns /\ DOMAIN provenance[p] = {"first_seen_at"}
       /\ {rows[p].title} = shownLast[p] /\ rows[p].check_stage = trees[p] /\ trees[p] \in Nat
       /\ rows[p].first_seen_at = born[p] /\ born[p] \in Nat \ {0}
       /\ rows[p].last_fetched_at \in Nat /\ born[p] <= rows[p].last_fetched_at
       /\ rows[p].last_fetched_at <= clock
       /\ provenance[p].first_seen_at = born[p]

\* The author's row.
PersonAgrees ==
  /\ sightings \subseteq Posts \cup AuthorReplies
  /\ person = Unwritten => sightings = {}
  /\ person # Unwritten =>
       /\ DOMAIN person = {"first_seen_at", "last_seen_at"} /\ sightings # {}
       /\ person.last_seen_at = Max(sightings) /\ person.first_seen_at \in sightings

OwnersInv ==
  /\ clock \in Nat
  /\ DOMAIN rows = Posts /\ DOMAIN trees = Posts
  /\ \A p \in Posts : PostAgrees(p)
  /\ PersonAgrees

\* A finite set of numbers has a largest.
LEMMA MaxIs ==
  ASSUME NEW S \in SUBSET Nat, IsFiniteSet(S), S # {}
  PROVE  Max(S) \in S /\ \A n \in S : n <= Max(S)
<1> DEFINE Over(n) == {m \in S : m > n}
           All == {Over(n) : n \in S}
<1>1. All # {} /\ All \subseteq FiniteSubsetsOf(S)
  <2>1. \A n : Over(n) \in SUBSET S /\ IsFiniteSet(Over(n))
    BY FS_Subset
  <2> QED BY <2>1 DEF FiniteSubsetsOf
<1>2. IsWellFoundedOn(StrictSubsetOrdering(S), FiniteSubsetsOf(S))
  BY FS_StrictSubsetOrderingWellFounded
<1>3. PICK X \in All : \A Y \in All : <<Y, X>> \notin StrictSubsetOrdering(S)
  BY <1>1, <1>2, WFMin
<1>4. PICK n \in S : X = Over(n)
  BY <1>3
<1>5. ASSUME NEW m \in Over(n) PROVE FALSE
  <2>1. m \in S /\ m > n /\ n \in Nat /\ m \in Nat
    BY <1>4, <1>5
  <2>2. \A k \in S : k > m => k > n
    BY <2>1
  <2>3. ~(m > m)
    BY <2>1
  <2>4. Over(m) \subseteq Over(n) /\ m \notin Over(m)
    BY <2>2, <2>3
  <2>5. <<Over(m), Over(n)>> \in StrictSubsetOrdering(S)
    BY <1>5, <2>4 DEF StrictSubsetOrdering
  <2> QED BY <1>3, <1>4, <2>1, <2>5
<1>6. \A m \in S : n >= m
  BY <1>4, <1>5
<1>7. Max(S) \in S /\ \A m \in S : Max(S) >= m
  BY <1>4, <1>6 DEF Max
<1> QED BY <1>7

\* Of two sets, the larger of the largest.
LEMMA MaxOfBoth ==
  ASSUME NEW S \in SUBSET Nat, IsFiniteSet(S), S # {},
         NEW T \in SUBSET Nat, IsFiniteSet(T), T # {}
  PROVE  Max({Max(S), Max(T)}) = Max(S \cup T)
<1>1. IsFiniteSet(S \cup T)
  BY FS_Union
<1>2. PICK U : U = S \cup T
  OBVIOUS
<1>3. Max(U) \in U /\ \A n \in U : n <= Max(U)
  BY <1>1, <1>2, MaxIs
<1>4. /\ Max(S) \in S /\ \A n \in S : n <= Max(S)
      /\ Max(T) \in T /\ \A n \in T : n <= Max(T)
  BY MaxIs
<1>5. PICK a \in Nat, b \in Nat, u \in Nat : a = Max(S) /\ b = Max(T) /\ u = Max(U)
  BY <1>2, <1>3, <1>4
<1>6. u \in {a, b} /\ a <= u /\ b <= u
  BY <1>2, <1>3, <1>4, <1>5
<1>7. IsFiniteSet({a, b})
  <2>1. IsFiniteSet({a}) /\ {a, b} = {a} \cup {b}
    BY FS_Singleton
  <2> QED BY <2>1, FS_AddElement
<1>8. Max({a, b}) \in {a, b} /\ \A n \in {a, b} : n <= Max({a, b})
  BY <1>7, MaxIs
<1>9. Max({a, b}) = u
  BY <1>6, <1>8
<1> QED BY <1>2, <1>5, <1>9

\* With nothing written there is nothing to disagree about.
LEMMA OwnersBegin == OwnershipInit => OwnersInv
BY DEF OwnershipInit, OwnersInv, PostAgrees, PersonAgrees

\* The author's row after a page or a tree: the times seen before and now.
LEMMA PersonStep ==
  ASSUME PersonAgrees, NEW times \in SUBSET (Posts \cup AuthorReplies),
         WriteAuthor(times)
  PROVE  PersonAgrees'
<1>1. \A S \in SUBSET (Posts \cup AuthorReplies) : S \in SUBSET Nat /\ IsFiniteSet(S)
  BY FS_Subset, OwnershipAssumption
<1>2. sightings' = sightings \cup times /\ sightings \subseteq Posts \cup AuthorReplies
  BY DEF WriteAuthor, PersonAgrees
<1>3. CASE times = {}
  BY <1>2, <1>3 DEF WriteAuthor, PersonAgrees
<1>4. CASE times # {} /\ person = Unwritten
  <2>1. person' = [first_seen_at |-> Max(times), last_seen_at |-> Max(times)]
    BY <1>4 DEF WriteAuthor, Merged, AuthorValues
  <2>2. Max(times) \in times /\ sightings' = times
    BY <1>1, <1>2, <1>4, MaxIs DEF PersonAgrees
  <2>3. DOMAIN person' = {"first_seen_at", "last_seen_at"}
    BY <2>1
  <2>4. person' # Unwritten
    BY <2>3 DEF Unwritten
  <2>5. person'.last_seen_at = Max(times) /\ person'.first_seen_at = Max(times)
    BY <2>1
  <2> QED BY <1>2, <1>4, <2>2, <2>3, <2>4, <2>5 DEF PersonAgrees
<1>5. CASE times # {} /\ person # Unwritten
  <2>1. /\ DOMAIN person = {"first_seen_at", "last_seen_at"} /\ sightings # {}
        /\ person.last_seen_at = Max(sightings) /\ person.first_seen_at \in sightings
    BY <1>5 DEF PersonAgrees
  <2>2. person' = [c \in DOMAIN person |->
                     IF c \in {"last_seen_at"}
                     THEN Fragment(AuthorsOfEveryPath, person, AuthorValues(times), c)
                       ELSE person[c]]
    BY <1>5 DEF WriteAuthor, Merged, AuthorsOfEveryPath, Declared
  <2>3. Fragment(AuthorsOfEveryPath, person, AuthorValues(times), "last_seen_at")
          = Max({person.last_seen_at, Max(times)})
    BY DEF Fragment, AuthorsOfEveryPath, Declared, AuthorValues
  <2>4. Max({Max(sightings), Max(times)}) = Max(sightings')
    BY <1>1, <1>2, <1>5, <2>1, MaxOfBoth
  <2>5. /\ DOMAIN person' = {"first_seen_at", "last_seen_at"}
        /\ person'.first_seen_at = person.first_seen_at
        /\ person'.last_seen_at = Max(sightings')
    BY <2>1, <2>2, <2>3, <2>4
  <2>6. person' # Unwritten
    BY <2>5 DEF Unwritten
  <2> QED BY <1>2, <2>1, <2>5, <2>6 DEF PersonAgrees
<1> QED BY <1>3, <1>4, <1>5

\* A page shows the post, or leaves its row alone.
LEMMA PageKeepsPost ==
  ASSUME NEW page, SweptPage(page), OwnersInv, NEW p \in Posts PROVE PostAgrees(p)'
<1>1. /\ clock' = clock + 1 /\ clock \in Nat /\ trees' = trees
      /\ rows'[p] = IF p \in DOMAIN page
                    THEN Merged(PostsOfTheSweep, rows[p], PostValues(p, page[p])) ELSE rows[p]
      /\ provenance'[p] = IF p \in DOMAIN page
                          THEN Merged(SourcesOfTheSweep, provenance[p], SourceValues)
                          ELSE provenance[p]
      /\ born'[p] = IF born[p] = 0 /\ p \in DOMAIN page THEN clock + 1 ELSE born[p]
      /\ shownLast'[p] = IF p \in DOMAIN page THEN {page[p]} ELSE shownLast[p]
      /\ PostAgrees(p)
  BY DEF SweptPage, OwnersInv
<1>2. CASE p \notin DOMAIN page
  BY <1>1, <1>2 DEF PostAgrees
<1>3. CASE p \in DOMAIN page /\ rows[p] = Unwritten
  <2>1. /\ rows'[p] = PostValues(p, page[p]) /\ provenance'[p] = SourceValues
        /\ born'[p] = clock + 1 /\ trees'[p] = 0
    BY <1>1, <1>3 DEF Merged, PostAgrees
  <2>2. DOMAIN PostValues(p, page[p]) = PostColumns /\ DOMAIN SourceValues = {"first_seen_at"}
    BY DEF PostValues, SourceValues, PostColumns
  <2>3. rows'[p] # Unwritten
    BY <2>1, <2>2 DEF Unwritten, PostColumns
  <2>4. /\ rows'[p].title = page[p] /\ rows'[p].check_stage = 0
        /\ rows'[p].first_seen_at = clock + 1 /\ rows'[p].last_fetched_at = clock + 1
        /\ provenance'[p].first_seen_at = clock + 1
    BY <2>1 DEF PostValues, SourceValues
  <2>5. born[p] = 0 /\ trees'[p] = 0 /\ shownLast'[p] = {page[p]}
    BY <1>1, <1>3, <2>1 DEF PostAgrees
  <2> HIDE DEF PostAgrees
  <2>6. DOMAIN rows'[p] = PostColumns /\ DOMAIN provenance'[p] = {"first_seen_at"}
    BY <2>1, <2>2
  <2>7. clock' \in Nat /\ clock' = clock + 1 /\ clock + 1 \in Nat \ {0}
    BY <1>1
  <2> QED BY <2>1, <2>3, <2>4, <2>5, <2>6, <2>7 DEF PostAgrees
<1>4. CASE p \in DOMAIN page /\ rows[p] # Unwritten
  <2> DEFINE old == rows[p]
  <2>1. /\ DOMAIN rows'[p] = PostColumns
        /\ rows'[p].title = page[p] /\ rows'[p].last_fetched_at = clock + 1
        /\ rows'[p].check_stage = rows[p].check_stage
        /\ rows'[p].first_seen_at = rows[p].first_seen_at
    <3>1. rows'[p] = [c \in PostColumns |->
                        IF c \in {"title", "last_fetched_at"}
                        THEN Fragment(PostsOfTheSweep, old, PostValues(p, page[p]), c) ELSE old[c]]
      BY <1>1, <1>4 DEF Merged, PostAgrees, PostsOfTheSweep, Declared
    <3>2. \A c : Fragment(PostsOfTheSweep, old, PostValues(p, page[p]), c)
                   = PostValues(p, page[p])[c]
      BY DEF Fragment, PostsOfTheSweep, Declared
    <3> QED BY <3>1, <3>2 DEF PostColumns, PostValues
  <2>2. DOMAIN provenance[p] = {"first_seen_at"} /\ provenance[p] # Unwritten
    BY <1>1, <1>4 DEF PostAgrees, Unwritten
  <2>3. /\ DOMAIN provenance'[p] = {"first_seen_at"}
        /\ provenance'[p].first_seen_at = provenance[p].first_seen_at
    BY <1>1, <1>4, <2>2 DEF Merged, SourcesOfTheSweep, Declared
  <2>4. rows'[p] # Unwritten
    BY <2>1 DEF Unwritten, PostColumns
  <2> QED BY <1>1, <1>4, <2>1, <2>3, <2>4 DEF PostAgrees
<1> QED BY <1>2, <1>3, <1>4

\* A tree moves the rung of its post, and nothing else.
LEMMA TreeKeepsPost ==
  ASSUME NEW q \in Posts, NEW times, FetchedTree(q, times), OwnersInv, NEW p \in Posts
  PROVE  PostAgrees(p)'
<1>1. /\ clock' = clock + 1 /\ clock \in Nat /\ rows[q] # Unwritten
      /\ rows' = [rows EXCEPT ![q] = Stamped(@, @.check_stage + 1)]
      /\ trees' = [trees EXCEPT ![q] = @ + 1]
      /\ UNCHANGED <<provenance, born, shownLast>> /\ PostAgrees(p)
      /\ DOMAIN rows = Posts /\ DOMAIN trees = Posts
  BY DEF FetchedTree, OwnersInv
<1>2. CASE p # q
  <2>1. rows'[p] = rows[p] /\ trees'[p] = trees[p]
    BY <1>1, <1>2
  <2> QED BY <1>1, <2>1 DEF PostAgrees
<1>3. CASE p = q
  <2>1. rows'[p] = [rows[p] EXCEPT !.check_stage = rows[p].check_stage + 1]
        /\ trees'[p] = trees[p] + 1
    BY <1>1, <1>3 DEF Stamped
  <2>2. DOMAIN rows[p] = PostColumns
    BY <1>1, <1>3 DEF PostAgrees
  <2>3. /\ DOMAIN rows'[p] = PostColumns
        /\ rows'[p].title = rows[p].title /\ rows'[p].last_fetched_at = rows[p].last_fetched_at
        /\ rows'[p].check_stage = rows[p].check_stage + 1
        /\ rows'[p].first_seen_at = rows[p].first_seen_at
    BY <2>1, <2>2 DEF PostColumns
  <2>4. rows'[p] # Unwritten
    BY <2>3 DEF Unwritten, PostColumns
  <2> QED BY <1>1, <1>3, <2>1, <2>3, <2>4 DEF PostAgrees
<1> QED BY <1>2, <1>3

\* Every page and every tree keeps what is said of the rows.
LEMMA OwnersStep == OwnersInv /\ [OwnershipNext]_ownedVars => OwnersInv'
<1> SUFFICES ASSUME OwnersInv, [OwnershipNext]_ownedVars PROVE OwnersInv'
  OBVIOUS
<1>1. CASE UNCHANGED ownedVars
  BY <1>1 DEF ownedVars, OwnersInv, PostAgrees, PersonAgrees
<1>2. ASSUME NEW on \in SUBSET Posts \ {{}}, NEW page \in [on -> Titles], SweptPage(page)
      PROVE  OwnersInv'
  <2>1. /\ clock' \in Nat /\ DOMAIN rows' = Posts /\ DOMAIN trees' = Posts
        /\ WriteAuthor(DOMAIN page) /\ DOMAIN page \in SUBSET (Posts \cup AuthorReplies)
    BY <1>2 DEF SweptPage, OwnersInv
  <2>2. PersonAgrees'
    BY <2>1, PersonStep DEF OwnersInv
  <2> QED BY <1>2, <2>1, <2>2, PageKeepsPost DEF OwnersInv
<1>3. ASSUME NEW q \in Posts, NEW times \in SUBSET AuthorReplies, FetchedTree(q, times) PROVE OwnersInv'
  <2>1. /\ clock' \in Nat /\ DOMAIN rows' = Posts /\ DOMAIN trees' = Posts
        /\ WriteAuthor(times) /\ times \in SUBSET (Posts \cup AuthorReplies)
    BY <1>3 DEF FetchedTree, OwnersInv
  <2>2. PersonAgrees'
    BY <2>1, PersonStep DEF OwnersInv
  <2> QED BY <1>3, <2>1, <2>2, TreeKeepsPost DEF OwnersInv
<1> QED BY <1>1, <1>2, <1>3 DEF OwnershipNext

\* Whatever pages and trees write the same posts and the same author, in whatever order: a
\* post shows what the last page showed, stands on the rung its trees climbed and keeps the
\* moment it was first seen, as its provenance does, and the author was last seen at the
\* newest of his items.
THEOREM ColumnsHaveOwners == OwnershipSpec => []OwnersAgree
<1>1. OwnersInv => OwnersAgree
  BY DEF OwnersInv, PostAgrees, PersonAgrees, OwnersAgree
<1> QED BY <1>1, OwnersBegin, OwnersStep, PTL DEF OwnershipSpec

-----------------------------------------------------------------------------
(* The rows and their readers.                                              *)

\* The rows of runs.
RunRow ==
  [kind : {"run", "migrate"}, status : {"running", "ended", "network", "crashed", "skipped_locked"},
   day : Nat, finished : BOOLEAN, stops : Swept, verdict : SUBSET SUBSET Sources]

\* The rows and the numbers are what they should be.
HistoryTypes ==
  /\ runs \in Seq(RunRow) /\ Len(runs) <= MaxRuns
  /\ held \in 0 .. Len(runs) /\ today \in Nat /\ link \in Nat

\* A run is judged by rows that are closed for good.
Judged ==
  /\ held # 0 => runs[held].status = "running"
                   /\ \A j \in 1 .. held - 1 : runs[j].status # "running"
  /\ \A i \in 1 .. Len(runs) : runs[i].verdict # {} =>
       i # held /\ \A j \in 1 .. i : runs[j].status # "running"

\* From row `top` down to row `last`.
Down(top, last) == [n \in 1 .. top - last + 1 |-> top - n + 1]

\* The pages before a reader are consecutive rows, with a next link until the first.
Paged ==
  \/ shown = <<>> /\ ~more
  \/ \E top \in 1 .. Len(runs) : \E last \in 1 .. top :
       shown = Down(top, last) /\ (more <=> last > 1)

\* The day a reader is sent to has a finished run.
Linked ==
  link # 0 =>
    \E i \in 1 .. Len(runs) : runs[i].kind = "run" /\ runs[i].finished /\ runs[i].day = link

\* The invariant: the verdicts hold, and with them that what they were drawn from is closed.
HistoryInv == HistoryTypes /\ Judged /\ StaleAgrees /\ Paged /\ Linked

\* The rows are a sequence, each a row.
LEMMA RowsAre ==
  ASSUME HistoryTypes
  PROVE  /\ Len(runs) \in Nat /\ DOMAIN runs = 1 .. Len(runs)
         /\ \A i \in 1 .. Len(runs) : runs[i] \in RunRow
  BY DEF HistoryTypes

-----------------------------------------------------------------------------
(* The windows.                                                             *)

\* The newest few of a finite set: all of it or as many as asked for, and its upper end.
LEMMA NewestIs ==
  ASSUME NEW E \in SUBSET Nat, IsFiniteSet(E), NEW n \in Nat \ {0}
  PROVE  /\ Newest(n, E) = E \/ Cardinality(Newest(n, E)) >= n
         /\ Newest(n, E) \subseteq Newest(n + 1, E) /\ Newest(n + 1, E) \subseteq E
         /\ \A p \in E \ Newest(n, E), q \in Newest(n, E) : q > p
<1> DEFINE After(p) == {q \in E : q > p}
           Out == {After(p) : p \in E \ Newest(n, E)}
<1>1. Newest(n, E) \in SUBSET E /\ \A p \in E : p \in Newest(n, E) <=> Cardinality(After(p)) < n
  BY DEF Newest
<1>2. \A p : After(p) \in SUBSET E /\ IsFiniteSet(After(p)) /\ Cardinality(After(p)) \in Nat
  BY FS_Subset, FS_CardinalityType
<1>3. Newest(n, E) \subseteq Newest(n + 1, E) /\ Newest(n + 1, E) \subseteq E
  BY <1>2 DEF Newest
<1>4. ASSUME NEW p \in E \ Newest(n, E), NEW q \in Newest(n, E) PROVE q > p
  <2>1. p \in Nat /\ q \in Nat /\ p \in E /\ q \in E
    BY <1>1
  <2>2. ASSUME q <= p PROVE FALSE
    <3>1. \A r \in E : r > p => r > q
      BY <2>1, <2>2
    <3>2. After(p) \in SUBSET After(q)
      BY <3>1
    <3>3. Cardinality(After(p)) <= Cardinality(After(q))
      BY <1>2, <3>2, FS_Subset
    <3> QED BY <1>1, <1>2, <2>1, <3>3
  <2> QED BY <2>1, <2>2
<1>5. ASSUME Newest(n, E) # E PROVE Cardinality(Newest(n, E)) >= n
  <2>1. Out # {} /\ Out \subseteq FiniteSubsetsOf(E)
    BY <1>1, <1>2, <1>5 DEF FiniteSubsetsOf
  <2>2. IsWellFoundedOn(StrictSubsetOrdering(E), FiniteSubsetsOf(E))
    BY FS_StrictSubsetOrderingWellFounded
  <2>3. PICK X \in Out : \A Y \in Out : <<Y, X>> \notin StrictSubsetOrdering(E)
    BY <2>1, <2>2, WFMin
  <2>4. PICK p \in E \ Newest(n, E) : X = After(p)
    OBVIOUS
  <2>5. ASSUME NEW q \in After(p) PROVE q \in Newest(n, E)
    <3>1. q \in E /\ q > p /\ p \in Nat /\ q \in Nat
      OBVIOUS
    <3>2. (\A r \in E : r > q => r > p) /\ ~(q > q)
      BY <3>1
    <3>3. After(q) \subseteq After(p) /\ q \notin After(q)
      BY <3>2
    <3>4. <<After(q), After(p)>> \in StrictSubsetOrdering(E)
      BY <3>3 DEF StrictSubsetOrdering
    <3>5. After(q) \notin Out
      BY <2>3, <2>4, <3>4
    <3> QED BY <3>5
  <2>6. IsFiniteSet(Newest(n, E)) /\ After(p) \in SUBSET Newest(n, E)
    BY <1>1, <2>5, FS_Subset
  <2>7. Cardinality(After(p)) <= Cardinality(Newest(n, E)) /\ Cardinality(Newest(n, E)) \in Nat
    BY <2>6, FS_Subset, FS_CardinalityType
  <2>8. ~(Cardinality(After(p)) < n)
    BY <1>1
  <2> QED BY <1>2, <2>7, <2>8
<1> QED BY <1>3, <1>4, <1>5

\* The digest counts the rows since the last read in a window one longer than the threshold;
\* the invariant looks for a read in a window as long.  They say the same of any rows.
LEMMA SinceIsWithin ==
  ASSUME NEW E \in SUBSET Nat, IsFiniteSet(E), NEW n \in Nat \ {0}, NEW R
  PROVE  LET hits == Newest(n + 1, E) \cap R
             since == {j \in Newest(n + 1, E) : j > Max(hits)}
         IN  (IF hits = {} THEN Cardinality(Newest(n + 1, E)) ELSE Cardinality(since)) >= n
               <=> ~(Cardinality(Newest(n, E)) < n) /\ Newest(n, E) \cap R = {}
<1> DEFINE W == Newest(n, E)
           V == Newest(n + 1, E)
           hits == V \cap R
           since == {j \in V : j > Max(hits)}
           count == IF hits = {} THEN Cardinality(V) ELSE Cardinality(since)
<1> SUFFICES count >= n <=> ~(Cardinality(W) < n) /\ W \cap R = {}
  OBVIOUS
<1>1. /\ W = E \/ Cardinality(W) >= n
      /\ W \subseteq V /\ V \subseteq E /\ E \subseteq Nat /\ n \in Nat
      /\ \A p \in E \ W, q \in W : q > p
  BY NewestIs
<1>2. \A j \in W : Cardinality({k \in E : k > j}) < n
  BY DEF Newest
<1> HIDE DEF W, V
<1>3. hits # {} => Max(hits) \in hits /\ \A k \in hits : k <= Max(hits)
  <2>1. hits \in SUBSET E /\ hits \in SUBSET Nat
    BY <1>1
  <2> HIDE DEF hits
  <2> QED BY <2>1, MaxIs, FS_Subset
<1>4. hits = {} => count = Cardinality(V)
  OBVIOUS
<1>5. hits # {} => count = Cardinality(since)
  OBVIOUS
<1>6. V \in SUBSET E /\ W \in SUBSET V /\ since \in SUBSET V /\ hits = V \cap R
  BY <1>1
<1>7. \A j : j \in since <=> j \in V /\ j > Max(hits)
  OBVIOUS
<1> HIDE DEF hits, since, count
<1>8. /\ IsFiniteSet(V) /\ IsFiniteSet(W) /\ IsFiniteSet(since)
      /\ Cardinality(V) \in Nat /\ Cardinality(W) \in Nat /\ Cardinality(since) \in Nat
      /\ Cardinality(since) <= Cardinality(V) /\ Cardinality(W) <= Cardinality(V)
  <2>1. IsFiniteSet(V)
    BY <1>6, FS_Subset
  <2> QED BY <1>6, <2>1, FS_Subset, FS_CardinalityType
<1>9. CASE Cardinality(W) < n
  <2>1. W = E
    BY <1>1, <1>8, <1>9
  <2>2. V = W
    BY <1>6, <2>1
  <2> QED BY <1>1, <1>4, <1>5, <1>8, <1>9, <2>2
<1>10. CASE ~(Cardinality(W) < n) /\ W \cap R = {}
  <2>1. CASE hits = {}
    BY <1>1, <1>4, <1>8, <1>10, <2>1
  <2>2. CASE hits # {}
    <3>1. Max(hits) \in E \ W
      BY <1>3, <1>6, <1>10, <2>2
    <3>2. W \in SUBSET since
      BY <1>1, <1>6, <1>7, <3>1
    <3>3. Cardinality(W) <= Cardinality(since)
      BY <1>8, <3>2, FS_Subset
    <3> QED BY <1>1, <1>5, <1>8, <1>10, <2>2, <3>3
  <2> QED BY <2>1, <2>2
<1>11. ASSUME NEW j \in W \cap R PROVE ~(count >= n)
  <2>1. j \in hits /\ j \in Nat /\ j \in W
    BY <1>1, <1>6
  <2>2. Max(hits) \in Nat /\ j <= Max(hits)
    BY <1>1, <1>3, <1>6, <2>1
  <2>3. \A k \in Nat : k > Max(hits) => k > j
    BY <2>1, <2>2
  <2> DEFINE after == {k \in E : k > j}
  <2>4. since \in SUBSET after /\ after \in SUBSET E
    BY <1>1, <1>6, <1>7, <2>3
  <2>5. Cardinality(after) < n
    BY <1>2, <2>1
  <2> HIDE DEF after
  <2>6. IsFiniteSet(after)
    BY <2>4, FS_Subset
  <2>7. Cardinality(after) \in Nat /\ Cardinality(since) <= Cardinality(after)
    BY <2>4, <2>6, FS_Subset, FS_CardinalityType
  <2> QED BY <1>1, <1>5, <1>8, <2>1, <2>5, <2>7
<1> QED BY <1>9, <1>10, <1>11

\* What the digest calls stale is what the invariant calls unfetched, on the same rows.
LEMMA StaleIsUnfetched ==
  ASSUME HistoryTypes, NEW i \in 1 .. Len(runs)
  PROVE  StaleSources(i) = Unfetched(i)
<1> DEFINE E == {j \in 1 .. i : runs[j].kind = "run" /\ runs[j].stops # NoRows
                                 /\ (j = i \/ runs[j].status \notin {"running", "skipped_locked"})}
<1>1. SweepingRuns(i, StaleAfter) = Newest(StaleAfter, E)
        /\ SweepingRuns(i, StaleAfter + 1) = Newest(StaleAfter + 1, E)
  BY DEF SweepingRuns
<1>2. IsFiniteSet(E) /\ E \in SUBSET Nat /\ StaleAfter \in Nat \ {0}
  <2>1. E \in SUBSET (1 .. i) /\ i \in Nat
    BY RowsAre
  <2> HIDE DEF E
  <2>2. IsFiniteSet(1 .. i)
    BY <2>1, FS_Interval
  <2>3. E \in SUBSET Nat
    BY <2>1
  <2>4. IsFiniteSet(E)
    BY <2>1, <2>2, FS_Subset
  <2> QED BY <2>3, <2>4, HistoryAssumption
<1> HIDE DEF E
<1>3. ASSUME NEW s \in Sources
      PROVE  IsStale(i, s) <=> ~(Cardinality(Newest(StaleAfter, E)) < StaleAfter)
                               /\ \A j \in Newest(StaleAfter, E) : runs[j].stops[s] # "read"
  <2> DEFINE R == {j \in E : runs[j].stops[s] = "read"}
             hits == Newest(StaleAfter + 1, E) \cap R
             since == {j \in Newest(StaleAfter + 1, E) : j > Max(hits)}
  <2>1. (IF hits = {} THEN Cardinality(Newest(StaleAfter + 1, E))
          ELSE Cardinality(since)) >= StaleAfter
          <=> ~(Cardinality(Newest(StaleAfter, E)) < StaleAfter)
              /\ Newest(StaleAfter, E) \cap R = {}
    <3> HIDE DEF R
    <3> QED BY <1>2, SinceIsWithin
  <2>2. IsStale(i, s) <=>
          (IF hits = {} THEN Cardinality(Newest(StaleAfter + 1, E))
            ELSE Cardinality(since)) >= StaleAfter
    <3>1. Newest(StaleAfter + 1, E) \subseteq E
      BY DEF Newest
    <3>2. {j \in Newest(StaleAfter + 1, E) : runs[j].stops[s] = "read"} = hits
      BY <3>1
    <3> QED BY <1>1, <3>2 DEF IsStale, RunsSinceFetched
  <2>3. Newest(StaleAfter, E) \cap R = {}
          <=> \A j \in Newest(StaleAfter, E) : runs[j].stops[s] # "read"
    BY DEF Newest
  <2> QED BY <2>1, <2>2, <2>3
<1> QED BY <1>1, <1>3 DEF StaleSources, Unfetched

\* Staleness is read off the rows up to the run's own.
LEMMA SameRows ==
  ASSUME HistoryTypes, HistoryTypes', NEW i \in 1 .. Len(runs), Len(runs') >= Len(runs),
         \A j \in 1 .. i :
           /\ runs'[j].kind = runs[j].kind /\ runs'[j].stops = runs[j].stops
           /\ j < i => (runs'[j].status \in {"running", "skipped_locked"}
                         <=> runs[j].status \in {"running", "skipped_locked"})
  PROVE  StaleSources(i)' = StaleSources(i)
<1> DEFINE D == {j \in 1 .. i : runs[j].kind = "run" /\ runs[j].stops # NoRows
                                 /\ (j = i \/ runs[j].status \notin {"running", "skipped_locked"})}
<1>1. D' = D
  BY RowsAre
<1>2. SweepingRuns(i, StaleAfter + 1)' = SweepingRuns(i, StaleAfter + 1)
  BY <1>1 DEF SweepingRuns, Newest
<1>3. \A j \in SweepingRuns(i, StaleAfter + 1) : j \in 1 .. i
  BY DEF SweepingRuns, Newest
<1> DEFINE V == SweepingRuns(i, StaleAfter + 1)
<1>4. ASSUME NEW s \in Sources PROVE IsStale(i, s)' = IsStale(i, s)
  <2>1. {j \in V : runs'[j].stops[s] = "read"} = {j \in V : runs[j].stops[s] = "read"}
    BY <1>3
  <2> HIDE DEF V
  <2> QED BY <1>2, <2>1 DEF IsStale, RunsSinceFetched, V
<1> QED BY <1>4 DEF StaleSources

-----------------------------------------------------------------------------
(* The pages.                                                               *)

\* How many of consecutive rows come after one of them.
LEMMA AfterInInterval ==
  ASSUME NEW a \in Nat, NEW b \in Nat, NEW i \in a .. b
  PROVE  Cardinality({j \in a .. b : j > i}) = b - i
<1>1. {j \in a .. b : j > i} = (i + 1) .. b
  OBVIOUS
<1>2. i + 1 \in Int /\ b \in Int
  OBVIOUS
<1>3. Cardinality((i + 1) .. b) = IF i + 1 > b THEN 0 ELSE b - (i + 1) + 1
  BY <1>2, FS_Interval
<1>4. (IF i + 1 > b THEN 0 ELSE b - (i + 1) + 1) = b - i
  BY <1>2
<1> QED BY <1>1, <1>3, <1>4

\* The newest of consecutive rows are their upper end.
LEMMA NewestOfInterval ==
  ASSUME NEW a \in Nat, NEW b \in Nat, NEW n \in Nat \ {0}
  PROVE  Newest(n, a .. b) = (IF b - n + 1 > a THEN b - n + 1 ELSE a) .. b
<1>1. ASSUME NEW i \in a .. b PROVE Cardinality({j \in a .. b : j > i}) = b - i
  BY AfterInInterval
<1>2. Newest(n, a .. b) = {i \in a .. b : b - i < n}
  BY <1>1 DEF Newest
<1>3. \A i \in a .. b : b - i < n <=> i \in (IF b - n + 1 > a THEN b - n + 1 ELSE a) .. b
  OBVIOUS
<1>4. (IF b - n + 1 > a THEN b - n + 1 ELSE a) .. b \subseteq a .. b
  OBVIOUS
<1> QED BY <1>2, <1>3, <1>4

\* Consecutive rows, newest first.
LEMMA DescendingInterval ==
  ASSUME NEW a \in Nat, NEW b \in Nat, a <= b + 1
  PROVE  Descending(a .. b) = Down(b, a)
<1>1. Cardinality(a .. b) = b - a + 1
  <2>1. Cardinality(a .. b) = IF a > b THEN 0 ELSE b - a + 1
    BY FS_Interval
  <2> QED BY <2>1
<1>2. ASSUME NEW i \in a .. b PROVE Cardinality({j \in a .. b : j > i}) = b - i
  BY AfterInInterval
<1>3. ASSUME NEW n \in 1 .. b - a + 1
      PROVE  (CHOOSE i \in a .. b : Cardinality({j \in a .. b : j > i}) = n - 1) = b - n + 1
  <2>1. b - n + 1 \in a .. b /\ b - (b - n + 1) = n - 1
    OBVIOUS
  <2>2. \A i \in a .. b : Cardinality({j \in a .. b : j > i}) = n - 1 <=> i = b - n + 1
    BY <1>2
  <2> QED BY <2>1, <2>2
<1> QED BY <1>1, <1>3 DEF Descending, Down

\* One page: the rows from b downwards, and a next link unless it reaches the first.
LEMMA OnePage ==
  ASSUME NEW b \in Nat
  PROVE  LET found == Newest(PageSize + 1, 1 .. b)
             page  == Newest(PageSize, found)
         IN  \E last \in 1 .. b + 1 :
               /\ Descending(page) = Down(b, last)
               /\ b > 0 => last <= b
               /\ found # page <=> last > 1
<1> DEFINE low == IF b - PageSize > 1 THEN b - PageSize ELSE 1
           last == IF b - PageSize + 1 > 1 THEN b - PageSize + 1 ELSE 1
<1>1. PageSize \in Nat \ {0}
  BY HistoryAssumption
<1>2. Newest(PageSize + 1, 1 .. b) = low .. b
  <2>1. PageSize + 1 \in Nat \ {0} /\ b - (PageSize + 1) + 1 = b - PageSize /\ 1 \in Nat
    BY <1>1
  <2> QED BY <2>1, NewestOfInterval
<1>3. Newest(PageSize, low .. b) = last .. b
  <2>1. low \in Nat /\ (IF b - PageSize + 1 > low THEN b - PageSize + 1 ELSE low) = last
    BY <1>1
  <2> HIDE DEF low, last
  <2> QED BY <1>1, <2>1, NewestOfInterval
<1>4. last \in 1 .. b + 1 /\ (b > 0 => last <= b)
  BY <1>1
<1>5. low .. b # last .. b <=> last > 1
  <2>1. CASE last > 1
    <3>1. low \in low .. b /\ low \notin last .. b
      BY <1>1, <2>1
    <3> QED BY <2>1, <3>1
  <2>2. CASE ~(last > 1)
    BY <1>1, <2>2
  <2> QED BY <2>1, <2>2
<1>6. Descending(last .. b) = Down(b, last)
  <2>1. last \in Nat /\ last <= b + 1
    BY <1>4
  <2> HIDE DEF last
  <2> QED BY <2>1, DescendingInterval
<1> HIDE DEF low, last
<1> QED BY <1>2, <1>3, <1>4, <1>5, <1>6

\* The first page.
LEMMA OpenRunsStep ==
  ASSUME HistoryTypes, OpenRuns PROVE Paged'
<1> DEFINE b == Len(runs)
           found == Newest(PageSize + 1, 1 .. b)
           page == Newest(PageSize, found)
<1>1. b \in Nat /\ DOMAIN runs = 1 .. b /\ b <= MaxRuns /\ MaxRuns \in Nat /\ runs' = runs
  BY RowsAre, HistoryAssumption DEF HistoryTypes, OpenRuns
<1>2. {i \in DOMAIN runs : Before(i, MaxRuns + 1)} = 1 .. b
  BY <1>1 DEF Before
<1>3. shown' = Descending(page) /\ (more' <=> found # page)
  <2>1. RunsPage(MaxRuns + 1)
    BY DEF OpenRuns
  <2>2. MaxRuns + 1 > MaxRuns
    BY <1>1
  <2> QED BY <1>2, <2>1, <2>2 DEF RunsPage
<1> HIDE DEF b
<1>4. PICK last \in 1 .. b + 1 : /\ Descending(page) = Down(b, last)
                                 /\ b > 0 => last <= b
                                 /\ found # page <=> last > 1
  BY <1>1, OnePage
<1>5. CASE b = 0
  <2>1. Down(b, last) = <<>> /\ last = 1
    BY <1>5 DEF Down
  <2> QED BY <1>3, <1>4, <2>1 DEF Paged
<1>6. CASE b > 0
  <2>1. b \in 1 .. Len(runs') /\ last \in 1 .. b /\ shown' = Down(b, last) /\ (more' <=> last > 1)
    BY <1>1, <1>3, <1>4, <1>6 DEF b
  <2> QED BY <2>1 DEF Paged
<1> QED BY <1>1, <1>5, <1>6

\* A page and the page below it.
LEMMA DownJoins ==
  ASSUME NEW top \in Nat, NEW last \in 1 .. top, NEW next \in 1 .. last - 1
  PROVE  Down(top, last) \o Down(last - 1, next) = Down(top, next)
<1> DEFINE d == Down(top, last)
           e == Down(last - 1, next)
<1>1. /\ d \in Seq(Int) /\ Len(d) = top - last + 1
      /\ \A n \in 1 .. Len(d) : d[n] = top - n + 1
  BY DEF Down
<1>2. /\ e \in Seq(Int) /\ Len(e) = last - next
      /\ \A n \in 1 .. Len(e) : e[n] = last - n
  BY DEF Down
<1>3. /\ Down(top, next) \in Seq(Int) /\ Len(Down(top, next)) = top - next + 1
      /\ \A n \in 1 .. top - next + 1 : Down(top, next)[n] = top - n + 1
  BY DEF Down
<1> HIDE DEF d, e
<1>4. /\ d \o e \in Seq(Int) /\ Len(d \o e) = Len(d) + Len(e)
      /\ \A n \in 1 .. Len(d) + Len(e) :
           (d \o e)[n] = IF n <= Len(d) THEN d[n] ELSE e[n - Len(d)]
  BY <1>1, <1>2, ConcatProperties
<1>5. Len(d \o e) = top - next + 1
  BY <1>1, <1>2, <1>4
<1>6. ASSUME NEW n \in 1 .. top - next + 1 PROVE (d \o e)[n] = top - n + 1
  <2>1. CASE n <= Len(d)
    BY <1>1, <1>2, <1>4, <2>1
  <2>2. CASE n > Len(d)
    <3>1. n - Len(d) \in 1 .. Len(e) /\ last - (n - Len(d)) = top - n + 1
      BY <1>1, <1>2, <2>2
    <3>2. n \in 1 .. Len(d) + Len(e) /\ ~(n <= Len(d))
      BY <1>1, <1>2, <2>2
    <3>3. (d \o e)[n] = e[n - Len(d)]
      BY <1>4, <3>2
    <3> QED BY <1>2, <3>1, <3>3
  <2>3. n <= Len(d) \/ n > Len(d)
    BY <1>1
  <2> QED BY <2>1, <2>2, <2>3
<1>7. d \o e = Down(top, next)
  <2>1. \A n \in 1 .. Len(d \o e) : (d \o e)[n] = Down(top, next)[n]
    BY <1>3, <1>5, <1>6
  <2> QED BY <1>3, <1>4, <1>5, <2>1, SeqEqual
<1> QED BY <1>7 DEF d, e

\* The next page.
LEMMA NextRunsStep ==
  ASSUME HistoryTypes, Paged, NextRuns PROVE Paged'
<1>1. PICK top \in 1 .. Len(runs) : \E last \in 1 .. top :
        shown = Down(top, last) /\ (more <=> last > 1)
  BY DEF Paged, NextRuns
<1>2. PICK last \in 1 .. top : shown = Down(top, last) /\ (more <=> last > 1)
  BY <1>1
<1>3. /\ Len(runs) \in Nat /\ DOMAIN runs = 1 .. Len(runs) /\ runs' = runs
      /\ Len(runs) <= MaxRuns /\ MaxRuns \in Nat
  BY RowsAre, HistoryAssumption DEF HistoryTypes, NextRuns
<1>4. last \in Nat /\ last > 1 /\ last <= top /\ top \in Nat /\ top <= Len(runs)
  BY <1>2, <1>3 DEF NextRuns
<1>5. Len(shown) = top - last + 1 /\ shown[Len(shown)] = last
  BY <1>2, <1>4 DEF Down
<1> DEFINE b == last - 1
           found == Newest(PageSize + 1, 1 .. b)
           page == Newest(PageSize, found)
<1>6. {i \in DOMAIN runs : Before(i, last)} = 1 .. b
  BY <1>3, <1>4 DEF Before
<1>7. shown' = shown \o Descending(page) /\ (more' <=> found # page)
  <2>1. RunsPage(last)
    BY <1>5 DEF NextRuns
  <2>2. ~(last > MaxRuns)
    BY <1>3, <1>4
  <2> QED BY <1>6, <2>1, <2>2 DEF RunsPage
<1>8. b \in Nat /\ b > 0 /\ last = b + 1
  BY <1>4
<1> HIDE DEF b
<1>9. PICK next \in 1 .. b + 1 : /\ Descending(page) = Down(b, next)
                                 /\ b > 0 => next <= b
                                 /\ found # page <=> next > 1
  BY <1>8, OnePage
<1>10. Down(top, last) \o Down(b, next) = Down(top, next)
  <2>1. last \in 1 .. top /\ next \in 1 .. last - 1 /\ b = last - 1
    BY <1>4, <1>8, <1>9
  <2> QED BY <1>4, <2>1, DownJoins
<1>11. next \in 1 .. top /\ top \in 1 .. Len(runs')
  BY <1>3, <1>4, <1>8, <1>9
<1> QED BY <1>2, <1>7, <1>9, <1>10, <1>11, <1>8 DEF Paged

-----------------------------------------------------------------------------
(* The steps.                                                               *)

\* A command that leaves what is closed as it is, and judges nothing.
LEMMA NothingJudged ==
  ASSUME HistoryInv, HistoryTypes', Len(runs') >= Len(runs),
         UNCHANGED <<shown, more, link>>,
         \A i \in 1 .. Len(runs) :
           /\ runs[i].status # "running" => runs'[i] = runs[i]
           /\ runs'[i].kind = runs[i].kind /\ runs'[i].day = runs[i].day
           /\ runs[i].finished => runs'[i].finished,
         \A i \in 1 .. Len(runs') : runs'[i].verdict # {} =>
           i <= Len(runs) /\ runs'[i].verdict = runs[i].verdict,
         held' # 0 => runs'[held'].status = "running"
                        /\ \A j \in 1 .. held' - 1 : runs'[j].status # "running"
  PROVE  HistoryInv'
<1>1. Len(runs) \in Nat /\ Len(runs') \in Nat /\ DOMAIN runs = 1 .. Len(runs)
        /\ DOMAIN runs' = 1 .. Len(runs')
  BY RowsAre DEF HistoryInv, HistoryTypes
<1>2. ASSUME NEW i \in 1 .. Len(runs'), runs'[i].verdict # {}
      PROVE  /\ i \in 1 .. Len(runs) /\ runs'[i].verdict = runs[i].verdict /\ i # held'
             /\ \A j \in 1 .. i : j \in 1 .. Len(runs) /\ runs[j].status # "running"
                                    /\ runs'[j] = runs[j]
  <2>1. i \in 1 .. Len(runs) /\ runs'[i].verdict = runs[i].verdict
    BY <1>1, <1>2
  <2>2. \A j \in 1 .. i : j \in 1 .. Len(runs) /\ runs[j].status # "running"
    BY <1>1, <1>2, <2>1 DEF HistoryInv, Judged
  <2>3. \A j \in 1 .. i : runs'[j] = runs[j]
    BY <2>2
  <2>4. i # held'
    <3>1. i \in 1 .. i /\ i # 0
      BY <2>1
    <3> QED BY <2>2, <2>3, <3>1
  <2> QED BY <2>1, <2>2, <2>3, <2>4
<1>3. Judged'
  <2>1. \A i \in 1 .. Len(runs') : runs'[i].verdict # {} =>
          i # held' /\ \A j \in 1 .. i : runs'[j].status # "running"
    BY <1>2
  <2> QED BY <2>1 DEF Judged
<1>4. StaleAgrees'
  <2>1. ASSUME NEW i \in 1 .. Len(runs'), runs'[i].verdict # {}
        PROVE  StaleSources(i)' = StaleSources(i)
    <3>1. i \in 1 .. Len(runs) /\ \A j \in 1 .. i : runs'[j] = runs[j]
      BY <1>2, <2>1
    <3> QED BY <3>1, SameRows DEF HistoryInv
  <2>2. ASSUME NEW i \in 1 .. Len(runs'), NEW stale \in runs'[i].verdict
        PROVE  StaleSources(i)' = stale
    <3>1. i \in 1 .. Len(runs) /\ stale \in runs[i].verdict
      BY <1>2, <2>2
    <3>2. StaleSources(i) = stale
      BY <1>1, <3>1 DEF HistoryInv, StaleAgrees
    <3> QED BY <2>1, <2>2, <3>2
  <2> QED BY <1>1, <2>2 DEF StaleAgrees
<1>5. Paged'
  BY <1>1 DEF HistoryInv, Paged
<1>6. Linked'
  BY <1>1 DEF HistoryInv, Linked
<1> QED BY <1>3, <1>4, <1>5, <1>6 DEF HistoryInv

\* What the commands write is a row.
LEMMA RowsAreRows ==
  ASSUME HistoryTypes,
         NEW what \in {"run", "migrate"}, NEW status \in {"running", "ended", "skipped_locked"}
  PROVE  Row(what, status) \in RunRow
  BY DEF HistoryTypes, Row, RunRow, NoRows, Swept

\* The row of a dead run, closed.
LEMMA RowClosed ==
  ASSUME NEW r \in RunRow
  PROVE  LET q == [r EXCEPT !.status = "crashed", !.finished = TRUE]
         IN  /\ q \in RunRow /\ q.status = "crashed" /\ q.finished = TRUE
             /\ q.kind = r.kind /\ q.day = r.day /\ q.verdict = r.verdict
  BY DEF RunRow

\* A row with what was swept.
LEMMA RowSwept ==
  ASSUME NEW r \in RunRow, NEW stops \in Swept
  PROVE  LET q == [r EXCEPT !.stops = stops]
         IN  /\ q \in RunRow /\ q.status = r.status /\ q.finished = r.finished
             /\ q.kind = r.kind /\ q.day = r.day /\ q.verdict = r.verdict
  BY DEF RunRow

\* A run closes the row of a dead one and opens its own: no row that was judged changes.
LEMMA StartRunStep ==
  ASSUME HistoryInv, StartRun PROVE HistoryInv'
<1> DEFINE n == Len(runs)
           closed == [i \in DOMAIN runs |->
                       IF runs[i].status = "running"
                       THEN [runs[i] EXCEPT !.status = "crashed", !.finished = TRUE] ELSE runs[i]]
<1>1. runs \in Seq(RunRow) /\ n \in Nat /\ DOMAIN runs = 1 .. n
  BY DEF HistoryInv, HistoryTypes
<1>2. /\ closed \in Seq(RunRow) /\ Len(closed) = n
      /\ \A i \in 1 .. n :
           /\ closed[i].status # "running" /\ closed[i].verdict = runs[i].verdict
           /\ runs[i].status # "running" => closed[i] = runs[i]
           /\ closed[i].kind = runs[i].kind /\ closed[i].day = runs[i].day
           /\ runs[i].finished => closed[i].finished
  <2>1. ASSUME NEW i \in 1 .. n
        PROVE  /\ closed[i] \in RunRow
               /\ closed[i].status # "running" /\ closed[i].verdict = runs[i].verdict
               /\ runs[i].status # "running" => closed[i] = runs[i]
               /\ closed[i].kind = runs[i].kind /\ closed[i].day = runs[i].day
               /\ runs[i].finished => closed[i].finished
    <3>1. runs[i] \in RunRow /\ i \in DOMAIN runs
      BY <1>1
    <3>2. CASE runs[i].status = "running"
      <4>1. closed[i] = [runs[i] EXCEPT !.status = "crashed", !.finished = TRUE]
        BY <3>1, <3>2
      <4>2. /\ closed[i] \in RunRow
            /\ closed[i].status = "crashed" /\ closed[i].finished = TRUE
            /\ closed[i].kind = runs[i].kind /\ closed[i].day = runs[i].day
            /\ closed[i].verdict = runs[i].verdict
        BY <3>1, <4>1, RowClosed
      <4> HIDE DEF closed
      <4> QED BY <3>2, <4>2
    <3>3. CASE runs[i].status # "running"
      BY <3>1, <3>3
    <3> QED BY <3>2, <3>3
  <2>2. closed \in [1 .. n -> RunRow]
    BY <1>1, <2>1
  <2> HIDE DEF closed
  <2>3. closed \in Seq(RunRow) /\ Len(closed) = n
    BY <1>1, <2>2
  <2> QED BY <2>1, <2>3
<1>3. Row("run", "running") \in RunRow /\ Row("run", "running").verdict = {}
        /\ Row("run", "running").status = "running"
  BY RowsAreRows DEF HistoryInv, Row
<1>4. runs' = Append(closed, Row("run", "running")) /\ held' = n + 1
        /\ UNCHANGED <<today, shown, more, link>> /\ n < MaxRuns
  BY DEF StartRun
<1> HIDE DEF closed
<1>5. /\ runs' \in Seq(RunRow) /\ Len(runs') = n + 1 /\ runs'[n + 1] = Row("run", "running")
      /\ \A i \in 1 .. n : runs'[i] = closed[i]
  BY <1>1, <1>2, <1>3, <1>4
<1>6. HistoryTypes'
  BY <1>1, <1>4, <1>5, HistoryAssumption DEF HistoryInv, HistoryTypes
<1>7. \A i \in 1 .. Len(runs') : i \in 1 .. n \/ i = n + 1
  BY <1>1, <1>5
<1>8. \A i \in 1 .. Len(runs') : runs'[i].verdict # {} => i <= n
        /\ runs'[i].verdict = runs[i].verdict
  BY <1>1, <1>2, <1>3, <1>5, <1>7
<1>9. runs'[held'].status = "running" /\ \A j \in 1 .. held' - 1 : runs'[j].status # "running"
  BY <1>1, <1>2, <1>3, <1>4, <1>5
<1>10. \A i \in 1 .. n :
         /\ runs[i].status # "running" => runs'[i] = runs[i]
         /\ runs'[i].kind = runs[i].kind /\ runs'[i].day = runs[i].day
         /\ runs[i].finished => runs'[i].finished
  BY <1>2, <1>5
<1> QED BY <1>1, <1>4, <1>5, <1>6, <1>8, <1>9, <1>10, NothingJudged

\* A sweep enters what it swept in the run's own row, which nobody has judged.
LEMMA SweepStep ==
  ASSUME HistoryInv, NEW stops \in Swept, SweepSources(stops) PROVE HistoryInv'
<1> DEFINE n == Len(runs)
<1>1. runs \in Seq(RunRow) /\ n \in Nat /\ DOMAIN runs = 1 .. n /\ held \in 1 .. n
        /\ runs[held].status = "running"
  BY DEF HistoryInv, HistoryTypes, Judged, SweepSources
<1> DEFINE row == [runs[held] EXCEPT !.stops = stops]
<1>2. /\ row \in RunRow /\ row.status = runs[held].status /\ row.finished = runs[held].finished
      /\ row.kind = runs[held].kind /\ row.day = runs[held].day
      /\ row.verdict = runs[held].verdict
  <2>1. runs[held] \in RunRow
    BY <1>1
  <2> QED BY <2>1, RowSwept
<1>3. runs' = [runs EXCEPT ![held] = row] /\ UNCHANGED <<held, today, shown, more, link>>
  BY DEF SweepSources
<1> HIDE DEF row
<1>4. runs' \in Seq(RunRow) /\ Len(runs') = n
        /\ \A i \in 1 .. n : runs'[i] = IF i = held THEN row ELSE runs[i]
  BY <1>1, <1>2, <1>3
<1>5. HistoryTypes'
  BY <1>3, <1>4 DEF HistoryInv, HistoryTypes
<1>6. \A i \in 1 .. n :
         /\ runs[i].status # "running" => runs'[i] = runs[i]
         /\ runs'[i].kind = runs[i].kind /\ runs'[i].day = runs[i].day
         /\ runs'[i].finished = runs[i].finished
         /\ runs'[i].status = runs[i].status /\ runs'[i].verdict = runs[i].verdict
  BY <1>1, <1>2, <1>4
<1>7. held' # 0 => runs'[held'].status = "running"
                     /\ \A j \in 1 .. held' - 1 : runs'[j].status # "running"
  BY <1>1, <1>3, <1>6 DEF HistoryInv, Judged
<1> QED BY <1>1, <1>3, <1>4, <1>5, <1>6, <1>7, NothingJudged

\* A run is judged by the rows up to its own, as they stand when it is closed.
LEMMA EndRunStep ==
  ASSUME HistoryInv, NEW status \in {"ended", "network"}, EndRun(status)
  PROVE  HistoryInv'
<1> DEFINE n == Len(runs)
           judged == IF status = "ended" THEN {Unfetched(held)} ELSE {}
           row == [runs[held] EXCEPT !.status = status, !.finished = TRUE, !.verdict = judged]
<1>1. runs \in Seq(RunRow) /\ n \in Nat /\ DOMAIN runs = 1 .. n /\ held \in 1 .. n
        /\ runs[held].status = "running" /\ \A j \in 1 .. held - 1 : runs[j].status # "running"
  BY DEF HistoryInv, HistoryTypes, Judged, EndRun
<1>2. row \in RunRow /\ row.status = status /\ row.finished = TRUE /\ row.verdict = judged
        /\ row.kind = runs[held].kind /\ row.day = runs[held].day /\ row.stops = runs[held].stops
  <2>1. Unfetched(held) \in SUBSET Sources
    BY DEF Unfetched
  <2>2. judged \in SUBSET SUBSET Sources
    BY <2>1
  <2>3. runs[held] \in RunRow
    BY <1>1
  <2> HIDE DEF judged
  <2> QED BY <2>2, <2>3 DEF RunRow
<1>3. PICK h \in 1 .. n : h = held
  BY <1>1
<1>4. runs' = [runs EXCEPT ![held] = row] /\ held' = 0 /\ UNCHANGED <<today, shown, more, link>>
  BY DEF EndRun
<1> HIDE DEF row
<1>5. runs' \in Seq(RunRow) /\ Len(runs') = n
        /\ \A i \in 1 .. n : runs'[i] = IF i = held THEN row ELSE runs[i]
  BY <1>1, <1>2, <1>4
<1>6. HistoryTypes'
  BY <1>4, <1>5 DEF HistoryInv, HistoryTypes
<1>7. ASSUME NEW i \in 1 .. n, runs[i].verdict # {}
      PROVE  ~(held \in 1 .. i) /\ \A j \in 1 .. i : j \in 1 .. n /\ runs[j].status # "running"
                                                      /\ runs'[j] = runs[j]
  BY <1>1, <1>5, <1>7 DEF HistoryInv, Judged
<1>8. Judged'
  <2>1. ASSUME NEW i \in 1 .. n, runs'[i].verdict # {}
        PROVE  \A j \in 1 .. i : runs'[j].status # "running"
    <3>1. CASE i = held
      BY <1>1, <1>2, <1>5, <3>1
    <3>2. CASE i # held
      BY <1>5, <1>7, <2>1, <3>2
    <3> QED BY <3>1, <3>2
  <2> QED BY <1>4, <1>5, <2>1 DEF Judged
<1>9. StaleSources(h)' = StaleSources(h)
  <2>1. \A j \in 1 .. h :
          /\ runs'[j].kind = runs[j].kind /\ runs'[j].stops = runs[j].stops
          /\ j < h => runs'[j] = runs[j]
    BY <1>1, <1>2, <1>5, <1>3
  <2> QED BY <1>1, <1>5, <1>6, <1>3, <2>1, SameRows DEF HistoryInv
<1>10. StaleAgrees'
  <2>1. ASSUME NEW i \in 1 .. n, NEW stale \in runs'[i].verdict PROVE StaleSources(i)' = stale
    <3>1. CASE i = held
      <4>1. runs'[i].verdict = judged
        BY <1>2, <1>5, <3>1
      <4>2. stale = Unfetched(h)
        BY <1>3, <2>1, <4>1
      <4>3. StaleSources(h) = Unfetched(h)
        BY StaleIsUnfetched DEF HistoryInv
      <4> QED BY <1>9, <1>3, <3>1, <4>2, <4>3
    <3>2. CASE i # held
      <4>1. runs'[i] = runs[i] /\ \A j \in 1 .. i : runs'[j] = runs[j]
        BY <1>5, <1>7, <2>1, <3>2
      <4>2. StaleSources(i)' = StaleSources(i)
        BY <1>5, <1>6, <4>1, SameRows DEF HistoryInv
      <4> QED BY <1>1, <2>1, <4>1, <4>2 DEF HistoryInv, StaleAgrees
    <3> QED BY <3>1, <3>2
  <2>2. DOMAIN runs' = 1 .. n
    BY <1>1, <1>5
  <2> QED BY <2>1, <2>2 DEF StaleAgrees
<1>11. Paged' /\ Linked'
  BY <1>1, <1>2, <1>4, <1>5 DEF HistoryInv, Paged, Linked
<1> QED BY <1>6, <1>8, <1>10, <1>11 DEF HistoryInv

\* A second `run` and the other commands add a closed row.
LEMMA AppendStep ==
  ASSUME HistoryInv, SkipLocked \/ OtherCommand PROVE HistoryInv'
<1> DEFINE n == Len(runs)
<1>1. runs \in Seq(RunRow) /\ n \in Nat /\ DOMAIN runs = 1 .. n
        /\ held \in 0 .. n
  BY DEF HistoryInv, HistoryTypes
<1>2. PICK row \in RunRow : runs' = Append(runs, row) /\ row.status # "running" /\ row.verdict = {}
  <2>1. CASE SkipLocked
    BY <2>1, RowsAreRows DEF SkipLocked, HistoryInv, Row
  <2>2. CASE OtherCommand
    BY <2>2, RowsAreRows DEF OtherCommand, HistoryInv, Row
  <2> QED BY <2>1, <2>2
<1>3. UNCHANGED <<held, today, shown, more, link>> /\ n < MaxRuns
  BY DEF SkipLocked, OtherCommand
<1>4. /\ runs' \in Seq(RunRow) /\ Len(runs') = n + 1 /\ runs'[n + 1] = row
      /\ \A i \in 1 .. n : runs'[i] = runs[i]
  BY <1>1, <1>2
<1>5. HistoryTypes'
  BY <1>1, <1>3, <1>4, HistoryAssumption DEF HistoryInv, HistoryTypes
<1>6. \A i \in 1 .. Len(runs') : i \in 1 .. n \/ i = n + 1
  BY <1>1, <1>4
<1>7. \A i \in 1 .. Len(runs') : runs'[i].verdict # {} => i <= n
        /\ runs'[i].verdict = runs[i].verdict
  BY <1>1, <1>2, <1>4, <1>6
<1>8. held' # 0 => runs'[held'].status = "running"
                     /\ \A j \in 1 .. held' - 1 : runs'[j].status # "running"
  BY <1>1, <1>3, <1>4 DEF HistoryInv, Judged
<1> QED BY <1>1, <1>3, <1>4, <1>5, <1>7, <1>8, NothingJudged

\* A command that dies leaves its row, and midnight nothing at all.
LEMMA StillStep ==
  ASSUME HistoryInv, Die \/ Midnight PROVE HistoryInv'
<1>1. runs' = runs /\ held' \in {0, held} /\ today' \in Nat /\ UNCHANGED <<shown, more, link>>
  BY DEF Die, Midnight, HistoryInv, HistoryTypes
<1>2. HistoryTypes'
  BY <1>1 DEF HistoryInv, HistoryTypes
<1>3. Len(runs) \in Nat
  BY RowsAre DEF HistoryInv
<1>4. held' # 0 => runs'[held'].status = "running"
                     /\ \A j \in 1 .. held' - 1 : runs'[j].status # "running"
  BY <1>1 DEF HistoryInv, Judged
<1>5. /\ Len(runs') >= Len(runs)
      /\ \A i \in 1 .. Len(runs) :
           /\ runs[i].status # "running" => runs'[i] = runs[i]
           /\ runs'[i].kind = runs[i].kind /\ runs'[i].day = runs[i].day
           /\ runs[i].finished => runs'[i].finished
      /\ \A i \in 1 .. Len(runs') : runs'[i].verdict # {} =>
           i <= Len(runs) /\ runs'[i].verdict = runs[i].verdict
  BY <1>1, <1>3
<1> QED BY <1>1, <1>2, <1>4, <1>5, NothingJudged

\* /reports sends a reader to the day of the newest finished run.
LEMMA OpenReportsStep ==
  ASSUME HistoryTypes, OpenReports PROVE Linked' /\ link' \in Nat
<1> DEFINE found == {i \in DOMAIN runs : runs[i].kind = "run" /\ runs[i].finished}
<1>1. found \in SUBSET (1 .. Len(runs)) /\ Len(runs) \in Nat
  BY RowsAre
<1>2. found # {} /\ link' = runs[Max(found)].day /\ runs' = runs
  BY DEF OpenReports, LatestDay
<1>3. Max(found) \in found
  <2>1. IsFiniteSet(1 .. Len(runs))
    BY <1>1, FS_Interval
  <2>2. found \in SUBSET Nat
    BY <1>1
  <2> HIDE DEF found
  <2> QED BY <1>1, <1>2, <2>1, <2>2, FS_Subset, MaxIs
<1>4. PICK i \in 1 .. Len(runs) : runs[i].kind = "run" /\ runs[i].finished /\ runs[i].day = link'
  BY <1>1, <1>2, <1>3
<1>5. runs[i].day \in Nat
  BY RowsAre DEF RunRow
<1> QED BY <1>2, <1>4, <1>5 DEF Linked

\* The readers write nothing.
LEMMA ReadsStep ==
  ASSUME HistoryInv, Reads PROVE HistoryInv'
<1>1. UNCHANGED <<runs, held, today>>
  BY DEF Reads, OpenRuns, NextRuns, OpenReports, OpenDigest
<1>2. Judged' /\ StaleAgrees'
  <2>1. Judged'
    BY <1>1 DEF HistoryInv, Judged
  <2>2. ASSUME NEW i \in DOMAIN runs PROVE StaleSources(i)' = StaleSources(i)
    BY <1>1 DEF StaleSources, IsStale, RunsSinceFetched, SweepingRuns, Newest
  <2> QED BY <1>1, <2>1, <2>2 DEF HistoryInv, StaleAgrees
<1>3. CASE OpenRuns \/ NextRuns
  <2>1. link' = link
    BY <1>3 DEF OpenRuns, NextRuns
  <2>2. HistoryTypes' /\ Linked'
    BY <1>1, <2>1 DEF HistoryInv, HistoryTypes, Linked
  <2>3. Paged'
    BY <1>3, OpenRunsStep, NextRunsStep DEF HistoryInv
  <2> QED BY <1>2, <2>2, <2>3 DEF HistoryInv
<1>4. CASE OpenReports
  <2>1. UNCHANGED <<shown, more>>
    BY <1>4 DEF OpenReports
  <2>2. Paged'
    BY <1>1, <2>1 DEF HistoryInv, Paged
  <2>3. Linked' /\ HistoryTypes'
    BY <1>1, <1>4, OpenReportsStep DEF HistoryInv, HistoryTypes
  <2> QED BY <1>2, <2>2, <2>3 DEF HistoryInv
<1>5. CASE OpenDigest
  <2>1. link' = 0 /\ UNCHANGED <<shown, more>>
    BY <1>5 DEF OpenDigest
  <2> QED BY <1>1, <1>2, <2>1 DEF HistoryInv, HistoryTypes, Paged, Linked
<1> QED BY <1>3, <1>4, <1>5 DEF Reads

\* The rows, the page and the link are consistent whatever the commands and the readers do.
THEOREM HistoryHolds == HistorySpec => []HistoryInv
<1>1. HistoryInit => HistoryInv
  <2> SUFFICES ASSUME HistoryInit PROVE HistoryInv
    OBVIOUS
  <2>1. HistoryTypes /\ Judged /\ StaleAgrees /\ Paged /\ Linked
    BY HistoryAssumption DEF HistoryInit, HistoryTypes, Judged, StaleAgrees, Paged, Linked
  <2> QED BY <2>1 DEF HistoryInv
<1>2. HistoryInv /\ [HistoryNext]_historyVars => HistoryInv'
  <2> SUFFICES ASSUME HistoryInv, [HistoryNext]_historyVars PROVE HistoryInv'
    OBVIOUS
  <2>1. CASE StartRun
    BY <2>1, StartRunStep
  <2>2. CASE Die \/ Midnight
    BY <2>2, StillStep
  <2>3. CASE SkipLocked \/ OtherCommand
    BY <2>3, AppendStep
  <2>4. CASE \E status \in {"ended", "network"} : EndRun(status)
    BY <2>4, EndRunStep
  <2>5. CASE Sweeps
    BY <2>5, SweepStep DEF Sweeps
  <2>6. CASE Reads
    BY <2>6, ReadsStep
  <2>7. CASE UNCHANGED historyVars
    <3>1. UNCHANGED <<runs, held, today, shown, more, link>>
      BY <2>7 DEF historyVars
    <3>2. ASSUME NEW i \in DOMAIN runs PROVE StaleSources(i)' = StaleSources(i)
      BY <3>1 DEF StaleSources, IsStale, RunsSinceFetched, SweepingRuns, Newest
    <3>3. StaleAgrees'
      BY <3>1, <3>2 DEF HistoryInv, StaleAgrees
    <3> QED BY <3>1, <3>3 DEF HistoryInv, HistoryTypes, Judged, Paged, Linked
  <2> QED BY <2>1, <2>2, <2>3, <2>4, <2>5, <2>6, <2>7 DEF HistoryNext, Writers
<1> QED BY <1>1, <1>2, PTL DEF HistorySpec

\* A source is stale in a digest, however late it is read, exactly when its run's own invariant
\* said so; whoever pages through the history sees each row once; /reports leads to a digest.
THEOREM HistoryIsTold == HistorySpec => []ReadersAreTold
<1>1. ASSUME HistoryInv PROVE HistoryIsWhole
  <2>1. CASE shown = <<>>
    BY <2>1 DEF HistoryIsWhole
  <2>2. CASE shown # <<>>
    <3>1. PICK top \in 1 .. Len(runs) : \E last \in 1 .. top :
            shown = Down(top, last) /\ (more <=> last > 1)
      BY <1>1, <2>2 DEF HistoryInv, Paged
    <3>2. PICK last \in 1 .. top : shown = Down(top, last) /\ (more <=> last > 1)
      BY <3>1
    <3>3. Len(shown) = top - last + 1 /\ shown[1] = top /\ shown[Len(shown)] = last
      BY <3>2 DEF Down
    <3>4. (IF more THEN shown[Len(shown)] ELSE 1) = last
      BY <3>2, <3>3
    <3> QED BY <3>2, <3>3, <3>4 DEF Down, HistoryIsWhole
  <2> QED BY <2>1, <2>2
<1>2. ASSUME HistoryInv PROVE RedirectLands
  <2> SUFFICES ASSUME link # 0 PROVE RunFor(link) # 0
    BY DEF RedirectLands
  <2> DEFINE found == {i \in DOMAIN runs : runs[i].kind = "run" /\ runs[i].finished
        /\ runs[i].day = link}
  <2>1. found \in SUBSET (1 .. Len(runs)) /\ Len(runs) \in Nat /\ found # {}
    BY <1>2, RowsAre DEF HistoryInv, Linked
  <2>2. found \in SUBSET Nat
    BY <2>1
  <2>3. RunFor(link) = Max(found)
    BY <2>1 DEF RunFor
  <2> HIDE DEF found
  <2>4. IsFiniteSet(found)
    <3>1. IsFiniteSet(1 .. Len(runs))
      BY <2>1, FS_Interval
    <3> QED BY <2>1, <3>1, FS_Subset
  <2>5. Max(found) \in found
    BY <2>1, <2>2, <2>4, MaxIs
  <2> QED BY <2>1, <2>3, <2>5
<1>3. HistoryInv => ReadersAreTold
  BY <1>1, <1>2 DEF HistoryInv, ReadersAreTold
<1> QED BY <1>3, HistoryHolds, PTL

-----------------------------------------------------------------------------
(* PureRules: the wire.                                                    *)

\* The first row that catches a class, or a base of it, is the row it is built from.
LEMMA FirstRow ==
  ASSUME NEW class, NEW e, class # "TooManyRequests", NEW n \in 1 .. 11,
         Failing!Rows[n] \in Failing!Bases(class),
         \A j \in 1 .. 11 : j < n => Failing!Rows[j] \notin Failing!Bases(class)
  PROVE  Failing!Translate(class, e) = Failing!Built(Failing!Rows[n], e)
<1> DEFINE hits == {i \in DOMAIN Failing!Rows : Failing!Rows[i] \in Failing!Bases(class)}
<1>d. DOMAIN Failing!Rows = 1 .. 11
  BY DEF Failing!Rows
<1>1. n \in hits /\ \A j \in hits : n <= j
  BY <1>d
<1>2. \A i : i \in hits /\ (\A j \in hits : i <= j) => i = n
  BY <1>1, <1>d
<1>3. (CHOOSE i \in hits : \A j \in hits : i <= j) = n
  <2> HIDE DEF hits
  <2> QED BY <1>1, <1>2
<1> QED BY <1>3 DEF Failing!Translate

\* What the adapter makes of each class of the library: its own row, or the one of the base
\* that has one.
LEMMA RowOf ==
  ASSUME NEW e
  PROVE  /\ \A class \in {"RequestException", "InvalidToken", "ResponseException", "Forbidden", "BadJSON",
                          "OAuthException", "Redirect", "NotFound", "UnavailableForLegalReasons",
                          "ServerError"} : Failing!Translate(class, e) = Failing!Built(class, e)
         /\ \A class \in {"InsufficientScope", "BadRequest", "Conflict"} :
              Failing!Translate(class, e) = Failing!Built("ResponseException", e)
<1>r. /\ Failing!Rows[1] = "Forbidden" /\ Failing!Rows[2] = "InvalidToken"
      /\ Failing!Rows[3] = "OAuthException" /\ Failing!Rows[4] = "NotFound"
      /\ Failing!Rows[5] = "Redirect" /\ Failing!Rows[6] = "UnavailableForLegalReasons"
      /\ Failing!Rows[7] = "ServerError" /\ Failing!Rows[8] = "BadJSON"
      /\ Failing!Rows[9] = "RequestException" /\ Failing!Rows[10] = "ResponseException"
      /\ Failing!Rows[11] = "PrawcoreException"
  BY DEF Failing!Rows
<1>d. \A i, j \in 1 .. 11 : i # j => Failing!Rows[i] # Failing!Rows[j]
  BY <1>r
<1>b. ASSUME NEW class, NEW n \in 1 .. 10, Failing!Rows[n] = class,
             Failing!Bases(class) \subseteq {class, "ResponseException", "PrawcoreException"}, n <= 8 \/
             Failing!Bases(class) \subseteq {class, "PrawcoreException"}, class \in Failing!Bases(class)
      PROVE  Failing!Translate(class, e) = Failing!Built(class, e)
  <2>1. \A j \in 1 .. 11 : j < n => Failing!Rows[j] \notin Failing!Bases(class)
    BY <1>b, <1>r, <1>d
  <2>2. class # "TooManyRequests"
    BY <1>b, <1>r
  <2> QED BY <1>b, <2>1, <2>2, FirstRow
<1>1. /\ Failing!Translate("Forbidden", e) = Failing!Built("Forbidden", e)
      /\ Failing!Translate("InvalidToken", e) = Failing!Built("InvalidToken", e)
      /\ Failing!Translate("NotFound", e) = Failing!Built("NotFound", e)
      /\ Failing!Translate("Redirect", e) = Failing!Built("Redirect", e)
      /\ Failing!Translate("UnavailableForLegalReasons", e) = Failing!Built("UnavailableForLegalReasons", e)
      /\ Failing!Translate("ServerError", e) = Failing!Built("ServerError", e)
      /\ Failing!Translate("BadJSON", e) = Failing!Built("BadJSON", e)
  <2>1. ASSUME NEW n \in {1, 2, 4, 5, 6, 7, 8}
        PROVE  Failing!Bases(Failing!Rows[n]) = {Failing!Rows[n], "ResponseException", "PrawcoreException"}
    BY <1>r DEF Failing!Bases
  <2>2. ASSUME NEW n \in {1, 2, 4, 5, 6, 7, 8}
        PROVE  Failing!Translate(Failing!Rows[n], e) = Failing!Built(Failing!Rows[n], e)
    BY <2>1, <1>b
  <2> QED BY <2>2, <1>r
<1>2. /\ Failing!Translate("OAuthException", e) = Failing!Built("OAuthException", e)
      /\ Failing!Translate("RequestException", e) = Failing!Built("RequestException", e)
      /\ Failing!Translate("ResponseException", e) = Failing!Built("ResponseException", e)
  <2>1. ASSUME NEW n \in {3, 9, 10}
        PROVE  Failing!Bases(Failing!Rows[n]) = {Failing!Rows[n], "PrawcoreException"}
    BY <1>r DEF Failing!Bases
  <2>2. ASSUME NEW n \in {3, 9, 10}
        PROVE  Failing!Translate(Failing!Rows[n], e) = Failing!Built(Failing!Rows[n], e)
    BY <2>1, <1>b
  <2> QED BY <2>2, <1>r
<1>3. ASSUME NEW class \in {"InsufficientScope", "BadRequest", "Conflict"}
      PROVE  Failing!Translate(class, e) = Failing!Built("ResponseException", e)
  <2>1. Failing!Bases(class) = {class, "ResponseException", "PrawcoreException"}
    BY <1>3 DEF Failing!Bases
  <2>2. \A j \in 1 .. 11 : j < 10 => Failing!Rows[j] \notin Failing!Bases(class)
    BY <1>3, <2>1, <1>r
  <2>3. Failing!Rows[10] \in Failing!Bases(class) /\ class # "TooManyRequests" /\ 10 \in 1 .. 11
    BY <1>3, <2>1, <1>r
  <2>4. Failing!Translate(class, e) = Failing!Built(Failing!Rows[10], e)
    BY <2>2, <2>3, FirstRow
  <2> QED BY <2>4, <1>r
<1> QED BY <1>1, <1>2, <1>3

\* What each answer, and each silence, is understood as.
LEMMA UnderstoodAs ==
  ASSUME NEW e \in Failing!Events
  PROVE  LET x == Failing!Received(e)
         IN  /\ x = [class |-> x.class, wait |-> x.wait, cause |-> x.cause]
             /\ \/ /\ e.root \in Failing!NetworkRoots /\ e.status = 0 /\ e.body = "none"
                   /\ x.class = "TransientError" /\ x.cause = e.root
                \/ /\ e.root = "none" /\ e.status = 429 /\ e.body = "none" /\ x.cause = "none"
                   /\ x.class = "RateLimited" /\ (x.wait <=> e.header \in {"seconds", "date"})
                \/ /\ e.root = "none" /\ e.status = 401 /\ x.class = "AuthFailed" /\ x.cause = "none"
                   /\ e.body \in {"invalid_token", "no_reason", "token_endpoint"}
                \/ /\ e.root = "none" /\ e.status = 403 /\ x.cause = "none"
                   /\ \/ e.body = "html" /\ x.class = "HtmlBlocked"
                      \/ e.body = "quarantine" /\ x.class = "SubredditQuarantined"
                      \/ e.body = "json" /\ x.class = "SubredditForbidden"
                      \/ e.body = "insufficient_scope" /\ x.class = "GatewayError"
                \/ /\ e.root = "none" /\ e.status = 200 /\ x.cause = "none"
                   /\ \/ e.body = "not_json" /\ x.class = "TransientError"
                      \/ e.body = "half_headers" /\ x.class = "GatewayError"
                      \/ e.body = "oauth_error" /\ x.class = "AuthFailed"
                \/ /\ e.root = "none" /\ e.body = "none" /\ x.cause = "none"
                   /\ \/ e.status = 302 /\ x.class = "SubredditRedirected"
                      \/ e.status \in {400, 409} /\ x.class = "GatewayError"
                      \/ e.status = 404 /\ x.class = "SubredditNotFound"
                      \/ e.status = 451 /\ x.class = "SubredditForbidden"
                      \/ e.status = 502 /\ x.class = "TransientError"
<1>t. /\ Failing!Translate("InvalidToken", e) = Failing!Error("AuthFailed")
      /\ Failing!Translate("OAuthException", e) = Failing!Error("AuthFailed")
      /\ Failing!Translate("ServerError", e) = Failing!Error("TransientError")
      /\ Failing!Translate("BadJSON", e) = Failing!Error("TransientError")
      /\ Failing!Translate("RequestException", e) = [class |-> "TransientError", wait |-> FALSE, cause |-> e.root]
      /\ Failing!Translate("Forbidden", e) = Failing!FromForbidden(e)
      /\ Failing!Translate("NotFound", e) = Failing!Error("SubredditNotFound")
      /\ Failing!Translate("Redirect", e) = Failing!Error("SubredditRedirected")
      /\ Failing!Translate("UnavailableForLegalReasons", e) = Failing!Error("SubredditForbidden")
      /\ Failing!Translate("ResponseException", e) = Failing!FromResponse(e)
      /\ Failing!Translate("InsufficientScope", e) = Failing!FromResponse(e)
      /\ Failing!Translate("BadRequest", e) = Failing!FromResponse(e)
      /\ Failing!Translate("Conflict", e) = Failing!FromResponse(e)
  <2>1. Failing!Built("InvalidToken", e) = Failing!Error("AuthFailed")
    BY DEF Failing!Built
  <2>2. Failing!Built("OAuthException", e) = Failing!Error("AuthFailed")
    BY DEF Failing!Built
  <2>3. Failing!Built("ServerError", e) = Failing!Error("TransientError")
    BY DEF Failing!Built
  <2>4. Failing!Built("BadJSON", e) = Failing!Error("TransientError")
    BY DEF Failing!Built
  <2>5. Failing!Built("RequestException", e) = [class |-> "TransientError", wait |-> FALSE, cause |-> e.root]
    BY DEF Failing!Built, Failing!Error
  <2>6. Failing!Built("Forbidden", e) = Failing!FromForbidden(e)
    BY DEF Failing!Built
  <2>7. Failing!Built("NotFound", e) = Failing!Error("SubredditNotFound")
    BY DEF Failing!Built
  <2>8. Failing!Built("Redirect", e) = Failing!Error("SubredditRedirected")
    BY DEF Failing!Built
  <2>9. Failing!Built("UnavailableForLegalReasons", e) = Failing!Error("SubredditForbidden")
    BY DEF Failing!Built
  <2>10. Failing!Built("ResponseException", e) = Failing!FromResponse(e)
    BY DEF Failing!Built
  <2> QED BY <2>1, <2>2, <2>3, <2>4, <2>5, <2>6, <2>7, <2>8, <2>9, <2>10, RowOf
<1>z. \A c : Failing!Error(c) = [class |-> c, wait |-> FALSE, cause |-> "none"]
  BY DEF Failing!Error
<1>k. ASSUME NEW class, Failing!Raised(e) = class
      PROVE  Failing!Received(e) = IF class = "KeyError" THEN Failing!FromKeyError(e)
                                   ELSE IF class = "ValueError" THEN Failing!FromValueError(e)
                                   ELSE Failing!Translate(class, e)
  BY <1>k DEF Failing!Received
<1>1. CASE \E r \in Failing!NetworkRoots : e = Failing!Unanswered(r)
  <2>1. PICK r \in Failing!NetworkRoots : e = Failing!Unanswered(r)
    BY <1>1
  <2>2. e = [root |-> r, status |-> 0, body |-> "none", header |-> "absent"] /\ r # "none"
    BY <2>1 DEF Failing!Unanswered, Failing!NetworkRoots
  <2>3. Failing!Raised(e) = "RequestException"
    BY <2>2 DEF Failing!Raised
  <2>4. Failing!Received(e) = Failing!Translate("RequestException", e)
    BY <2>3, <1>k
  <2>5. Failing!Received(e) = [class |-> "TransientError", wait |-> FALSE, cause |-> r]
    BY <2>2, <2>4, <1>t, <1>z
  <2> QED BY <2>2, <2>5
<1>2. CASE \E h \in Failing!HeaderForms : e = Failing!Answered(429, "none", h)
  <2>1. PICK h \in Failing!HeaderForms : e = Failing!Answered(429, "none", h)
    BY <1>2
  <2>2. e = [root |-> "none", status |-> 429, body |-> "none", header |-> h]
    BY <2>1 DEF Failing!Answered
  <2>3. Failing!Raised(e) \in {"TooManyRequests", "ValueError"}
    BY <2>2 DEF Failing!Raised
  <2>4. Failing!Received(e) \in {Failing!Translate("TooManyRequests", e), Failing!FromValueError(e)}
    BY <2>3, <1>k
  <2>5. Failing!Received(e) = Failing!RateLimited(e)
    BY <2>2, <2>4 DEF Failing!Translate, Failing!FromValueError
  <2>6. Failing!Received(e) = [class |-> "RateLimited", wait |-> h \in {"seconds", "date"}, cause |-> "none"]
    BY <2>2, <2>5, <1>z DEF Failing!RateLimited, Failing!Seconds
  <2>7. /\ e.header = h /\ e.root = "none" /\ e.status = 429 /\ e.body = "none"
        /\ Failing!Received(e).class = "RateLimited" /\ Failing!Received(e).cause = "none"
        /\ Failing!Received(e) = [class |-> Failing!Received(e).class, wait |-> Failing!Received(e).wait,
                                  cause |-> Failing!Received(e).cause]
    BY <2>2, <2>6
  <2>8. CASE h \in {"seconds", "date"}
    <3>1. Failing!Received(e) = [class |-> "RateLimited", wait |-> TRUE, cause |-> "none"]
      BY <2>6, <2>8
    <3> QED BY <2>7, <2>8, <3>1
  <2>9. CASE h \notin {"seconds", "date"}
    <3>0. (h \in {"seconds", "date"}) = FALSE
      BY <2>9
    <3>1. Failing!Received(e) = [class |-> "RateLimited", wait |-> FALSE, cause |-> "none"]
      BY <2>6, <3>0, Zenon
    <3> QED BY <2>7, <2>9, <3>1
  <2> QED BY <2>8, <2>9
<1>3. CASE \E b \in {"invalid_token", "no_reason", "token_endpoint"} : e = Failing!Answered(401, b, "absent")
  <2>1. PICK b \in {"invalid_token", "no_reason", "token_endpoint"} : e = Failing!Answered(401, b, "absent")
    BY <1>3
  <2>2. e = [root |-> "none", status |-> 401, body |-> b, header |-> "absent"]
    BY <2>1 DEF Failing!Answered
  <2>3. CASE b = "invalid_token"
    <3>1. Failing!Raised(e) = "InvalidToken"
      BY <2>2, <2>3 DEF Failing!Raised
    <3>2. Failing!Received(e) = Failing!Translate("InvalidToken", e)
      BY <3>1, <1>k
    <3>3. Failing!Received(e) = Failing!Error("AuthFailed")
      BY <3>2, <1>t
    <3>4. Failing!Received(e) = [class |-> "AuthFailed", wait |-> FALSE, cause |-> "none"]
      BY <3>3, <1>z
    <3> QED BY <2>2, <2>3, <3>4
  <2>4. CASE b = "no_reason"
    <3>1. Failing!Raised(e) = "KeyError"
      BY <2>2, <2>4 DEF Failing!Raised
    <3>2. Failing!Received(e) = Failing!FromKeyError(e)
      BY <3>1, <1>k
    <3>3. Failing!Received(e) = Failing!Error("AuthFailed")
      BY <2>2, <2>4, <3>2, <1>t DEF Failing!FromKeyError
    <3>4. Failing!Received(e) = [class |-> "AuthFailed", wait |-> FALSE, cause |-> "none"]
      BY <3>3, <1>z
    <3> QED BY <2>2, <2>4, <3>4
  <2>5. CASE b = "token_endpoint"
    <3>1. Failing!Raised(e) = "ResponseException"
      BY <2>2, <2>5 DEF Failing!Raised
    <3>2. Failing!Received(e) = Failing!Translate("ResponseException", e)
      BY <3>1, <1>k
    <3>3. Failing!Received(e) = Failing!Error("AuthFailed")
      BY <2>2, <2>5, <3>2, <1>t DEF Failing!FromResponse
    <3>4. Failing!Received(e) = [class |-> "AuthFailed", wait |-> FALSE, cause |-> "none"]
      BY <3>3, <1>z
    <3> QED BY <2>2, <2>5, <3>4
  <2> QED BY <2>1, <2>3, <2>4, <2>5
<1>4. CASE \E b \in {"html", "quarantine", "json", "insufficient_scope"} : e = Failing!Answered(403, b, "absent")
  <2>1. PICK b \in {"html", "quarantine", "json", "insufficient_scope"} : e = Failing!Answered(403, b, "absent")
    BY <1>4
  <2>2. e = [root |-> "none", status |-> 403, body |-> b, header |-> "absent"]
    BY <2>1 DEF Failing!Answered
  <2>3. CASE b = "html"
    <3>1. Failing!Raised(e) = "Forbidden"
      BY <2>2, <2>3 DEF Failing!Raised
    <3>2. Failing!Received(e) = Failing!Translate("Forbidden", e)
      BY <3>1, <1>k
    <3>3. Failing!Received(e) = Failing!Error("HtmlBlocked")
      BY <2>2, <2>3, <3>2, <1>t DEF Failing!FromForbidden
    <3>4. Failing!Received(e) = [class |-> "HtmlBlocked", wait |-> FALSE, cause |-> "none"]
      BY <3>3, <1>z
    <3> QED BY <2>2, <2>3, <3>4
  <2>4. CASE b = "quarantine"
    <3>1. Failing!Raised(e) = "Forbidden"
      BY <2>2, <2>4 DEF Failing!Raised
    <3>2. Failing!Received(e) = Failing!Translate("Forbidden", e)
      BY <3>1, <1>k
    <3>3. Failing!Received(e) = Failing!Error("SubredditQuarantined")
      BY <2>2, <2>4, <3>2, <1>t DEF Failing!FromForbidden
    <3>4. Failing!Received(e) = [class |-> "SubredditQuarantined", wait |-> FALSE, cause |-> "none"]
      BY <3>3, <1>z
    <3> QED BY <2>2, <2>4, <3>4
  <2>5. CASE b = "json"
    <3>1. Failing!Raised(e) = "Forbidden"
      BY <2>2, <2>5 DEF Failing!Raised
    <3>2. Failing!Received(e) = Failing!Translate("Forbidden", e)
      BY <3>1, <1>k
    <3>3. Failing!Received(e) = Failing!Error("SubredditForbidden")
      BY <2>2, <2>5, <3>2, <1>t DEF Failing!FromForbidden
    <3>4. Failing!Received(e) = [class |-> "SubredditForbidden", wait |-> FALSE, cause |-> "none"]
      BY <3>3, <1>z
    <3> QED BY <2>2, <2>5, <3>4
  <2>6. CASE b = "insufficient_scope"
    <3>1. Failing!Raised(e) = "InsufficientScope"
      BY <2>2, <2>6 DEF Failing!Raised
    <3>2. Failing!Received(e) = Failing!Translate("InsufficientScope", e)
      BY <3>1, <1>k
    <3>3. Failing!Received(e) = Failing!Error("GatewayError")
      BY <2>2, <2>6, <3>2, <1>t DEF Failing!FromResponse
    <3>4. Failing!Received(e) = [class |-> "GatewayError", wait |-> FALSE, cause |-> "none"]
      BY <3>3, <1>z
    <3> QED BY <2>2, <2>6, <3>4
  <2> QED BY <2>1, <2>3, <2>4, <2>5, <2>6
<1>5. CASE \E b \in {"not_json", "half_headers", "oauth_error"} : e = Failing!Answered(200, b, "absent")
  <2>1. PICK b \in {"not_json", "half_headers", "oauth_error"} : e = Failing!Answered(200, b, "absent")
    BY <1>5
  <2>2. e = [root |-> "none", status |-> 200, body |-> b, header |-> "absent"]
    BY <2>1 DEF Failing!Answered
  <2>3. CASE b = "not_json"
    <3>1. Failing!Raised(e) = "BadJSON"
      BY <2>2, <2>3 DEF Failing!Raised
    <3>2. Failing!Received(e) = Failing!Translate("BadJSON", e)
      BY <3>1, <1>k
    <3>3. Failing!Received(e) = Failing!Error("TransientError")
      BY <3>2, <1>t
    <3>4. Failing!Received(e) = [class |-> "TransientError", wait |-> FALSE, cause |-> "none"]
      BY <3>3, <1>z
    <3> QED BY <2>2, <2>3, <3>4
  <2>4. CASE b = "half_headers"
    <3>1. Failing!Raised(e) = "KeyError"
      BY <2>2, <2>4 DEF Failing!Raised
    <3>2. Failing!Received(e) = Failing!FromKeyError(e)
      BY <3>1, <1>k
    <3>3. Failing!Received(e) = Failing!Error("GatewayError")
      BY <2>2, <2>4, <3>2, <1>t DEF Failing!FromKeyError
    <3>4. Failing!Received(e) = [class |-> "GatewayError", wait |-> FALSE, cause |-> "none"]
      BY <3>3, <1>z
    <3> QED BY <2>2, <2>4, <3>4
  <2>5. CASE b = "oauth_error"
    <3>1. Failing!Raised(e) = "OAuthException"
      BY <2>2, <2>5 DEF Failing!Raised
    <3>2. Failing!Received(e) = Failing!Translate("OAuthException", e)
      BY <3>1, <1>k
    <3>3. Failing!Received(e) = Failing!Error("AuthFailed")
      BY <3>2, <1>t
    <3>4. Failing!Received(e) = [class |-> "AuthFailed", wait |-> FALSE, cause |-> "none"]
      BY <3>3, <1>z
    <3> QED BY <2>2, <2>5, <3>4
  <2> QED BY <2>1, <2>3, <2>4, <2>5
<1>6. CASE \E s \in {302, 400, 404, 409, 451, 502} : e = Failing!Answered(s, "none", "absent")
  <2>1. PICK s \in {302, 400, 404, 409, 451, 502} : e = Failing!Answered(s, "none", "absent")
    BY <1>6
  <2>2. e = [root |-> "none", status |-> s, body |-> "none", header |-> "absent"]
    BY <2>1 DEF Failing!Answered
  <2>3. CASE s = 302
    <3>1. Failing!Raised(e) = "Redirect"
      BY <2>2, <2>3 DEF Failing!Raised
    <3>2. Failing!Received(e) = Failing!Translate("Redirect", e)
      BY <3>1, <1>k
    <3>3. Failing!Received(e) = Failing!Error("SubredditRedirected")
      BY <3>2, <1>t
    <3>4. Failing!Received(e) = [class |-> "SubredditRedirected", wait |-> FALSE, cause |-> "none"]
      BY <3>3, <1>z
    <3> QED BY <2>2, <2>3, <3>4
  <2>4. CASE s = 400
    <3>1. Failing!Raised(e) = "BadRequest"
      BY <2>2, <2>4 DEF Failing!Raised
    <3>2. Failing!Received(e) = Failing!Translate("BadRequest", e)
      BY <3>1, <1>k
    <3>3. Failing!Received(e) = Failing!Error("GatewayError")
      BY <2>2, <2>4, <3>2, <1>t DEF Failing!FromResponse
    <3>4. Failing!Received(e) = [class |-> "GatewayError", wait |-> FALSE, cause |-> "none"]
      BY <3>3, <1>z
    <3> QED BY <2>2, <2>4, <3>4
  <2>5. CASE s = 404
    <3>1. Failing!Raised(e) = "NotFound"
      BY <2>2, <2>5 DEF Failing!Raised
    <3>2. Failing!Received(e) = Failing!Translate("NotFound", e)
      BY <3>1, <1>k
    <3>3. Failing!Received(e) = Failing!Error("SubredditNotFound")
      BY <3>2, <1>t
    <3>4. Failing!Received(e) = [class |-> "SubredditNotFound", wait |-> FALSE, cause |-> "none"]
      BY <3>3, <1>z
    <3> QED BY <2>2, <2>5, <3>4
  <2>6. CASE s = 409
    <3>1. Failing!Raised(e) = "Conflict"
      BY <2>2, <2>6 DEF Failing!Raised
    <3>2. Failing!Received(e) = Failing!Translate("Conflict", e)
      BY <3>1, <1>k
    <3>3. Failing!Received(e) = Failing!Error("GatewayError")
      BY <2>2, <2>6, <3>2, <1>t DEF Failing!FromResponse
    <3>4. Failing!Received(e) = [class |-> "GatewayError", wait |-> FALSE, cause |-> "none"]
      BY <3>3, <1>z
    <3> QED BY <2>2, <2>6, <3>4
  <2>7. CASE s = 451
    <3>1. Failing!Raised(e) = "UnavailableForLegalReasons"
      BY <2>2, <2>7 DEF Failing!Raised
    <3>2. Failing!Received(e) = Failing!Translate("UnavailableForLegalReasons", e)
      BY <3>1, <1>k
    <3>3. Failing!Received(e) = Failing!Error("SubredditForbidden")
      BY <3>2, <1>t
    <3>4. Failing!Received(e) = [class |-> "SubredditForbidden", wait |-> FALSE, cause |-> "none"]
      BY <3>3, <1>z
    <3> QED BY <2>2, <2>7, <3>4
  <2>8. CASE s = 502
    <3>1. Failing!Raised(e) = "ServerError"
      BY <2>2, <2>8 DEF Failing!Raised
    <3>2. Failing!Received(e) = Failing!Translate("ServerError", e)
      BY <3>1, <1>k
    <3>3. Failing!Received(e) = Failing!Error("TransientError")
      BY <3>2, <1>t
    <3>4. Failing!Received(e) = [class |-> "TransientError", wait |-> FALSE, cause |-> "none"]
      BY <3>3, <1>z
    <3> QED BY <2>2, <2>8, <3>4
  <2> QED BY <2>1, <2>3, <2>4, <2>5, <2>6, <2>7, <2>8
<1> QED BY <1>1, <1>2, <1>3, <1>4, <1>5, <1>6 DEF Failing!Events

\* Every failure on the wire is understood: whatever PRAW, prawcore or requests raise, the run
\* ends, waits, retries or warns as the failure itself asks for.
THEOREM WireRead == \A e \in Failing!Events : Failing!NothingMisread(e)
<1> TAKE e \in Failing!Events
<1> DEFINE x == Failing!Received(e)
<1>1. \A z : Failing!Ends(e, z) <=> Failing!Fate(x).ends = z
  BY DEF Failing!Ends
<1>2. \A z : Failing!Pauses(e, z) <=> Failing!Fate(x).pauses = z
  BY DEF Failing!Pauses
<1>3. CASE /\ e.root \in {"gaierror", "ConnectionRefusedError"} /\ e.status = 0 /\ e.body = "none"
           /\ x.class = "TransientError" /\ x.cause = e.root
  <2>1. Failing!Fate(x) = [ends |-> "network", pauses |-> "ladder"]
    BY <1>3 DEF Failing!Fate, Failing!Classify, Failing!ClassifyOne, Failing!SourceStatus
  <2>s. Failing!SourceStatus(x.class) = "error"
    BY <1>3 DEF Failing!SourceStatus
  <2>2. Failing!Ping(x) = "warned"
    BY <1>3, <2>s DEF Failing!Ping
  <2> HIDE DEF x
  <2> QED BY <1>1, <1>2, <1>3, <2>1, <2>2 DEF Failing!NothingMisread, x
<1>4. CASE /\ e.root \in {"ConnectionResetError", "ReadTimeout"} /\ e.status = 0 /\ e.body = "none"
           /\ x.class = "TransientError" /\ x.cause = e.root
  <2>1. Failing!Fate(x) = [ends |-> "error", pauses |-> "ladder"]
    BY <1>4 DEF Failing!Fate, Failing!Classify, Failing!ClassifyOne, Failing!SourceStatus
  <2>2. Failing!Ping(x) = "warned"
    BY <1>4 DEF Failing!Ping, Failing!Classify, Failing!ClassifyOne, Failing!SourceStatus
  <2> HIDE DEF x
  <2> QED BY <1>1, <1>2, <1>4, <2>1, <2>2 DEF Failing!NothingMisread, x
<1>5. CASE /\ e.root = "none" /\ e.status = 429 /\ e.body = "none"
           /\ x.class = "RateLimited" /\ (x.wait <=> e.header \in {"seconds", "date"})
  <2>1. Failing!Fate(x) = [ends |-> "rate_limited", pauses |-> IF x.wait THEN "told" ELSE "default"]
    BY <1>5 DEF Failing!Fate, Failing!Classify, Failing!ClassifyOne, Failing!SourceStatus
  <2>2. Failing!Ping(x) = "rate_limited"
    BY <1>5 DEF Failing!Ping, Failing!Classify, Failing!ClassifyOne, Failing!SourceStatus
  <2>3. /\ Failing!Fate(x).ends = "rate_limited" /\ Failing!Fate(x).pauses # "ladder"
        /\ (Failing!Fate(x).pauses = "told") <=> (e.header \in {"seconds", "date"})
    BY <1>5, <2>1
  <2> HIDE DEF x
  <2> QED BY <1>1, <1>2, <1>5, <2>2, <2>3 DEF Failing!NothingMisread, x
<1>6. CASE /\ e.root = "none" /\ e.status = 401 /\ e.body \in {"invalid_token", "no_reason", "token_endpoint"}
           /\ x.class = "AuthFailed"
  <2>1. Failing!Fate(x) = [ends |-> "config", pauses |-> "none"]
    BY <1>6 DEF Failing!Fate, Failing!Classify, Failing!ClassifyOne, Failing!SourceStatus
  <2>2. Failing!Ping(x) = "config"
    BY <1>6 DEF Failing!Ping, Failing!Classify, Failing!ClassifyOne, Failing!SourceStatus
  <2> HIDE DEF x
  <2> QED BY <1>1, <1>2, <1>6, <2>1, <2>2 DEF Failing!NothingMisread, x
<1>7. CASE /\ e.root = "none" /\ e.status = 403 /\ e.body = "html"
           /\ x.class = "HtmlBlocked"
  <2>1. Failing!Fate(x) = [ends |-> "failed", pauses |-> "none"]
    BY <1>7 DEF Failing!Fate, Failing!Classify, Failing!ClassifyOne, Failing!SourceStatus
  <2>2. Failing!Ping(x) = "failed"
    BY <1>7 DEF Failing!Ping, Failing!Classify, Failing!ClassifyOne, Failing!SourceStatus
  <2> HIDE DEF x
  <2> QED BY <1>1, <1>2, <1>7, <2>1, <2>2 DEF Failing!NothingMisread, x
<1>8. CASE /\ e.root = "none" /\ e.status = 403 /\ e.body = "quarantine"
           /\ x.class = "SubredditQuarantined"
  <2>1. Failing!Fate(x) = [ends |-> "quarantined", pauses |-> "none"]
    BY <1>8 DEF Failing!Fate, Failing!Classify, Failing!ClassifyOne, Failing!SourceStatus
  <2>2. Failing!Ping(x) = "sweeps"
    BY <1>8 DEF Failing!Ping, Failing!Classify, Failing!ClassifyOne, Failing!SourceStatus
  <2> HIDE DEF x
  <2> QED BY <1>1, <1>2, <1>8, <2>1, <2>2 DEF Failing!NothingMisread, x
<1>9. CASE /\ e.root = "none" /\ e.status = 403 /\ e.body = "json"
           /\ x.class = "SubredditForbidden"
  <2>1. Failing!Fate(x) = [ends |-> "forbidden", pauses |-> "none"]
    BY <1>9 DEF Failing!Fate, Failing!Classify, Failing!ClassifyOne, Failing!SourceStatus
  <2>2. Failing!Ping(x) = "sweeps"
    BY <1>9 DEF Failing!Ping, Failing!Classify, Failing!ClassifyOne, Failing!SourceStatus
  <2> HIDE DEF x
  <2> QED BY <1>1, <1>2, <1>9, <2>1, <2>2 DEF Failing!NothingMisread, x
<1>10. CASE /\ e.root = "none" /\ e.status = 403 /\ e.body = "insufficient_scope"
           /\ x.class = "GatewayError"
  <2>1. Failing!Fate(x) = [ends |-> "error", pauses |-> "none"]
    BY <1>10 DEF Failing!Fate, Failing!Classify, Failing!ClassifyOne, Failing!SourceStatus
  <2>2. Failing!Ping(x) = "warned"
    BY <1>10 DEF Failing!Ping, Failing!Classify, Failing!ClassifyOne, Failing!SourceStatus
  <2> HIDE DEF x
  <2> QED BY <1>1, <1>2, <1>10, <2>1, <2>2 DEF Failing!NothingMisread, x
<1>11. CASE /\ e.root = "none" /\ e.status = 200 /\ e.body = "not_json"
           /\ x.class = "TransientError" /\ x.cause = "none"
  <2>1. Failing!Fate(x) = [ends |-> "error", pauses |-> "ladder"]
    BY <1>11 DEF Failing!Fate, Failing!Classify, Failing!ClassifyOne, Failing!SourceStatus
  <2>2. Failing!Ping(x) = "warned"
    BY <1>11 DEF Failing!Ping, Failing!Classify, Failing!ClassifyOne, Failing!SourceStatus
  <2> HIDE DEF x
  <2> QED BY <1>1, <1>2, <1>11, <2>1, <2>2 DEF Failing!NothingMisread, x
<1>12. CASE /\ e.root = "none" /\ e.status = 200 /\ e.body = "half_headers"
           /\ x.class = "GatewayError"
  <2>1. Failing!Fate(x) = [ends |-> "error", pauses |-> "none"]
    BY <1>12 DEF Failing!Fate, Failing!Classify, Failing!ClassifyOne, Failing!SourceStatus
  <2>2. Failing!Ping(x) = "warned"
    BY <1>12 DEF Failing!Ping, Failing!Classify, Failing!ClassifyOne, Failing!SourceStatus
  <2> HIDE DEF x
  <2> QED BY <1>1, <1>2, <1>12, <2>1, <2>2 DEF Failing!NothingMisread, x
<1>13. CASE /\ e.root = "none" /\ e.status = 200 /\ e.body = "oauth_error"
           /\ x.class = "AuthFailed"
  <2>1. Failing!Fate(x) = [ends |-> "config", pauses |-> "none"]
    BY <1>13 DEF Failing!Fate, Failing!Classify, Failing!ClassifyOne, Failing!SourceStatus
  <2>2. Failing!Ping(x) = "config"
    BY <1>13 DEF Failing!Ping, Failing!Classify, Failing!ClassifyOne, Failing!SourceStatus
  <2> HIDE DEF x
  <2> QED BY <1>1, <1>2, <1>13, <2>1, <2>2 DEF Failing!NothingMisread, x
<1>14. CASE /\ e.root = "none" /\ e.status = 302 /\ e.body = "none"
           /\ x.class = "SubredditRedirected"
  <2>1. Failing!Fate(x) = [ends |-> "redirect", pauses |-> "none"]
    BY <1>14 DEF Failing!Fate, Failing!Classify, Failing!ClassifyOne, Failing!SourceStatus
  <2>2. Failing!Ping(x) = "sweeps"
    BY <1>14 DEF Failing!Ping, Failing!Classify, Failing!ClassifyOne, Failing!SourceStatus
  <2> HIDE DEF x
  <2> QED BY <1>1, <1>2, <1>14, <2>1, <2>2 DEF Failing!NothingMisread, x
<1>15. CASE /\ e.root = "none" /\ e.status \in {400, 409} /\ e.body = "none"
           /\ x.class = "GatewayError"
  <2>1. Failing!Fate(x) = [ends |-> "error", pauses |-> "none"]
    BY <1>15 DEF Failing!Fate, Failing!Classify, Failing!ClassifyOne, Failing!SourceStatus
  <2>2. Failing!Ping(x) = "warned"
    BY <1>15 DEF Failing!Ping, Failing!Classify, Failing!ClassifyOne, Failing!SourceStatus
  <2> HIDE DEF x
  <2> QED BY <1>1, <1>2, <1>15, <2>1, <2>2 DEF Failing!NothingMisread, x
<1>16. CASE /\ e.root = "none" /\ e.status = 404 /\ e.body = "none"
           /\ x.class = "SubredditNotFound"
  <2>1. Failing!Fate(x) = [ends |-> "not_found", pauses |-> "none"]
    BY <1>16 DEF Failing!Fate, Failing!Classify, Failing!ClassifyOne, Failing!SourceStatus
  <2>2. Failing!Ping(x) = "sweeps"
    BY <1>16 DEF Failing!Ping, Failing!Classify, Failing!ClassifyOne, Failing!SourceStatus
  <2> HIDE DEF x
  <2> QED BY <1>1, <1>2, <1>16, <2>1, <2>2 DEF Failing!NothingMisread, x
<1>17. CASE /\ e.root = "none" /\ e.status = 451 /\ e.body = "none"
           /\ x.class = "SubredditForbidden"
  <2>1. Failing!Fate(x) = [ends |-> "forbidden", pauses |-> "none"]
    BY <1>17 DEF Failing!Fate, Failing!Classify, Failing!ClassifyOne, Failing!SourceStatus
  <2>2. Failing!Ping(x) = "sweeps"
    BY <1>17 DEF Failing!Ping, Failing!Classify, Failing!ClassifyOne, Failing!SourceStatus
  <2> HIDE DEF x
  <2> QED BY <1>1, <1>2, <1>17, <2>1, <2>2 DEF Failing!NothingMisread, x
<1>18. CASE /\ e.root = "none" /\ e.status = 502 /\ e.body = "none"
           /\ x.class = "TransientError" /\ x.cause = "none"
  <2>1. Failing!Fate(x) = [ends |-> "error", pauses |-> "ladder"]
    BY <1>18 DEF Failing!Fate, Failing!Classify, Failing!ClassifyOne, Failing!SourceStatus
  <2>2. Failing!Ping(x) = "warned"
    BY <1>18 DEF Failing!Ping, Failing!Classify, Failing!ClassifyOne, Failing!SourceStatus
  <2> HIDE DEF x
  <2> QED BY <1>1, <1>2, <1>18, <2>1, <2>2 DEF Failing!NothingMisread, x
<1> QED BY UnderstoodAs, <1>3, <1>4, <1>5, <1>6, <1>7, <1>8, <1>9, <1>10, <1>11, <1>12, <1>13,
           <1>14, <1>15, <1>16, <1>17, <1>18 DEF Failing!NetworkRoots

-----------------------------------------------------------------------------
(* PureRules: normalising, and settings.                                   *)

\* Every wire item becomes a clean row or a clean reject: a row names no
\* deleted account and stands under its own post, and no entry of a crosspost's parents is kept.
THEOREM ShapesClean == \A item \in Shapes : RowsAreClean(item)
<1> TAKE item \in Shapes
<1>1. item.author \in {"name", "record", "marker", "number", "absent"} /\ item.kind \in {"post", "comment"}
  BY DEF Shapes, Kinds
<1>2. /\ Canonical(item).author = IF item.author = "record" THEN "name" ELSE item.author
      /\ Canonical(item).parents = Parents(item)
      /\ Canonical(item).kind = item.kind /\ Canonical(item).link = item.link
  BY DEF Canonical, Shapes
<1>3. CASE Accepted(Canonical(item))
  <2>1. Normalised(item) = [row |-> TRUE, author |-> WriterOf(Canonical(item)), kept |-> Parents(item),
                            post |-> "own"]
    <3>1. ~(Canonical(item).kind = "comment" /\ Canonical(item).link = "other")
      BY <1>3 DEF Accepted, Agrees
    <3> QED BY <1>2, <1>3, <3>1 DEF Normalised
  <2>2. /\ WriterOf(Canonical(item)) = "name" => item.author \in {"name", "record"}
        /\ WriterOf(Canonical(item)) # "marker"
    BY <1>1, <1>2 DEF WriterOf
  <2>3. item.parents \in {"records", "junk"} => Parents(item) = "pointers"
    BY DEF Parents
  <2> QED BY <2>1, <2>2, <2>3 DEF RowsAreClean
<1>4. CASE ~Accepted(Canonical(item))
  BY <1>4 DEF RowsAreClean, Normalised, Parents
<1> QED BY <1>3, <1>4

\* Settings that load are the ones that were meant, layer by layer, and the budget made of them
\* is within the cap, whatever --budget asks for.
THEOREM SettingsMeant ==
  ASSUME NEW process, Options!IsProcess(process), NEW n \in Int
  PROVE  Options!SettingsAreMeant(process, n)
<1> DEFINE s == Options!Load(process).settings
           env == Options!Effective(process)
           from == Options!FromFile(process)
<1>1. SUFFICES ASSUME Options!Load(process).ok
               PROVE  /\ \A k \in DOMAIN process.env \ process.empty : s[k] = process.env[k]
                      /\ \A k \in Options!Static \ (DOMAIN process.env \ process.empty) : s[k] = process.file.keys[k]
                      /\ process.typo = "none" /\ ~process.file.extra
                      /\ "password" \notin DOMAIN Options!NonSecret(s)
                      /\ process.pytest => s.data_dir # RealDir \/ process.allowed
                      /\ \A wanted \in {n, s.limit} :
                           LET limits   == Options!BudgetOf(s, wanted)!Limit
                               reserves == Options!BudgetOf(s, wanted)!Reserve
                           IN  /\ Options!BudgetBuilds(limits, reserves, s.cap) /\ limits <= s.cap
                               /\ wanted > 0 => Options!BudgetOf(s, wanted)!CanAfford(0, 1)
                               /\ wanted = s.limit => limits = wanted
  BY DEF Options!SettingsAreMeant
<1>2. /\ s = Options!Layered(env, from)
      /\ process.file.form # "list" /\ ~process.file.extra /\ ~Options!Unknown(process)
      /\ Options!StaticFits(s) /\ Options!DirFits(s, process)
  BY <1>1 DEF Options!Load
<1>3. DOMAIN env = DOMAIN process.env \ process.empty /\ \A k \in DOMAIN env : env[k] = process.env[k]
  BY DEF Options!Effective
<1>4. /\ DOMAIN from \subseteq DOMAIN process.file.keys
      /\ \A k \in DOMAIN from : from[k] = process.file.keys[k]
  <2>1. CASE process.file.form = "mapping"
    BY <2>1 DEF Options!FromFile
  <2>2. CASE process.file.form # "mapping"
    <3>1. from = << >> /\ DOMAIN from = {}
      BY <2>2 DEF Options!FromFile
    <3> QED BY <3>1
  <2> QED BY <2>1, <2>2
<1>5. /\ DOMAIN s = DOMAIN env \cup DOMAIN from \cup {"data_dir", "password"}
      /\ \A k \in DOMAIN env : s[k] = env[k]
      /\ \A k \in DOMAIN from \ DOMAIN env : s[k] = from[k]
  BY <1>2 DEF Options!Layered, Options!Over, Options!Defaults
<1>6. Options!Static \subseteq DOMAIN env \cup DOMAIN from
  BY <1>2, <1>5 DEF Options!StaticFits, Options!Static
<1>7. \A k \in {"limit", "cap", "reserve"} : s[k] \in Int
  BY <1>3, <1>4, <1>5, <1>6 DEF Options!IsProcess, Options!Numbers, Options!Static
<1>8. /\ s["limit"] > 0 /\ s["cap"] \in 1 .. MostRequests /\ s["reserve"] >= 0 /\ s["limit"] <= s["cap"]
  BY <1>2 DEF Options!StaticFits, Options!BudgetFits
<1>a. \A k \in DOMAIN process.env \ process.empty : s[k] = process.env[k]
  BY <1>3, <1>5
<1>b. \A k \in Options!Static \ (DOMAIN process.env \ process.empty) : s[k] = process.file.keys[k]
  BY <1>3, <1>4, <1>5, <1>6
<1>c. process.typo = "none" /\ ~process.file.extra
  BY <1>2 DEF Options!Unknown
<1>d. "password" \notin DOMAIN Options!NonSecret(s)
  BY DEF Options!NonSecret
<1>e. process.pytest => s.data_dir # RealDir \/ process.allowed
  BY <1>2 DEF Options!DirFits
<1>f. ASSUME NEW wanted \in {n, s["limit"]}
      PROVE  LET limits   == Options!BudgetOf(s, wanted)!Limit
                 reserves == Options!BudgetOf(s, wanted)!Reserve
             IN  /\ Options!BudgetBuilds(limits, reserves, s.cap) /\ limits <= s.cap
                 /\ wanted > 0 => Options!BudgetOf(s, wanted)!CanAfford(0, 1)
                 /\ wanted = s.limit => limits = wanted
  <2> HIDE DEF s
  <2>1. wanted \in Int /\ s.cap \in Int /\ s.cap >= 1 /\ s.reserve \in Int /\ s.reserve >= 0
        /\ s.limit \in Int /\ s.limit > 0 /\ s.limit <= s.cap
    BY <1>7, <1>8, <1>f
  <2> QED BY <2>1 DEF Options!BudgetBuilds, Options!BudgetOf!Limit, Options!BudgetOf!Reserve,
                      Options!BudgetOf!CanAfford, Options!BudgetOf!Planned,
                      Options!BudgetOf!Least, Options!BudgetOf!Most
<1> QED BY <1>a, <1>b, <1>c, <1>d, <1>e, <1>f

-----------------------------------------------------------------------------
(* PureRules: the digest's settings and run listed.                          *)

\* The library's operators are the same whichever module takes them.
LEMMA SameOperators ==
  /\ \A S : Telling!Cardinality(S) = Cardinality(S)
  /\ \A S : Telling!IsFiniteSet(S) <=> IsFiniteSet(S)
  /\ \A S : Tagging!Cardinality(S) = Cardinality(S)
<1>1. \A S : Telling!Cardinality(S) = Cardinality(S)
  BY DEF Telling!Cardinality, Cardinality
<1>2. \A S : Telling!IsFiniteSet(S) <=> IsFiniteSet(S)
  BY DEF Telling!IsFiniteSet, IsFiniteSet
<1>3. \A S : Tagging!Cardinality(S) = Cardinality(S)
  BY DEF Tagging!Cardinality, Cardinality
<1> QED BY <1>1, <1>2, <1>3

\* The larger and the smaller of two.
LEMMA OfTwo ==
  ASSUME NEW a \in Int, NEW b \in Int
  PROVE  /\ Telling!Max({a, b}) = IF a >= b THEN a ELSE b
         /\ Telling!Min({a, b}) = IF a <= b THEN a ELSE b
<1> DEFINE hi == IF a >= b THEN a ELSE b
           lo == IF a <= b THEN a ELSE b
<1>1. Telling!Max({a, b}) = hi
  <2>1. hi \in {a, b} /\ \A y \in {a, b} : hi >= y
    OBVIOUS
  <2>2. \A x \in {a, b} : (\A y \in {a, b} : x >= y) => x = hi
    OBVIOUS
  <2> HIDE DEF hi
  <2> QED BY <2>1, <2>2 DEF Telling!Max
<1>2. Telling!Min({a, b}) = lo
  <2>1. lo \in {a, b} /\ \A y \in {a, b} : lo <= y
    OBVIOUS
  <2>2. \A x \in {a, b} : (\A y \in {a, b} : x <= y) => x = lo
    OBVIOUS
  <2> HIDE DEF lo
  <2> QED BY <2>1, <2>2 DEF Telling!Min
<1> QED BY <1>1, <1>2

\* Of every row that can be read at all, whichever of its columns cannot: no warning it counted
\* or listed goes unsaid, each lost column is an error, and the page shows what the digest lists.
THEOREM RowsTold ==
  ASSUME NEW row, Telling!IsRunRow(row)
  PROVE  Telling!NothingUnsaid(row)
<1> DEFINE nc == Telling!Counted(row)
           w  == Telling!Warned(row)
           v  == Telling!Verdicts(row)
           lc == Telling!Lost(row.counters)
           lv == Telling!Lost(row.violations)
           lw == Telling!Lost(row.warnings)
           line == Telling!Line(row)
           err == IF row.error THEN 1 ELSE 0
           nw == w.named + w.nameless
<1>1. /\ nc \in Int /\ w.named \in Nat /\ w.nameless \in Nat
      /\ v.warning \in Nat /\ v.failure \in Nat /\ v.other \in Nat
      /\ lc \in {0, 1} /\ lv \in {0, 1} /\ lw \in {0, 1} /\ err \in {0, 1}
  <2>1. nc \in Int
    BY DEF Telling!IsRunRow, Telling!Counted, Telling!Recorded
  <2>2. v.warning \in Nat /\ v.failure \in Nat /\ v.other \in Nat
    BY DEF Telling!IsRunRow, Telling!Verdicts, Telling!Recorded
  <2>3. w.named \in Nat /\ w.nameless \in Nat
    BY DEF Telling!IsRunRow, Telling!Warned, Telling!Recorded
  <2>4. lc \in {0, 1} /\ lv \in {0, 1} /\ lw \in {0, 1}
    BY DEF Telling!Lost
  <2> QED BY <2>1, <2>2, <2>3, <2>4
<1>2. /\ line.failures = v.failure + lc + lv + lw
      /\ line.warnings = v.warning + w.named + w.nameless
      /\ line.others = v.other
      /\ line.unrecorded = Telling!Max({0, nc - w.named})
  BY DEF Telling!Line, Telling!Named
<1>3. Cardinality({c \in {"counters", "violations", "warnings"} : row[c] = Unreadable}) = lc + lv + lw
  <2> DEFINE A == IF row["counters"] = Unreadable THEN {"counters"} ELSE {}
             B == IF row["violations"] = Unreadable THEN A \cup {"violations"} ELSE A
             C == IF row["warnings"] = Unreadable THEN B \cup {"warnings"} ELSE B
  <2>1. {c \in {"counters", "violations", "warnings"} : row[c] = Unreadable} = C
    OBVIOUS
  <2>2. IsFiniteSet(A) /\ Cardinality(A) = lc /\ A \subseteq {"counters"}
    BY FS_EmptySet, FS_Singleton DEF Telling!Lost
  <2>3. IsFiniteSet(B) /\ Cardinality(B) = lc + lv /\ B \subseteq {"counters", "violations"}
    <3>1. "violations" \notin A
      BY <2>2
    <3> HIDE DEF A
    <3>2. IsFiniteSet(A \cup {"violations"}) /\ Cardinality(A \cup {"violations"}) = Cardinality(A) + 1
      BY <2>2, <3>1, FS_AddElement
    <3> QED BY <1>1, <2>2, <3>2 DEF Telling!Lost
  <2>4. Cardinality(C) = lc + lv + lw
    <3>1. "warnings" \notin B
      BY <2>3
    <3> HIDE DEF B
    <3>2. Cardinality(B \cup {"warnings"}) = Cardinality(B) + 1
      BY <2>3, <3>1, FS_AddElement
    <3> QED BY <1>1, <2>3, <3>2 DEF Telling!Lost
  <2> HIDE DEF C
  <2> QED BY <2>1, <2>4
<1> HIDE DEF nc, w, v, lc, lv, lw, line, err
<1>4. line.unrecorded = IF nc >= w.named THEN nc - w.named ELSE 0
  BY <1>1, <1>2, OfTwo
<1>5. /\ Telling!DigestErrors(row) = v.failure + lc + lv + lw + err
      /\ Telling!DigestWarnings(row) = v.warning + nw + line.unrecorded
      /\ Telling!PageWarnings(row).of = v.warning + nw + line.unrecorded
      /\ Telling!PageProblems(row) =
           v.failure + lc + lv + lw + (v.warning + nw) + v.other
             + (IF line.unrecorded >= 1 THEN 1 ELSE 0) + err
  <2>1. Telling!Min({1, line.unrecorded}) = IF line.unrecorded >= 1 THEN 1 ELSE 0
    <3> DEFINE u == line.unrecorded
    <3>1. u \in Int /\ u >= 0
      BY <1>1, <1>4
    <3> HIDE DEF u
    <3>2. Telling!Min({1, u}) = IF 1 <= u THEN 1 ELSE u
      BY <3>1, OfTwo
    <3> QED BY <3>1, <3>2 DEF u
  <2> QED BY <1>1, <1>2, <1>4, <2>1
          DEF Telling!DigestErrors, Telling!DigestWarnings, Telling!PageWarnings, Telling!PageProblems, line, err
<1>6. Telling!Max({nc, nw}) = IF nc >= nw THEN nc ELSE nw
  BY <1>1, OfTwo
<1>7. /\ Telling!DigestWarnings(row) - v.warning >= nc
      /\ Telling!DigestWarnings(row) - v.warning >= nw
      /\ w.nameless = 0 => Telling!DigestWarnings(row) - v.warning = Telling!Max({nc, nw})
  BY <1>1, <1>4, <1>5, <1>6
<1>8. Telling!DigestErrors(row) >=
        Telling!Cardinality({c \in {"counters", "violations", "warnings"} : row[c] = Unreadable})
  BY <1>1, <1>3, <1>5, SameOperators
<1>9. Telling!PageProblems(row) = 0 <=>
        Telling!DigestErrors(row) + Telling!DigestWarnings(row) + v.other = 0
  BY <1>1, <1>4, <1>5
<1> QED BY <1>5, <1>7, <1>8, <1>9 DEF Telling!NothingUnsaid, nc, w, v

\* The digest's settings summary can be built of any two run rows, without settings or with
\* unreadable ones among them, exactly when the later one's times are in order; and one that
\* names no change comes of two rows that agree.
THEOREM SettingsTold ==
  ASSUME NEW previous, previous # Null => Telling!IsSettingsRow(previous),
         NEW current, Telling!IsSettingsRow(current), NEW today_ \in Nat
  PROVE  Telling!SettingsAreTold(previous, current, today_)
<1> DEFINE summary == Telling!Summary(previous, current, today_)
           b == previous.settings
           a == current.settings
<1>n. Null # {}
  BY PureAssumption DEF Telling!DigestAssumption
<1>t. summary.started <= summary.finished
        <=> current.finished = Null \/ Telling!Began(current) <= current.finished
  <2>1. /\ summary.started = Telling!Began(current)
        /\ summary.finished = Telling!Ended(current)
    BY DEF Telling!Summary
  <2>2. Telling!Began(current) \in Int
    BY DEF Telling!Began, Telling!IsSettingsRow
  <2>3. CASE current.finished = Null
    <3>1. Telling!Ended(current) = Telling!Began(current)
      BY <2>3 DEF Telling!Ended
    <3> HIDE DEF summary
    <3> QED BY <2>1, <2>2, <2>3, <3>1
  <2>4. CASE current.finished # Null
    <3>1. Telling!Ended(current) = current.finished
      BY <2>4 DEF Telling!Ended
    <3> HIDE DEF summary
    <3> QED BY <2>1, <2>4, <3>1
  <2> QED BY <2>3, <2>4
<1>1. CASE previous = Null
  <2>1. /\ summary.keys = {} /\ summary.total = Telling!Max({1, today_})
        /\ summary.before = Null
    BY <1>1 DEF Telling!Summary
  <2>2. Telling!Max({1, today_}) \in Nat
    BY OfTwo
  <2>3. Cardinality({}) <= summary.total
    BY <2>1, <2>2, FS_EmptySet
  <2> HIDE DEF summary
  <2>4. Telling!SummaryBuilds(summary) <=> summary.started <= summary.finished
    BY <2>1, <2>3, SameOperators DEF Telling!SummaryBuilds
  <2> QED BY <1>t, <1>1, <2>4 DEF Telling!SettingsAreTold, summary
<1>2. CASE previous # Null /\ ~(Telling!Recorded(b) /\ Telling!Recorded(a))
  <2>1. summary.keys = Null
    BY <1>2 DEF Telling!Summary, Telling!Changes
  <2> HIDE DEF summary
  <2>2. Telling!SummaryBuilds(summary) <=> summary.started <= summary.finished
    BY <2>1 DEF Telling!SummaryBuilds
  <2> QED BY <1>n, <1>t, <2>1, <2>2 DEF Telling!SettingsAreTold, summary
<1>3. CASE previous # Null /\ Telling!Recorded(b) /\ Telling!Recorded(a)
  <2> DEFINE D == Telling!Differing(b, a)
             U == DOMAIN b \cup DOMAIN a
             of == Telling!Cardinality(U)
  <2>1. /\ b = [k \in DOMAIN b |-> b[k]] /\ a = [k \in DOMAIN a |-> a[k]]
        /\ \A k \in DOMAIN b : b[k] # Null
        /\ \A k \in DOMAIN a : a[k] # Null
        /\ previous.fingerprint = b /\ current.fingerprint = a
        /\ IsFiniteSet(DOMAIN b) /\ IsFiniteSet(DOMAIN a)
    BY <1>3, SameOperators DEF Telling!IsSettingsRow
  <2>2. /\ summary.keys = D
        /\ summary.total = Telling!Max({1, IF of = 0 THEN today_ ELSE of})
        /\ summary.before = previous.fingerprint
    BY <1>3 DEF Telling!Summary, Telling!Changes
  <2>3. IsFiniteSet(U) /\ of \in Nat /\ of = Cardinality(U)
    BY <2>1, FS_Union, FS_CardinalityType, SameOperators
  <2>4. Cardinality(D) <= of /\ Cardinality(D) \in Nat
    <3>1. D \subseteq U
      BY DEF Telling!Differing
    <3> HIDE DEF D, U
    <3> QED BY <2>3, <3>1, FS_Subset, FS_CardinalityType
  <2>5. summary.total \in Int /\ summary.total >= of
    <3> DEFINE t == IF of = 0 THEN today_ ELSE of
    <3>1. t \in Nat /\ t >= of
      BY <2>3
    <3> HIDE DEF t, of
    <3>2. Telling!Max({1, t}) = IF 1 >= t THEN 1 ELSE t
      BY <3>1, OfTwo
    <3>3. summary.total = Telling!Max({1, t})
      BY <2>2 DEF t
    <3> QED BY <2>3, <3>1, <3>2, <3>3
  <2>6. summary.before # Null
    BY <1>3, <2>1, <2>2 DEF Telling!Recorded
  <2>7. ASSUME D = {}
        PROVE  b = a
    <3>1. \A k \in U : Telling!At(b, k) = Telling!At(a, k)
      BY <2>7 DEF Telling!Differing
    <3>2. DOMAIN b = DOMAIN a
      BY <2>1, <3>1 DEF Telling!At
    <3>3. \A k \in DOMAIN b : b[k] = a[k]
      BY <3>1, <3>2 DEF Telling!At
    <3> QED BY <2>1, <3>2, <3>3
  <2>8. Telling!Cardinality(D) <= summary.total
    <3> HIDE DEF D, of, summary
    <3> QED BY <2>3, <2>4, <2>5, SameOperators
  <2> HIDE DEF summary
  <2>9. Telling!SummaryBuilds(summary) <=> summary.started <= summary.finished
    BY <2>2, <2>6, <2>8 DEF Telling!SummaryBuilds
  <2> HIDE DEF D
  <2>10. summary.keys = {} => b = a /\ previous.fingerprint = current.fingerprint
    BY <2>1, <2>2, <2>7
  <2> QED BY <1>t, <2>9, <2>10 DEF Telling!SettingsAreTold, summary
<1> QED BY <1>1, <1>2, <1>3

-----------------------------------------------------------------------------
(* PureRules: the digest's sections.                                       *)

\* The place of each member: one more than the members before it.
PlaceIn(S, before) == [i \in S |-> Cardinality({j \in S : <<j, i>> \in before}) + 1]

\* A strict total order gives the members of a finite set the places 1, 2, and so on.
LEMMA Placing ==
  ASSUME NEW S, IsFiniteSet(S), NEW before,
         \A i \in S : <<i, i>> \notin before,
         \A i, j, k \in S : <<i, j>> \in before /\ <<j, k>> \in before => <<i, k>> \in before,
         \A i, j \in S : i # j => <<i, j>> \in before \/ <<j, i>> \in before
  PROVE  /\ PlaceIn(S, before) \in [S -> 1 .. Cardinality(S)]
         /\ \A i, j \in S : <<i, j>> \in before => PlaceIn(S, before)[i] < PlaceIn(S, before)[j]
         /\ \A i, j \in S : PlaceIn(S, before)[i] = PlaceIn(S, before)[j] => i = j
         /\ \A n \in 1 .. Cardinality(S) : \E i \in S : PlaceIn(S, before)[i] = n
<1> DEFINE at_ == PlaceIn(S, before)
<1>d. at_ = [i \in S |-> Cardinality({j \in S : <<j, i>> \in before}) + 1]
  BY DEF PlaceIn
<1> HIDE DEF at_
<1> DEFINE Below(i) == {j \in S : <<j, i>> \in before}
<1>f. \A i \in S : IsFiniteSet(Below(i)) /\ Cardinality(Below(i)) \in Nat /\ at_[i] = Cardinality(Below(i)) + 1
  BY <1>d, FS_Subset, FS_CardinalityType
<1>g. \A i \in S : at_[i] \in Nat
  <2> HIDE DEF Below
  <2> QED BY <1>f
<1>n. Cardinality(S) \in Nat
  BY FS_CardinalityType
<1>1. ASSUME NEW i \in S
      PROVE  at_[i] \in 1 .. Cardinality(S)
  <2>1. IsFiniteSet(S \ {i}) /\ Cardinality(S \ {i}) = Cardinality(S) - 1
    BY FS_RemoveElement
  <2>2. Below(i) \subseteq S \ {i}
    OBVIOUS
  <2> HIDE DEF Below
  <2>3. Cardinality(Below(i)) <= Cardinality(S) - 1
    BY <2>1, <2>2, FS_Subset
  <2> QED BY <1>f, <1>n, <2>3
<1>2. ASSUME NEW i \in S, NEW j \in S, <<i, j>> \in before
      PROVE  at_[i] < at_[j]
  <2>1. Below(i) \subseteq Below(j) /\ i \in Below(j) /\ i \notin Below(i)
    BY <1>2
  <2> HIDE DEF Below
  <2>2. Cardinality(Below(i)) <= Cardinality(Below(j)) /\ Cardinality(Below(i)) # Cardinality(Below(j))
    BY <1>f, <2>1, FS_Subset
  <2> QED BY <1>f, <2>2
<1>3. ASSUME NEW i \in S, NEW j \in S, at_[i] = at_[j], i # j
      PROVE  FALSE
  <2>1. <<i, j>> \in before \/ <<j, i>> \in before
    BY <1>3
  <2>2. at_[i] < at_[j] \/ at_[j] < at_[i]
    BY <1>2, <2>1
  <2> QED BY <1>3, <1>g, <2>2
<1>4. at_ \in Injection(S, 1 .. Cardinality(S))
  <2>1. at_ \in [S -> 1 .. Cardinality(S)]
    BY <1>1, <1>d
  <2>2. \A i, j \in S : at_[i] = at_[j] => i = j
    BY <1>3
  <2> QED BY <2>1, <2>2, Zenon DEF Injection, IsInjective
<1>5. IsFiniteSet(1 .. Cardinality(S)) /\ Cardinality(1 .. Cardinality(S)) = Cardinality(S)
  BY <1>n, FS_Interval
<1>6. at_ \in Surjection(S, 1 .. Cardinality(S))
  BY <1>4, <1>5, FS_Injection
<1> QED BY <1>2, <1>3, <1>6 DEF Surjection, at_

\* rank_posts orders any two posts, one way only.
LEMMA RanksApart ==
  ASSUME NEW listed, Telling!ArePosts(listed)
  PROVE  /\ \A i \in DOMAIN listed : ~Telling!RankBefore(listed[i], listed[i])
         /\ \A i, j, k \in DOMAIN listed :
              Telling!RankBefore(listed[i], listed[j]) /\ Telling!RankBefore(listed[j], listed[k])
                => Telling!RankBefore(listed[i], listed[k])
         /\ \A i, j \in DOMAIN listed :
              i # j => Telling!RankBefore(listed[i], listed[j]) \/ Telling!RankBefore(listed[j], listed[i])
<1>1. \A i \in DOMAIN listed : /\ listed[i].authors \in Nat /\ listed[i].comments \in Nat
                             /\ listed[i].score \in Int /\ listed[i].id \in Nat
  <2> DEFINE PostRow == [id : Nat, authors : Nat, comments : Nat, score : Int, shown : BOOLEAN, age : Nat]
  <2>1. listed \in Seq(PostRow)
    BY DEF Telling!ArePosts
  <2>2. \A i \in DOMAIN listed : listed[i] \in PostRow
    <3> HIDE DEF PostRow
    <3> QED BY <2>1
  <2> QED BY <2>2
<1>2. \A i \in DOMAIN listed : ~Telling!RankBefore(listed[i], listed[i])
  BY <1>1 DEF Telling!RankBefore
<1>3. ASSUME NEW i \in DOMAIN listed, NEW j \in DOMAIN listed, NEW k \in DOMAIN listed,
             Telling!RankBefore(listed[i], listed[j]), Telling!RankBefore(listed[j], listed[k])
      PROVE  Telling!RankBefore(listed[i], listed[k])
  BY <1>1, <1>3 DEF Telling!RankBefore
<1>4. ASSUME NEW i \in DOMAIN listed, NEW j \in DOMAIN listed, i # j
      PROVE  Telling!RankBefore(listed[i], listed[j]) \/ Telling!RankBefore(listed[j], listed[i])
  <2>1. listed[i].id # listed[j].id
    BY <1>4 DEF Telling!ArePosts
  <2> QED BY <1>1, <2>1 DEF Telling!RankBefore
<1> QED BY <1>2, <1>3, <1>4

\* So that sorted() is stable does not matter: the ranking never asks who came first.
LEMMA NoTies ==
  ASSUME NEW listed, Telling!ArePosts(listed), NEW i \in DOMAIN listed, NEW j \in DOMAIN listed
  PROVE  Telling!Precedes(listed, i, j) <=> Telling!RankBefore(listed[i], listed[j])
<1>1. DOMAIN listed \subseteq Nat
  <2>1. DOMAIN listed = 1 .. Len(listed)
    BY DEF Telling!ArePosts
  <2> QED BY <2>1
<1> QED BY <1>1, RanksApart DEF Telling!Precedes

ValuesAt(list, S) == {list[i] : i \in S}

\* What has a place stands at it, and nothing else does.
LEMMA StandsAt ==
  ASSUME NEW S, IsFiniteSet(S), NEW list, NEW at_ \in [S -> 1 .. Cardinality(S)],
         \A i, j \in S : at_[i] = at_[j] => i = j,
         \A n \in 1 .. Cardinality(S) : \E i \in S : at_[i] = n
  PROVE  /\ Telling!Arranged(list, at_) \in Seq(ValuesAt(list, S))
         /\ Len(Telling!Arranged(list, at_)) = Cardinality(S)
         /\ \A i \in S : Telling!Arranged(list, at_)[at_[i]] = list[i]
         /\ \A n \in 1 .. Cardinality(S) :
              \E i \in S : at_[i] = n /\ Telling!Arranged(list, at_)[n] = list[i]
<1> DEFINE A == Telling!Arranged(list, at_)
           Who(n) == CHOOSE i \in S : at_[i] = n
<1>d. DOMAIN at_ = S /\ Cardinality(S) \in Nat
  BY FS_CardinalityType
<1>1. A = [n \in 1 .. Cardinality(S) |-> list[Who(n)]]
  BY <1>d, SameOperators DEF Telling!Arranged
<1>2. \A n \in 1 .. Cardinality(S) : Who(n) \in S /\ at_[Who(n)] = n
  OBVIOUS
<1>3. \A i \in S : Who(at_[i]) = i
  BY <1>2
<1> HIDE DEF Who, A
<1>4. A \in [1 .. Cardinality(S) -> ValuesAt(list, S)]
  BY <1>1, <1>2 DEF ValuesAt
<1>5. A \in Seq(ValuesAt(list, S)) /\ Len(A) = Cardinality(S)
  BY <1>4, <1>d
<1>6. \A i \in S : A[at_[i]] = list[i]
  BY <1>1, <1>3
<1>7. \A n \in 1 .. Cardinality(S) : \E i \in S : at_[i] = n /\ A[n] = list[i]
  BY <1>1, <1>2
<1> QED BY <1>5, <1>6, <1>7 DEF A

Place(listed) ==
  LET among == Telling!Windowed(listed, WindowDays)
  IN  [i \in among |-> Cardinality({j \in among : Telling!RankBefore(listed[j], listed[i])}) + 1]

\* Everything of the window is ranked, by the one order there is.
LEMMA RankedByPlace ==
  ASSUME NEW listed, Telling!ArePosts(listed)
  PROVE  LET W == Telling!Windowed(listed, WindowDays)
             R == Telling!Ranked(listed, Telling!Max({1, Telling!Cardinality(W)}))
         IN  /\ IsFiniteSet(W) /\ W \subseteq DOMAIN listed
             /\ R = Telling!Arranged(listed, Place(listed))
             /\ R \in Seq(ValuesAt(listed, W)) /\ Len(R) = Cardinality(W)
             /\ Place(listed) \in [W -> 1 .. Cardinality(W)]
             /\ \A i, j \in W : Place(listed)[i] = Place(listed)[j] => i = j
             /\ \A n \in 1 .. Cardinality(W) : \E i \in W : Place(listed)[i] = n /\ R[n] = listed[i]
             /\ \A i \in W : R[Place(listed)[i]] = listed[i]
             /\ \A i, j \in W :
                  Telling!RankBefore(listed[i], listed[j]) => Place(listed)[i] < Place(listed)[j]
<1> DEFINE W == Telling!Windowed(listed, WindowDays)
           m == Cardinality(W)
           R == Telling!Ranked(listed, Telling!Max({1, Telling!Cardinality(W)}))
           before == {p \in W \X W : Telling!RankBefore(listed[p[1]], listed[p[2]])}
<1>1. W \subseteq DOMAIN listed /\ IsFiniteSet(W) /\ m \in Nat
  <2>1. W \subseteq DOMAIN listed
    BY DEF Telling!Windowed
  <2>2. IsFiniteSet(DOMAIN listed)
    <3>1. DOMAIN listed = 1 .. Len(listed) /\ Len(listed) \in Nat
      BY DEF Telling!ArePosts
    <3> QED BY <3>1, FS_Interval
  <2> QED BY <2>1, <2>2, FS_Subset, FS_CardinalityType
<1>2. \A i, j \in W : <<i, j>> \in before <=> Telling!RankBefore(listed[i], listed[j])
  OBVIOUS
<1>3. Place(listed) = [i \in W |-> Cardinality({j \in W : <<j, i>> \in before}) + 1]
  <2> HIDE DEF W, before
  <2>1. \A i \in W : {j \in W : <<j, i>> \in before} = {j \in W : Telling!RankBefore(listed[j], listed[i])}
    BY <1>2
  <2> QED BY <2>1 DEF Place, W
<1>4. /\ Place(listed) \in [W -> 1 .. m]
      /\ \A i, j \in W : <<i, j>> \in before => Place(listed)[i] < Place(listed)[j]
      /\ \A i, j \in W : Place(listed)[i] = Place(listed)[j] => i = j
      /\ \A n \in 1 .. m : \E i \in W : Place(listed)[i] = n
  <2> HIDE DEF W, before
  <2>1. /\ \A i \in W : <<i, i>> \notin before
        /\ \A i, j, k \in W : <<i, j>> \in before /\ <<j, k>> \in before => <<i, k>> \in before
        /\ \A i, j \in W : i # j => <<i, j>> \in before \/ <<j, i>> \in before
    <3>1. /\ \A i \in W : ~Telling!RankBefore(listed[i], listed[i])
          /\ \A i, j, k \in W : Telling!RankBefore(listed[i], listed[j]) /\ Telling!RankBefore(listed[j], listed[k])
                                  => Telling!RankBefore(listed[i], listed[k])
          /\ \A i, j \in W :
               i # j => Telling!RankBefore(listed[i], listed[j]) \/ Telling!RankBefore(listed[j], listed[i])
      <4>1. \A i \in W : i \in DOMAIN listed
        BY <1>1
      <4> QED BY <4>1, RanksApart
    <3> QED BY <1>2, <3>1
  <2> DEFINE P == Place(listed)
  <2>2. P = PlaceIn(W, before) /\ IsFiniteSet(W)
    BY <1>1, <1>3 DEF PlaceIn
  <2> HIDE DEF P
  <2>3. /\ P \in [W -> 1 .. Cardinality(W)]
        /\ \A i, j \in W : <<i, j>> \in before => P[i] < P[j]
        /\ \A i, j \in W : P[i] = P[j] => i = j
        /\ \A n \in 1 .. Cardinality(W) : \E i \in W : P[i] = n
    BY <2>1, <2>2, Placing
  <2> QED BY <2>3 DEF P
<1>5. Place(listed) = [i \in W |-> Telling!Cardinality({j \in W : Telling!Precedes(listed, j, i)}) + 1]
  <2>1. \A i \in W : {j \in W : Telling!Precedes(listed, j, i)} = {j \in W : Telling!RankBefore(listed[j], listed[i])}
    BY <1>1, NoTies
  <2> QED BY <2>1, SameOperators DEF Place
<1> DEFINE A == Telling!Arranged(listed, Place(listed))
<1>6. /\ A \in Seq(ValuesAt(listed, W)) /\ Len(A) = m
      /\ \A i \in W : A[Place(listed)[i]] = listed[i]
      /\ \A n \in 1 .. m : \E i \in W : Place(listed)[i] = n /\ A[n] = listed[i]
  <2> DEFINE P == Place(listed)
  <2>1. /\ IsFiniteSet(W) /\ P \in [W -> 1 .. Cardinality(W)]
        /\ \A i, j \in W : P[i] = P[j] => i = j
        /\ \A n \in 1 .. Cardinality(W) : \E i \in W : P[i] = n
    BY <1>1, <1>4
  <2> HIDE DEF W, P
  <2>2. /\ Telling!Arranged(listed, P) \in Seq(ValuesAt(listed, W))
        /\ Len(Telling!Arranged(listed, P)) = Cardinality(W)
        /\ \A i \in W : Telling!Arranged(listed, P)[P[i]] = listed[i]
        /\ \A n \in 1 .. Cardinality(W) :
             \E i \in W : P[i] = n /\ Telling!Arranged(listed, P)[n] = listed[i]
    BY <2>1, StandsAt
  <2> QED BY <2>2 DEF P
<1>7. R = A
  <2>1. R = SubSeq(A, 1, Telling!Min({Telling!Max({1, m}), m}))
    BY <1>5, SameOperators DEF Telling!Ranked
  <2>2. Telling!Min({Telling!Max({1, m}), m}) = m
    <3> HIDE DEF m
    <3>1. Telling!Max({1, m}) = IF 1 >= m THEN 1 ELSE m
      BY <1>1, OfTwo
    <3> DEFINE u == Telling!Max({1, m})
    <3>2. u \in Int /\ u >= m
      BY <1>1, <3>1
    <3> HIDE DEF u
    <3>3. Telling!Min({u, m}) = IF u <= m THEN u ELSE m
      BY <1>1, <3>2, OfTwo
    <3> QED BY <1>1, <3>2, <3>3 DEF u
  <2>3. SubSeq(A, 1, m) = A
    <3> HIDE DEF A, m, W
    <3> QED BY <1>1, <1>6
  <2> QED BY <2>1, <2>2, <2>3
<1> HIDE DEF W, before, A, R
<1>8. \A i, j \in W : Telling!RankBefore(listed[i], listed[j]) => Place(listed)[i] < Place(listed)[j]
  BY <1>2, <1>4
<1>9. Place(listed) \in [W -> 1 .. m] /\ \A i, j \in W : Place(listed)[i] = Place(listed)[j] => i = j
  BY <1>4
<1>10. /\ R = Telling!Arranged(listed, Place(listed))
       /\ R \in Seq(ValuesAt(listed, W)) /\ Len(R) = m
       /\ \A i \in W : R[Place(listed)[i]] = listed[i]
       /\ \A n \in 1 .. m : \E i \in W : Place(listed)[i] = n /\ R[n] = listed[i]
  BY <1>6, <1>7 DEF A
<1> QED BY <1>1, <1>8, <1>9, <1>10, Zenon DEF W, R

\* What a list holds does not depend on the order it is in.
LEMMA Reordered ==
  ASSUME NEW D, IsFiniteSet(D), NEW p \in [D -> D], \A i, j \in D : p[i] = p[j] => i = j, NEW X \in SUBSET D
  PROVE  Cardinality({i \in D : p[i] \in X}) = Cardinality(X)
<1> DEFINE Y == {i \in D : p[i] \in X}
           q == [i \in Y |-> p[i]]
<1>1. p \in Surjection(D, D)
  <2>1. p \in Injection(D, D)
    BY DEF Injection, IsInjective
  <2> QED BY <2>1, FS_Injection
<1>2. q \in [Y -> X] /\ \A i, j \in Y : q[i] = q[j] => i = j
  OBVIOUS
<1>3. \A x \in X : \E i \in Y : q[i] = x
  BY <1>1 DEF Surjection
<1>4. IsFiniteSet(Y)
  BY FS_Subset
<1> HIDE DEF q, Y
<1>5. q \in Injection(Y, X) /\ q \in Surjection(Y, X)
  BY <1>2, <1>3 DEF Injection, IsInjective, Surjection
<1>6. Cardinality(X) = Cardinality(Y)
  BY <1>4, <1>5, FS_Surjection
<1> QED BY <1>6 DEF Y

\* The ranking is the same whatever order the rows were read in.
LEMMA AnyOrder ==
  ASSUME NEW listed, Telling!ArePosts(listed), NEW other \in Telling!Reorderings(listed)
  PROVE  /\ Telling!ArePosts(other)
         /\ \A days : Telling!Cardinality(Telling!Windowed(other, days))
                        = Telling!Cardinality(Telling!Windowed(listed, days))
         /\ Telling!Ranked(other, Telling!Max({1, Telling!Cardinality(Telling!Windowed(other, WindowDays))}))
              = Telling!Ranked(listed, Telling!Max({1, Telling!Cardinality(Telling!Windowed(listed, WindowDays))}))
<1> DEFINE D == DOMAIN listed
           PostRow == [id : Nat, authors : Nat, comments : Nat, score : Int, shown : BOOLEAN, age : Nat]
<1>1. PICK p \in [D -> D] : /\ \A i, j \in D : p[i] = p[j] => i = j
                            /\ other = [i \in D |-> listed[p[i]]]
  BY DEF Telling!Reorderings
<1>2. /\ D = 1 .. Len(listed) /\ Len(listed) \in Nat /\ listed \in Seq(PostRow)
      /\ \A i \in D : listed[i] \in PostRow
      /\ \A i, j \in D : listed[i].id = listed[j].id => i = j
  <2>1. listed \in Seq(PostRow)
    BY DEF Telling!ArePosts
  <2>2. D = 1 .. Len(listed) /\ Len(listed) \in Nat /\ \A i \in D : listed[i] \in PostRow
    <3> HIDE DEF PostRow
    <3> QED BY <2>1
  <2> QED BY <2>1, <2>2 DEF Telling!ArePosts
<1>3. IsFiniteSet(D) /\ \A X \in SUBSET D : Cardinality({i \in D : p[i] \in X}) = Cardinality(X)
  <2>1. IsFiniteSet(D)
    BY <1>2, FS_Interval
  <2> HIDE DEF D
  <2> QED BY <1>1, <2>1, Reordered
<1>4. Telling!ArePosts(other)
  <2>1. other \in Seq(PostRow)
    <3>1. other \in [1 .. Len(listed) -> PostRow]
      <4> HIDE DEF PostRow
      <4> QED BY <1>1, <1>2
    <3> HIDE DEF PostRow
    <3> QED BY <1>2, <3>1
  <2>2. \A i, j \in DOMAIN other : other[i].id = other[j].id => i = j
    BY <1>1, <1>2
  <2> QED BY <2>1, <2>2 DEF Telling!ArePosts
<1>5. \A days : Telling!Windowed(other, days) = {i \in D : p[i] \in Telling!Windowed(listed, days)}
  BY <1>1 DEF Telling!Windowed
<1>6. \A days : Cardinality(Telling!Windowed(other, days)) = Cardinality(Telling!Windowed(listed, days))
  <2>1. \A days : Telling!Windowed(listed, days) \in SUBSET D
    BY DEF Telling!Windowed
  <2> HIDE DEF D
  <2> QED BY <1>3, <1>5, <2>1
<1> DEFINE V == Telling!Windowed(other, WindowDays)
           W == Telling!Windowed(listed, WindowDays)
           R == Telling!Ranked(listed, Telling!Max({1, Telling!Cardinality(W)}))
           T == Telling!Ranked(other, Telling!Max({1, Telling!Cardinality(V)}))
<1>7. \A i \in V : Place(other)[i] = Place(listed)[p[i]] /\ p[i] \in W /\ other[i] = listed[p[i]]
  <2> SUFFICES ASSUME NEW i \in V PROVE Place(other)[i] = Place(listed)[p[i]] /\ p[i] \in W /\ other[i] = listed[p[i]]
    OBVIOUS
  <2> DEFINE X == {j \in W : Telling!RankBefore(listed[j], listed[p[i]])}
             Z == {j \in V : Telling!RankBefore(other[j], other[i])}
  <2>1. p[i] \in W /\ i \in D /\ other[i] = listed[p[i]]
    BY <1>1, <1>5
  <2>2. Z = {j \in D : p[j] \in X}
    <3>1. \A j \in D : j \in V <=> p[j] \in W
      BY <1>5
    <3>2. \A j \in V : j \in D /\ other[j] = listed[p[j]]
      BY <1>1, <1>5
    <3> HIDE DEF V, W, D
    <3> QED BY <2>1, <3>1, <3>2
  <2>3. X \in SUBSET D
    BY DEF Telling!Windowed
  <2>4. Cardinality(Z) = Cardinality(X)
    <3> HIDE DEF Z, X, D
    <3> QED BY <1>3, <2>2, <2>3
  <2>5. Place(other)[i] = Cardinality(Z) + 1
    BY DEF Place
  <2>6. Place(listed)[p[i]] = Cardinality(X) + 1
    BY <2>1 DEF Place
  <2> QED BY <2>1, <2>4, <2>5, <2>6
<1>8. T = R
  <2>1. /\ R \in Seq(ValuesAt(listed, W)) /\ Len(R) = Cardinality(W)
        /\ \A i \in W : R[Place(listed)[i]] = listed[i]
    BY RankedByPlace
  <2>2. /\ T \in Seq(ValuesAt(other, V)) /\ Len(T) = Cardinality(V)
        /\ \A n \in 1 .. Cardinality(V) : \E i \in V : Place(other)[i] = n /\ T[n] = other[i]
    BY <1>4, RankedByPlace
  <2>3. Cardinality(V) = Cardinality(W)
    BY <1>6
  <2> HIDE DEF R, T, V, W
  <2>4. \A n \in 1 .. Len(R) : T[n] = R[n]
    BY <1>7, <2>1, <2>2, <2>3
  <2>5. R = [n \in 1 .. Len(R) |-> R[n]] /\ T = [n \in 1 .. Len(T) |-> T[n]]
    BY <2>1, <2>2
  <2> QED BY <2>1, <2>2, <2>3, <2>4, <2>5
<1> QED BY <1>4, <1>6, <1>8, SameOperators

\* Those that qualify are some of the list's.
LEMMA Qualified ==
  ASSUME NEW T, NEW list \in Seq(T)
  PROVE  /\ Telling!Qualifying(list) \in Seq(ValuesAt(list, DOMAIN list)) /\ Len(Telling!Qualifying(list)) <= Len(list)
         /\ \A n \in 1 .. Len(Telling!Qualifying(list)) : Telling!Qualifying(list)[n].authors >= MinAuthors
<1> DEFINE S == {i \in DOMAIN list : list[i].authors >= MinAuthors}
           before == {q \in S \X S : q[1] < q[2]}
           P == PlaceIn(S, before)
<1>1. DOMAIN list = 1 .. Len(list) /\ Len(list) \in Nat
  OBVIOUS
<1>2. IsFiniteSet(S) /\ Cardinality(S) <= Len(list) /\ Cardinality(S) \in Nat /\ S \subseteq Nat
  <2>1. S \subseteq 1 .. Len(list)
    BY <1>1
  <2> HIDE DEF S
  <2>2. IsFiniteSet(1 .. Len(list)) /\ Cardinality(1 .. Len(list)) = Len(list)
    BY <1>1, FS_Interval
  <2>3. IsFiniteSet(S) /\ Cardinality(S) <= Len(list)
    BY <2>1, <2>2, FS_Subset
  <2>4. Cardinality(S) \in Nat
    BY <2>3, FS_CardinalityType
  <2> QED BY <2>1, <2>3, <2>4
<1>3. \A i, j \in S : <<i, j>> \in before <=> i < j
  OBVIOUS
<1>4. /\ P \in [S -> 1 .. Cardinality(S)]
      /\ \A i, j \in S : P[i] = P[j] => i = j
      /\ \A n \in 1 .. Cardinality(S) : \E i \in S : P[i] = n
  <2> HIDE DEF S, before
  <2>1. /\ \A i \in S : <<i, i>> \notin before
        /\ \A i, j, k \in S : <<i, j>> \in before /\ <<j, k>> \in before => <<i, k>> \in before
        /\ \A i, j \in S : i # j => <<i, j>> \in before \/ <<j, i>> \in before
    BY <1>2, <1>3
  <2> QED BY <1>2, <2>1, Placing
<1>5. Telling!Qualifying(list) = Telling!Arranged(list, P)
  <2>1. P = [i \in S |-> Cardinality({j \in S : <<j, i>> \in before}) + 1]
    BY DEF PlaceIn
  <2> HIDE DEF S, before, P
  <2>2. ASSUME NEW i \in S
        PROVE  Cardinality({j \in S : j <= i}) = Cardinality({j \in S : <<j, i>> \in before}) + 1
    <3> DEFINE B == {j \in S : <<j, i>> \in before}
    <3>1. {j \in S : j <= i} = B \cup {i} /\ i \notin B
      <4>1. \A j \in S : j <= i <=> <<j, i>> \in before \/ j = i
        BY <1>2, <1>3
      <4>2. <<i, i>> \notin before
        BY <1>2, <1>3
      <4> QED BY <4>1, <4>2
    <3>2. IsFiniteSet(B)
      BY <1>2, FS_Subset
    <3> HIDE DEF B
    <3>3. Cardinality(B \cup {i}) = Cardinality(B) + 1
      BY <3>1, <3>2, FS_AddElement
    <3> QED BY <3>1, <3>3 DEF B
  <2>3. P = [i \in S |-> Cardinality({j \in S : j <= i})]
    BY <2>1, <2>2
  <2> QED BY <2>3, SameOperators DEF Telling!Qualifying, S
<1>6. /\ Telling!Arranged(list, P) \in Seq(ValuesAt(list, S))
      /\ Len(Telling!Arranged(list, P)) = Cardinality(S)
      /\ \A n \in 1 .. Cardinality(S) : \E i \in S : P[i] = n /\ Telling!Arranged(list, P)[n] = list[i]
  <2>1. /\ IsFiniteSet(S) /\ P \in [S -> 1 .. Cardinality(S)]
        /\ \A i, j \in S : P[i] = P[j] => i = j
        /\ \A n \in 1 .. Cardinality(S) : \E i \in S : P[i] = n
    BY <1>2, <1>4
  <2> HIDE DEF S, P, before
  <2>2. /\ Telling!Arranged(list, P) \in Seq(ValuesAt(list, S))
        /\ Len(Telling!Arranged(list, P)) = Cardinality(S)
        /\ \A i \in S : Telling!Arranged(list, P)[P[i]] = list[i]
        /\ \A n \in 1 .. Cardinality(S) :
             \E i \in S : P[i] = n /\ Telling!Arranged(list, P)[n] = list[i]
    BY <2>1, StandsAt
  <2> QED BY <2>2
<1>7. \A i \in S : list[i].authors >= MinAuthors
  OBVIOUS
<1>8. ValuesAt(list, S) \subseteq ValuesAt(list, DOMAIN list)
  BY DEF ValuesAt
<1> HIDE DEF S, P
<1>9. Telling!Qualifying(list) \in Seq(ValuesAt(list, DOMAIN list))
  BY <1>5, <1>6, <1>8
<1> QED BY <1>2, <1>5, <1>6, <1>7, <1>9

\* The first of a list are at their places.
LEMMA TheFirst ==
  ASSUME NEW T, NEW list \in Seq(T)
  PROVE  /\ Len(Telling!First(list)) <= Len(list) /\ Len(Telling!First(list)) \in Nat
         /\ DOMAIN Telling!First(list) = 1 .. Len(Telling!First(list))
         /\ \A n \in DOMAIN Telling!First(list) : n \in 1 .. Len(list) /\ Telling!First(list)[n] = list[n]
<1> DEFINE k == Telling!Min({TopPosts, Len(list)})
<1>1. TopPosts \in Nat /\ Len(list) \in Nat
  BY PureAssumption DEF Telling!DigestAssumption
<1>2. k \in Nat /\ k <= Len(list)
  <2> DEFINE l == Len(list)
  <2> HIDE DEF l
  <2>1. l \in Nat
    BY <1>1 DEF l
  <2>2. Telling!Min({TopPosts, l}) = IF TopPosts <= l THEN TopPosts ELSE l
    <3> DEFINE t == TopPosts
    <3>1. t \in Int /\ l \in Int
      BY <1>1, <2>1
    <3> HIDE DEF t
    <3>2. Telling!Min({t, l}) = IF t <= l THEN t ELSE l
      BY <3>1, OfTwo
    <3> QED BY <3>2 DEF t
  <2> QED BY <1>1, <2>1, <2>2 DEF l
<1>3. Telling!First(list) = SubSeq(list, 1, k)
  BY DEF Telling!First
<1> HIDE DEF k
<1> QED BY <1>1, <1>2, <1>3

\* A section of the digest says what its rows say, in whatever order the database returned them.
THEOREM SectionsFaithful ==
  ASSUME NEW listed, Telling!ArePosts(listed)
  PROVE  Telling!SectionIsTheRows(listed)
<1> DEFINE W == Telling!Windowed(listed, WindowDays)
           B == Telling!Windowed(listed, BaselineDays)
           R == Telling!Ranked(listed, Telling!Max({1, Telling!Cardinality(W)}))
           Q == Telling!Qualifying(R)
           section == Telling!Section(listed)
           P == Place(listed)
<1>1. section = [top |-> Telling!First(R), now |-> Len(R), untagged |-> Telling!First(Q),
                 qualifying |-> Len(Q), baseline |-> Telling!Cardinality(B)]
  BY DEF Telling!Section
<1>2. /\ IsFiniteSet(W) /\ R \in Seq(ValuesAt(listed, W)) /\ Len(R) = Cardinality(W)
      /\ P \in [W -> 1 .. Cardinality(W)]
      /\ \A n \in 1 .. Cardinality(W) : \E i \in W : P[i] = n /\ R[n] = listed[i]
      /\ \A i \in W : R[P[i]] = listed[i]
      /\ \A i, j \in W : Telling!RankBefore(listed[i], listed[j]) => P[i] < P[j]
  BY RankedByPlace
<1>3. Q \in Seq(ValuesAt(R, DOMAIN R)) /\ Len(Q) <= Len(R) /\ \A n \in 1 .. Len(Q) : Q[n].authors >= MinAuthors
  <2> HIDE DEF R
  <2> QED BY <1>2, Qualified
<1>4. \A other \in Telling!Reorderings(listed) : Telling!Section(other) = section
  <2> SUFFICES ASSUME NEW other \in Telling!Reorderings(listed)
               PROVE  Telling!Section(other) = section
    OBVIOUS
  <2>1. /\ Telling!Cardinality(Telling!Windowed(other, BaselineDays)) = Telling!Cardinality(B)
        /\ Telling!Ranked(other, Telling!Max({1, Telling!Cardinality(Telling!Windowed(other, WindowDays))})) = R
    BY AnyOrder
  <2> HIDE DEF R, B, Q
  <2> QED BY <2>1, <1>1 DEF Telling!Section, Q
<1>5. Telling!SectionBuilds(section)
  <2>1. /\ Len(Telling!First(Q)) <= Len(Q)
        /\ \A n \in DOMAIN Telling!First(Q) : n \in 1 .. Len(Q) /\ Telling!First(Q)[n] = Q[n]
    <3> HIDE DEF Q, R
    <3> QED BY <1>3, TheFirst
  <2> HIDE DEF Q, R
  <2>2. section.untagged = Telling!First(Q) /\ section.qualifying = Len(Q)
    BY <1>1
  <2> HIDE DEF section
  <2> QED BY <2>1, <2>2, <1>3 DEF Telling!SectionBuilds
<1>6. section.qualifying <= section.now /\ section.now <= section.baseline
  <2>1. W \subseteq B
    <3>1. WindowDays \in Nat /\ BaselineDays \in Nat /\ WindowDays <= BaselineDays
      BY PureAssumption DEF Telling!DigestAssumption
    <3>2. \A i \in DOMAIN listed : listed[i].age \in Nat
      <4> DEFINE PostRow == [id : Nat, authors : Nat, comments : Nat, score : Int, shown : BOOLEAN, age : Nat]
      <4>1. listed \in Seq(PostRow)
        BY DEF Telling!ArePosts
      <4>2. \A i \in DOMAIN listed : listed[i] \in PostRow
        <5> HIDE DEF PostRow
        <5> QED BY <4>1
      <4> QED BY <4>2
    <3> QED BY <3>1, <3>2 DEF Telling!Windowed
  <2>2. IsFiniteSet(B)
    <3>1. DOMAIN listed = 1 .. Len(listed) /\ Len(listed) \in Nat
      BY DEF Telling!ArePosts
    <3>2. IsFiniteSet(1 .. Len(listed)) /\ B \in SUBSET (1 .. Len(listed))
      BY <3>1, FS_Interval DEF Telling!Windowed
    <3> HIDE DEF B
    <3> QED BY <3>2, FS_Subset
  <2> HIDE DEF W, B, R, Q
  <2>3. Cardinality(W) <= Cardinality(B)
    BY <2>1, <2>2, FS_Subset
  <2> QED BY <1>1, <1>2, <1>3, <2>3, SameOperators
<1>7. ASSUME NEW i \in DOMAIN listed, NEW j \in DOMAIN section.top,
             listed[i].shown, listed[i].age <= WindowDays, Telling!RankBefore(listed[i], section.top[j])
      PROVE  \E k \in 1 .. j - 1 : section.top[k] = listed[i]
  <2> DEFINE F == Telling!First(R)
  <2>1. /\ section.top = F
        /\ Len(F) <= Len(R) /\ Len(F) \in Nat /\ DOMAIN F = 1 .. Len(F)
        /\ \A n \in DOMAIN F : n \in 1 .. Len(R) /\ F[n] = R[n]
    <3>1. section.top = F
      BY <1>1
    <3> HIDE DEF R
    <3> QED BY <1>2, <3>1, TheFirst
  <2>2. i \in W
    BY <1>7 DEF Telling!Windowed
  <2> HIDE DEF W, R, F, P, section
  <2>3. j \in 1 .. Cardinality(W) /\ section.top[j] = R[j]
    BY <1>2, <1>7, <2>1
  <2>4. PICK h \in W : P[h] = j /\ R[j] = listed[h]
    BY <1>2, <2>3
  <2>5. P[i] < j /\ P[i] \in 1 .. Cardinality(W) /\ R[P[i]] = listed[i]
    BY <1>2, <1>7, <2>2, <2>3, <2>4
  <2>6. P[i] \in 1 .. j - 1 /\ P[i] \in 1 .. Len(F)
    BY <1>7, <2>1, <2>3, <2>5
  <2> QED BY <2>1, <2>5, <2>6
<1> HIDE DEF section
<1> QED BY <1>4, <1>5, <1>6, <1>7 DEF Telling!SectionIsTheRows, section

-----------------------------------------------------------------------------
(* PureRules: themes.                                                      *)

\* The least of some places.
LEMMA Earliest ==
  ASSUME NEW hits \in SUBSET Nat, hits # {}
  PROVE  Tagging!Min(hits) \in hits /\ \A i \in hits : Tagging!Min(hits) <= i
<1>0. PICK k \in hits : TRUE
  OBVIOUS
<1> DEFINE S == {n \in Nat : \A i \in hits : n <= i}
<1>s. S \in SUBSET Nat /\ IsFiniteSet(S) /\ S # {}
  <2>1. S \in SUBSET Nat /\ 0 \in S /\ \A n \in S : n <= k
    OBVIOUS
  <2> HIDE DEF S
  <2> QED BY <2>1, FS_BoundedSetOfNaturals
<1>m. Max(S) \in S /\ \A n \in S : n <= Max(S)
  <2> HIDE DEF S
  <2> QED BY <1>s, MaxIs
<1>1. \E i \in hits : \A j \in hits : i <= j
  <2> DEFINE m == Max(S)
  <2>1. m \in Nat /\ (\A i \in hits : m <= i) /\ ~(m + 1 \in S)
    BY <1>m
  <2> HIDE DEF m
  <2>2. PICK i \in hits : ~(m + 1 <= i)
    BY <2>1
  <2>3. i = m
    BY <2>1, <2>2
  <2> QED BY <2>1, <2>3
<1> QED BY <1>1 DEF Tagging!Min

\* A theme compiles when none of its rules is bad.
LEMMA AllCompile ==
  ASSUME NEW T, NEW rules \in Seq(T)
  PROVE  Tagging!FirstBad(rules) = 0 <=> \A i \in DOMAIN rules : ~Tagging!Bad(rules[i])
<1> DEFINE I == {i \in 1 .. Len(rules) : Tagging!Bad(rules[i])}
<1>1. Tagging!FirstBad(rules) = IF I # {} THEN Tagging!Min(I) ELSE 0
  BY DEF Tagging!FirstBad, Tagging!SelectInSeq
<1>2. \A i \in I : i # 0
  OBVIOUS
<1>3. I \in SUBSET Nat
  OBVIOUS
<1>4. I # {} => Tagging!Min(I) \in I
  <2> HIDE DEF I
  <2> QED BY <1>3, Earliest
<1>5. Tagging!FirstBad(rules) = 0 <=> I = {}
  <2> HIDE DEF I
  <2> QED BY <1>1, <1>2, <1>4
<1> QED BY <1>5

\* The same item, searched patiently.
SameItem(calm, item) ==
  /\ calm.flair = item.flair /\ calm.subreddit = item.subreddit
  /\ DOMAIN calm.search = DOMAIN item.search
  /\ \A p \in DOMAIN item.search :
       /\ DOMAIN calm.search[p] = DOMAIN item.search[p]
       /\ \A f \in DOMAIN item.search[p] :
            calm.search[p][f].found = item.search[p][f].found /\ calm.search[p][f].late = FALSE

\* A patient search finds the same, and is not late.
LEMMA PatientItem ==
  ASSUME NEW rules, NEW item, Tagging!Fits(rules, item)
  PROVE  SameItem(Tagging!Patient(item), item)
<1> DEFINE all == item.search
           at_ == [p \in DOMAIN all |-> [f \in DOMAIN all[p] |-> [all[p][f] EXCEPT !.late = FALSE]]]
<1>1. Tagging!Patient(item) = [item EXCEPT !.search = at_]
  BY Zenon DEF Tagging!Patient
<1>2. DOMAIN item = {"search", "subreddit", "flair"}
  BY DEF Tagging!Fits
<1>3. /\ Tagging!Patient(item).search = at_
      /\ Tagging!Patient(item).flair = item.flair /\ Tagging!Patient(item).subreddit = item.subreddit
  <2> HIDE DEF at_
  <2> QED BY <1>1, <1>2
<1>4. ASSUME NEW p \in DOMAIN all, NEW f \in DOMAIN all[p]
      PROVE  at_[p][f].found = all[p][f].found /\ at_[p][f].late = FALSE
  <2>1. at_[p][f] = [all[p][f] EXCEPT !.late = FALSE]
    OBVIOUS
  <2>2. all[p][f] \in [found : BOOLEAN, late : BOOLEAN]
    BY DEF Tagging!Fits, Tagging!Searches
  <2> HIDE DEF at_, all
  <2> QED BY <2>1, <2>2
<1> QED BY <1>3, <1>4 DEF SameItem

SearchOf(fields, of) == Tagging!HitIn(fields, of, Tagging!InTime(fields, of))

\* One search of a text: a timeout may hide a hit, it makes none, and it says so.
LEMMA OneSearch ==
  ASSUME NEW fields, NEW n \in Nat, fields \in [1 .. n -> Tagging!Fields], NEW slow, NEW fast,
         DOMAIN slow = DOMAIN fast,
         \A f \in DOMAIN slow : fast[f].found = slow[f].found /\ fast[f].late = FALSE
  PROVE  /\ ~SearchOf(fields, slow).late => SearchOf(fields, slow).field = SearchOf(fields, fast).field
         /\ SearchOf(fields, slow).field # Null => SearchOf(fields, fast).field # Null
         /\ SearchOf(fields, fast).late = FALSE
         /\ SearchOf(fields, slow).late => Tagging!Late(fields, slow, n)
<1> DEFINE H == Tagging!InTime(fields, slow)
           G == Tagging!InTime(fields, fast)
           a == Tagging!HitIn(fields, slow, H)
           b == Tagging!HitIn(fields, fast, G)
<1>n. Null \notin Tagging!Fields
  BY PureAssumption DEF Tagging!ThemesAssumption
<1>1. /\ H \subseteq G /\ G \in SUBSET (1 .. n) /\ H \in SUBSET Nat /\ G \in SUBSET Nat
      /\ \A i \in G : i \in H \/ (fields[i] \in DOMAIN slow /\ slow[fields[i]].late)
  BY DEF Tagging!InTime
<1>2. \A i \in 1 .. n : fields[i] # Null
  BY <1>n
<1>3. \A m : ~Tagging!Late(fields, fast, m)
  <2> SUFFICES ASSUME NEW m, Tagging!Late(fields, fast, m) PROVE FALSE
    OBVIOUS
  <2> QED BY DEF Tagging!Late
<1>4. \A m \in 1 .. n : Tagging!Late(fields, slow, m) => Tagging!Late(fields, slow, n)
  BY DEF Tagging!Late
<1>5. /\ H = {} => a = [field |-> Null, late |-> Tagging!Late(fields, slow, n)]
      /\ H # {} => a = [field |-> fields[Tagging!Min(H)], late |-> Tagging!Late(fields, slow, Tagging!Min(H))]
      /\ G = {} => b = [field |-> Null, late |-> Tagging!Late(fields, fast, n)]
      /\ G # {} => b = [field |-> fields[Tagging!Min(G)], late |-> Tagging!Late(fields, fast, Tagging!Min(G))]
  <2>1. Len(fields) = n
    OBVIOUS
  <2> QED BY <2>1 DEF Tagging!HitIn
<1>6. /\ H # {} => Tagging!Min(H) \in H /\ \A i \in H : Tagging!Min(H) <= i
      /\ G # {} => Tagging!Min(G) \in G /\ \A i \in G : Tagging!Min(G) <= i
  <2> HIDE DEF H, G
  <2> QED BY <1>1, Earliest
<1> HIDE DEF H, G, a, b
<1>7. ASSUME H # {}, ~Tagging!Late(fields, slow, Tagging!Min(H))
      PROVE  G # {} /\ Tagging!Min(G) = Tagging!Min(H)
  <2>1. G # {} /\ Tagging!Min(G) <= Tagging!Min(H) /\ Tagging!Min(G) \in 1 .. n
    BY <1>1, <1>6, <1>7
  <2>2. Tagging!Min(G) \in H
    BY <1>1, <1>6, <1>7, <2>1 DEF Tagging!Late
  <2>3. Tagging!Min(H) <= Tagging!Min(G) /\ Tagging!Min(H) \in Nat
    BY <1>1, <1>6, <1>7, <2>2
  <2> QED BY <2>1, <2>3
<1>8. ASSUME H = {}, ~Tagging!Late(fields, slow, n)
      PROVE  G = {}
  BY <1>1, <1>8 DEF Tagging!Late
<1>9. /\ a.late <=> IF H = {} THEN Tagging!Late(fields, slow, n) ELSE Tagging!Late(fields, slow, Tagging!Min(H))
      /\ a.field = IF H = {} THEN Null ELSE fields[Tagging!Min(H)]
      /\ ~b.late /\ b.field = IF G = {} THEN Null ELSE fields[Tagging!Min(G)]
  BY <1>3, <1>5
<1>10. b.late = FALSE
  <2>1. \A m : Tagging!Late(fields, fast, m) = FALSE
    BY <1>3
  <2> QED BY <1>5, <2>1
<1>11. ~a.late => a.field = b.field
  BY <1>7, <1>8, <1>9
<1>12. a.field # Null => b.field # Null
  BY <1>1, <1>2, <1>6, <1>9
<1>13. a.late => Tagging!Late(fields, slow, n)
  BY <1>1, <1>4, <1>6, <1>9
<1> QED BY <1>10, <1>11, <1>12, <1>13 DEF a, b, H, G, SearchOf

\* What a timeout can do to one rule's answer.
LEMMA OneRule ==
  ASSUME NEW rules, Tagging!IsTheme(rules), NEW item, Tagging!Fits(rules, item), NEW i \in DOMAIN rules
  PROVE  LET r == rules[i]
             a == Tagging!Hit(r, item)
             b == Tagging!Hit(r, Tagging!Patient(item))
         IN  /\ ~a.late => a.field = b.field
             /\ a.field # Null => b.field # Null
             /\ b.late = FALSE
             /\ a.late => /\ Tagging!InText(r)
                          /\ Tagging!Late(Tagging!Scopes(r), item.search[r.pattern], Len(Tagging!Scopes(r)))
<1> DEFINE r == rules[i]
           a == Tagging!Hit(r, item)
           b == Tagging!Hit(r, Tagging!Patient(item))
<1>p. SameItem(Tagging!Patient(item), item)
  BY PatientItem
<1>1. CASE Tagging!InText(r)
  <2> DEFINE fields == Tagging!Scopes(r)
             slow   == item.search[r.pattern]
             fast   == Tagging!Patient(item).search[r.pattern]
  <2>1. r.pattern \in DOMAIN item.search
    BY <1>1 DEF Tagging!Fits
  <2>2. DOMAIN slow = DOMAIN fast /\ \A f \in DOMAIN slow : fast[f].found = slow[f].found /\ fast[f].late = FALSE
    BY <2>1, <1>p DEF SameItem
  <2>3. Len(fields) \in Nat /\ fields \in [1 .. Len(fields) -> Tagging!Fields]
    <3>1. CASE r.scope = "any"
      BY <3>1 DEF Tagging!Scopes, Tagging!TextScopes, Tagging!Fields
    <3>2. CASE r.scope # "any"
      <4>1. r.scope \in Tagging!Fields
        BY <3>2 DEF Tagging!IsTheme
      <4>2. fields = <<r.scope>>
        BY <3>2 DEF Tagging!Scopes
      <4> QED BY <4>1, <4>2
    <3> QED BY <3>1, <3>2
  <2>4. a = SearchOf(fields, slow) /\ b = SearchOf(fields, fast)
    BY <1>1 DEF Tagging!Hit, Tagging!HitText, Tagging!InText, SearchOf
  <2> DEFINE n == Len(fields)
  <2> HIDE DEF fields, slow, fast, a, b, n
  <2>n. n \in Nat /\ fields \in [1 .. n -> Tagging!Fields]
    BY <2>3 DEF n
  <2>s. /\ ~SearchOf(fields, slow).late => SearchOf(fields, slow).field = SearchOf(fields, fast).field
        /\ SearchOf(fields, slow).field # Null => SearchOf(fields, fast).field # Null
        /\ SearchOf(fields, fast).late = FALSE
        /\ SearchOf(fields, slow).late => Tagging!Late(fields, slow, n)
    BY <2>2, <2>n, OneSearch
  <2>5. /\ ~a.late => a.field = b.field
        /\ a.field # Null => b.field # Null
        /\ b.late = FALSE
        /\ a.late => Tagging!Late(fields, slow, Len(fields))
    BY <2>4, <2>s DEF n
  <2> QED BY <1>1, <2>5 DEF a, b, fields, slow
<1>2. CASE ~Tagging!InText(r)
  <2>1. a = b /\ a.late = FALSE
    BY <1>2, <1>p DEF Tagging!Hit, SameItem
  <2> QED BY <2>1
<1> QED BY <1>1, <1>2

\* The answers of a group's rules, and of the group, under timeouts and without.
SlowAnswers(G, slow, fast) ==
  \A i \in G : /\ ~slow[i].late => slow[i].field = fast[i].field
               /\ slow[i].field # Null => fast[i].field # Null
               /\ fast[i].late = FALSE

GroupAnswers(G, slow, fast, a, b) ==
  /\ ~a.late => a.index = b.index /\ a.field = b.field
  /\ a.index # Null => b.index # Null
  /\ b.late = FALSE
  /\ a.late => \E i \in G : slow[i].late
  /\ a.late \in BOOLEAN
  /\ b.index # Null <=> \E i \in G : fast[i].field # Null
  /\ a.index # Null =>
       /\ a.index \in G /\ a.field = slow[a.index].field /\ a.field # Null
       /\ slow[a.index].late => a.late

\* What a timeout can do to a group's answer.
LEMMA OneGroup ==
  ASSUME NEW G \in SUBSET Nat, NEW slow, NEW fast, SlowAnswers(G, slow, fast)
  PROVE  GroupAnswers(G, slow, fast, Tagging!AnyHit(slow, G), Tagging!AnyHit(fast, G))
<1> DEFINE H == {i \in G : slow[i].field # Null}
           K == {i \in G : fast[i].field # Null}
           a == Tagging!AnyHit(slow, G)
           b == Tagging!AnyHit(fast, G)
<1>n. Null \notin Nat
  BY PureAssumption DEF Tagging!ThemesAssumption
<1>1. /\ H \subseteq K /\ H \in SUBSET Nat /\ K \in SUBSET Nat
      /\ \A i \in K : i \in H \/ slow[i].late
      /\ \A i \in G : i \in H <=> slow[i].field # Null
      /\ \A i \in G : i \in K <=> fast[i].field # Null
      /\ H \subseteq G /\ K \subseteq G
  BY DEF SlowAnswers
<1>2. /\ H = {} => a = [index |-> Null, field |-> Null, late |-> \E i \in G : slow[i].late]
      /\ H # {} => a = [index |-> Tagging!Min(H), field |-> slow[Tagging!Min(H)].field,
                        late |-> \E i \in G : i <= Tagging!Min(H) /\ slow[i].late]
  BY DEF Tagging!AnyHit, Tagging!First
<1>3. /\ K = {} => b = [index |-> Null, field |-> Null, late |-> FALSE]
      /\ K # {} => b = [index |-> Tagging!Min(K), field |-> fast[Tagging!Min(K)].field, late |-> FALSE]
  <2>1. (\E i \in G : fast[i].late) = FALSE
    BY DEF SlowAnswers
  <2>2. (\E i \in G : i <= Tagging!Min(K) /\ fast[i].late) = FALSE
    BY DEF SlowAnswers
  <2>3. /\ K = {} => b = [index |-> Null, field |-> Null, late |-> \E i \in G : fast[i].late]
        /\ K # {} => b = [index |-> Tagging!Min(K), field |-> fast[Tagging!Min(K)].field,
                          late |-> \E i \in G : i <= Tagging!Min(K) /\ fast[i].late]
    BY DEF Tagging!AnyHit, Tagging!First
  <2> HIDE DEF b, K
  <2> QED BY <2>1, <2>2, <2>3, Zenon
<1>4. /\ H # {} => Tagging!Min(H) \in H /\ \A i \in H : Tagging!Min(H) <= i
      /\ K # {} => Tagging!Min(K) \in K /\ \A i \in K : Tagging!Min(K) <= i
  <2> HIDE DEF H, K
  <2> QED BY <1>1, Earliest
<1> HIDE DEF H, K, a, b
<1>5. /\ a.late <=> IF H = {} THEN \E i \in G : slow[i].late ELSE \E i \in G : i <= Tagging!Min(H) /\ slow[i].late
      /\ a.index = IF H = {} THEN Null ELSE Tagging!Min(H)
      /\ a.field = IF H = {} THEN Null ELSE slow[Tagging!Min(H)].field
      /\ b.late = FALSE
      /\ b.index = IF K = {} THEN Null ELSE Tagging!Min(K)
      /\ b.field = IF K = {} THEN Null ELSE fast[Tagging!Min(K)].field
  BY <1>2, <1>3
<1>6. ASSUME ~a.late
      PROVE  a.index = b.index /\ a.field = b.field
  <2>1. CASE H = {}
    <3>1. K = {}
      BY <1>1, <1>5, <1>6, <2>1
    <3> QED BY <1>5, <2>1, <3>1
  <2>2. CASE H # {}
    <3>1. K # {} /\ Tagging!Min(K) <= Tagging!Min(H) /\ Tagging!Min(K) \in K /\ Tagging!Min(H) \in Nat
          /\ Tagging!Min(K) \in Nat
      BY <1>1, <1>4, <2>2
    <3>2. Tagging!Min(K) \in H
      BY <1>1, <1>5, <1>6, <2>2, <3>1
    <3>3. Tagging!Min(H) = Tagging!Min(K)
      BY <1>4, <2>2, <3>1, <3>2
    <3>4. ~slow[Tagging!Min(H)].late /\ Tagging!Min(H) \in G
      BY <1>1, <1>4, <1>5, <1>6, <2>2, <3>1
    <3> QED BY <1>5, <2>2, <3>1, <3>3, <3>4 DEF SlowAnswers
  <2> QED BY <2>1, <2>2
<1>7. /\ a.index # Null => b.index # Null
      /\ b.index # Null <=> \E i \in G : fast[i].field # Null
  BY <1>1, <1>4, <1>5, <1>n
<1>8. a.index # Null =>
        /\ a.index \in G /\ a.field = slow[a.index].field /\ a.field # Null
        /\ slow[a.index].late => a.late
  BY <1>1, <1>4, <1>5
<1>9. a.late => \E i \in G : slow[i].late
  BY <1>5
<1>10. a.late \in BOOLEAN
  <2> DEFINE all == \E i \in G : slow[i].late
             some == \E i \in G : i <= Tagging!Min(H) /\ slow[i].late
  <2>1. all \in BOOLEAN /\ some \in BOOLEAN
    OBVIOUS
  <2>2. /\ H = {} => a = [index |-> Null, field |-> Null, late |-> all]
        /\ H # {} => a = [index |-> Tagging!Min(H), field |-> slow[Tagging!Min(H)].field, late |-> some]
    BY <1>2
  <2> HIDE DEF all, some
  <2> QED BY <2>1, <2>2
<1>11. GroupAnswers(G, slow, fast, a, b)
  BY <1>5, <1>6, <1>7, <1>8, <1>9, <1>10 DEF GroupAnswers
<1> QED BY <1>11 DEF a, b

\* What a group answers under timeouts, against what it would answer.
Hides(a, b) ==
  /\ a.late \in BOOLEAN /\ b.late = FALSE
  /\ ~a.late => a.index = b.index /\ a.field = b.field
  /\ a.index # Null => b.index # Null

\* The ways to a verdict, and what each of them remembers of the timeouts.
VerdictBy(bound, only, hit, not, late, m) ==
  \/ /\ bound /\ only.index = Null /\ (late <=> only.late)
     /\ m = [matched |-> FALSE, rule_index |-> Null, field |-> Null, timed_out |-> late]
  \/ /\ ~(bound /\ only.index = Null) /\ hit.index = Null /\ (late <=> only.late \/ hit.late)
     /\ m = [matched |-> FALSE, rule_index |-> Null, field |-> Null, timed_out |-> late]
  \/ /\ ~(bound /\ only.index = Null) /\ hit.index # Null /\ not.index # Null
     /\ (late <=> only.late \/ hit.late \/ not.late)
     /\ m = [matched |-> FALSE, rule_index |-> Null, field |-> Null, timed_out |-> late]
  \/ /\ ~(bound /\ only.index = Null) /\ hit.index # Null /\ not.index = Null
     /\ (late <=> only.late \/ hit.late \/ not.late)
     /\ m = [matched |-> TRUE, rule_index |-> hit.index, field |-> hit.field, timed_out |-> late]

\* A verdict comes about in one of the four ways.
LEMMA VerdictCases ==
  ASSUME NEW bound \in BOOLEAN, NEW only, NEW hit, NEW not,
         only.late \in BOOLEAN, hit.late \in BOOLEAN, not.late \in BOOLEAN
  PROVE  \E late \in BOOLEAN : VerdictBy(bound, only, hit, not, late, Tagging!Verdict(bound, only, hit, not))
<1> DEFINE two == only.late \/ hit.late
           three == only.late \/ hit.late \/ not.late
           m == Tagging!Verdict(bound, only, hit, not)
<1>1. two \in BOOLEAN /\ three \in BOOLEAN
  OBVIOUS
<1>2. m = IF bound /\ only.index = Null THEN Tagging!No(only.late)
          ELSE IF hit.index = Null THEN Tagging!No(two)
          ELSE IF not.index # Null THEN Tagging!No(three)
          ELSE [matched |-> TRUE, rule_index |-> hit.index, field |-> hit.field, timed_out |-> three]
  BY DEF Tagging!Verdict
<1>3. (two <=> only.late \/ hit.late) /\ (three <=> only.late \/ hit.late \/ not.late)
  OBVIOUS
<1> HIDE DEF m, two, three
<1>4. CASE bound /\ only.index = Null
  <2>1. VerdictBy(bound, only, hit, not, only.late, m)
    BY <1>2, <1>4 DEF VerdictBy, Tagging!No
  <2> QED BY <2>1 DEF m
<1>5. CASE ~(bound /\ only.index = Null) /\ hit.index = Null
  <2>1. VerdictBy(bound, only, hit, not, two, m)
    BY <1>2, <1>3, <1>5 DEF VerdictBy, Tagging!No
  <2> QED BY <1>1, <2>1 DEF m
<1>6. CASE ~(bound /\ only.index = Null) /\ hit.index # Null
  <2>1. VerdictBy(bound, only, hit, not, three, m)
    BY <1>2, <1>3, <1>6 DEF VerdictBy, Tagging!No
  <2> QED BY <1>1, <2>1 DEF m
<1> QED BY <1>4, <1>5, <1>6

\* A verdict that nothing was late for.
LEMMA QuietVerdict ==
  ASSUME NEW bound \in BOOLEAN, NEW only, NEW hit, NEW not, NEW m,
         VerdictBy(bound, only, hit, not, FALSE, m)
  PROVE  m = IF (bound /\ only.index = Null) \/ hit.index = Null \/ not.index # Null
             THEN [matched |-> FALSE, rule_index |-> Null, field |-> Null, timed_out |-> FALSE]
             ELSE [matched |-> TRUE, rule_index |-> hit.index, field |-> hit.field, timed_out |-> FALSE]
<1>1. CASE (bound /\ only.index = Null) \/ hit.index = Null \/ not.index # Null
  BY <1>1 DEF VerdictBy
<1>2. CASE ~((bound /\ only.index = Null) \/ hit.index = Null \/ not.index # Null)
  BY <1>2 DEF VerdictBy
<1> QED BY <1>1, <1>2

\* A verdict that was not late is not changed by saying so.
LEMMA AlreadyQuiet ==
  ASSUME NEW p, p = [x \in DOMAIN p |-> p[x]], p.timed_out = FALSE
  PROVE  p = [p EXCEPT !.timed_out = FALSE]
<1>1. [p EXCEPT !.timed_out = FALSE] = [x \in DOMAIN p |-> IF x = "timed_out" THEN FALSE ELSE p[x]]
  OBVIOUS
<1> QED BY <1>1

\* A verdict m, reached under timeouts, and the patient one p.
Owned(bound, only, hit, not, theOnly, theHit, theNot, m, p) ==
  /\ ~m.timed_out => m = [p EXCEPT !.timed_out = FALSE]
  /\ m.matched <=> (bound => only.index # Null) /\ hit.index # Null /\ not.index = Null
  /\ p.matched <=> (bound => theOnly.index # Null) /\ theHit.index # Null /\ theNot.index = Null
  /\ m.matched \in BOOLEAN /\ p.matched \in BOOLEAN
  /\ m.matched => m.rule_index = hit.index /\ m.field = hit.field /\ (hit.late => m.timed_out)
  /\ ~m.matched => m.field = Null

\* The verdict says that it was late, or is the patient one.
LEMMA VerdictOwned ==
  ASSUME NEW bound \in BOOLEAN, NEW only, NEW hit, NEW not, NEW theOnly, NEW theHit, NEW theNot,
         Hides(only, theOnly), Hides(hit, theHit), Hides(not, theNot),
         NEW m, NEW p, NEW late \in BOOLEAN, NEW lag \in BOOLEAN,
         VerdictBy(bound, only, hit, not, late, m), VerdictBy(bound, theOnly, theHit, theNot, lag, p)
  PROVE  Owned(bound, only, hit, not, theOnly, theHit, theNot, m, p)
<1>1. ~lag
  BY DEF VerdictBy, Hides
<1>2. m.timed_out <=> late
  BY DEF VerdictBy
<1>m. m.matched = TRUE \/ m.matched = FALSE
  BY DEF VerdictBy
<1>p. p.matched = TRUE \/ p.matched = FALSE
  BY DEF VerdictBy
<1>3. /\ m.matched <=> (bound => only.index # Null) /\ hit.index # Null /\ not.index = Null
      /\ p.matched <=> (bound => theOnly.index # Null) /\ theHit.index # Null /\ theNot.index = Null
  BY DEF VerdictBy
<1>4. /\ m.matched => m.rule_index = hit.index /\ m.field = hit.field /\ (hit.late => m.timed_out)
      /\ ~m.matched => m.field = Null
  BY DEF VerdictBy
<1>5. ASSUME ~m.timed_out
      PROVE  m = [p EXCEPT !.timed_out = FALSE]
  <2>1. ~late /\ late = FALSE /\ lag = FALSE
    BY <1>1, <1>2, <1>5
  <2>2. /\ only.late = FALSE
        /\ ~(bound /\ only.index = Null) => hit.late = FALSE
        /\ ~(bound /\ only.index = Null) /\ hit.index # Null => not.late = FALSE
    BY <2>1 DEF VerdictBy, Hides
  <2>3. VerdictBy(bound, only, hit, not, FALSE, m) /\ VerdictBy(bound, theOnly, theHit, theNot, FALSE, p)
    BY <2>1
  <2>4. ((bound /\ only.index = Null) \/ hit.index = Null \/ not.index # Null)
          <=> ((bound /\ theOnly.index = Null) \/ theHit.index = Null \/ theNot.index # Null)
    BY <2>2 DEF Hides
  <2>5. ~((bound /\ only.index = Null) \/ hit.index = Null \/ not.index # Null)
          => theHit.index = hit.index /\ theHit.field = hit.field
    BY <2>2 DEF Hides
  <2>m. m = IF (bound /\ only.index = Null) \/ hit.index = Null \/ not.index # Null
            THEN [matched |-> FALSE, rule_index |-> Null, field |-> Null, timed_out |-> FALSE]
            ELSE [matched |-> TRUE, rule_index |-> hit.index, field |-> hit.field, timed_out |-> FALSE]
    BY <2>3, QuietVerdict
  <2>p. p = IF (bound /\ theOnly.index = Null) \/ theHit.index = Null \/ theNot.index # Null
            THEN [matched |-> FALSE, rule_index |-> Null, field |-> Null, timed_out |-> FALSE]
            ELSE [matched |-> TRUE, rule_index |-> theHit.index, field |-> theHit.field, timed_out |-> FALSE]
    BY <2>3, QuietVerdict
  <2>6. m = p
    <3>1. CASE (bound /\ only.index = Null) \/ hit.index = Null \/ not.index # Null
      <4>1. (bound /\ theOnly.index = Null) \/ theHit.index = Null \/ theNot.index # Null
        BY <2>4, <3>1
      <4> QED BY <2>m, <2>p, <3>1, <4>1
    <3>2. CASE ~((bound /\ only.index = Null) \/ hit.index = Null \/ not.index # Null)
      <4>1. ~((bound /\ theOnly.index = Null) \/ theHit.index = Null \/ theNot.index # Null)
        BY <2>4, <3>2
      <4> QED BY <2>m, <2>p, <2>5, <3>2, <4>1
    <3> QED BY <3>1, <3>2
  <2>7. p = [x \in DOMAIN p |-> p[x]] /\ p.timed_out = FALSE
    BY <2>p
  <2>8. p = [p EXCEPT !.timed_out = FALSE]
    BY <2>7, AlreadyQuiet
  <2> QED BY <2>6, <2>8
<1> QED BY <1>m, <1>p, <1>3, <1>4, <1>5 DEF Owned

\* What is found after the title was not found there, or not in time.
LEMMA TitleFirst ==
  ASSUME NEW of, "title" \in DOMAIN of, SearchOf(Tagging!TextScopes, of).field \in {"body", "comments"}
  PROVE  ~of["title"].found \/ (of["title"].late /\ SearchOf(Tagging!TextScopes, of).late)
<1> DEFINE fields == Tagging!TextScopes
           H == Tagging!InTime(fields, of)
           a == Tagging!HitIn(fields, of, H)
<1>n. Null \notin Tagging!Fields
  BY PureAssumption DEF Tagging!ThemesAssumption
<1>0. fields = <<"title", "body", "comments">> /\ DOMAIN fields = 1 .. 3
  BY DEF Tagging!TextScopes
<1>1. H \in SUBSET (1 .. 3) /\ H \in SUBSET Nat /\ \A i \in 1 .. 3 : i \in H <=> /\ fields[i] \in DOMAIN of
                                                    /\ of[fields[i]].found /\ ~of[fields[i]].late
  BY <1>0 DEF Tagging!InTime
<1>2. /\ H = {} => a.field = Null
      /\ H # {} => a.field = fields[Tagging!Min(H)] /\ (a.late <=> Tagging!Late(fields, of, Tagging!Min(H)))
  BY DEF Tagging!HitIn
<1>3. H # {} => Tagging!Min(H) \in H /\ \A i \in H : Tagging!Min(H) <= i
  <2> HIDE DEF H
  <2> QED BY <1>1, Earliest
<1>4. a.field \in {"body", "comments"} /\ (a.late <=> SearchOf(Tagging!TextScopes, of).late)
  BY DEF SearchOf
<1> HIDE DEF fields, H, a
<1>5. H # {} /\ Tagging!Min(H) \in 2 .. 3
  <2>1. a.field # Null /\ a.field # "title"
    BY <1>4, <1>n DEF Tagging!Fields
  <2>2. H # {}
    BY <1>2, <2>1
  <2>3. Tagging!Min(H) \in 1 .. 3 /\ fields[Tagging!Min(H)] # "title"
    BY <1>1, <1>2, <1>3, <2>1, <2>2
  <2>4. fields[1] = "title"
    BY <1>0
  <2>5. Tagging!Min(H) # 1
    BY <2>3, <2>4
  <2> QED BY <2>2, <2>3, <2>5
<1>6. 1 \notin H
  BY <1>1, <1>3, <1>5
<1>7. of["title"].late => Tagging!Late(fields, of, Tagging!Min(H))
  BY <1>0, <1>5 DEF Tagging!Late
<1> QED BY <1>0, <1>1, <1>2, <1>4, <1>5, <1>6, <1>7

\* What a group of an item's answers is like, searched now and searched patiently.
GroupIs(rules, item, group, a, b) ==
  /\ Hides(a, b)
  /\ a.late => \E i \in Tagging!Group(rules, group) :
                 /\ Tagging!InText(rules[i])
                 /\ Tagging!Late(Tagging!Scopes(rules[i]), item.search[rules[i].pattern],
                                 Len(Tagging!Scopes(rules[i])))
  /\ b.index # Null <=> \E i \in Tagging!Group(rules, group) :
                          Tagging!Answers(rules, Tagging!Patient(item))[i].field # Null
  /\ a.index # Null =>
       /\ a.index \in DOMAIN rules
       /\ a.field = Tagging!Hit(rules[a.index], item).field
       /\ Tagging!Hit(rules[a.index], item).late => a.late

\* Each group of an item's answers is like that.
LEMMA GroupJudged ==
  ASSUME NEW rules, Tagging!IsTheme(rules), NEW item, Tagging!Fits(rules, item), NEW group
  PROVE  GroupIs(rules, item, group,
                 Tagging!AnyHit(Tagging!Answers(rules, item), Tagging!Group(rules, group)),
                 Tagging!AnyHit(Tagging!Answers(rules, Tagging!Patient(item)), Tagging!Group(rules, group)))
<1> DEFINE G == Tagging!Group(rules, group)
           slow == Tagging!Answers(rules, item)
           fast == Tagging!Answers(rules, Tagging!Patient(item))
           a == Tagging!AnyHit(slow, G)
           b == Tagging!AnyHit(fast, G)
<1>1. G \subseteq DOMAIN rules /\ G \in SUBSET Nat
  BY DEF Tagging!IsTheme, Tagging!Group
<1>2. \A i \in DOMAIN rules : /\ slow[i] = Tagging!Hit(rules[i], item)
                              /\ fast[i] = Tagging!Hit(rules[i], Tagging!Patient(item))
  BY DEF Tagging!Answers
<1>3. ASSUME NEW i \in DOMAIN rules
      PROVE  /\ ~slow[i].late => slow[i].field = fast[i].field
             /\ slow[i].field # Null => fast[i].field # Null
             /\ fast[i].late = FALSE
             /\ slow[i].late => /\ Tagging!InText(rules[i])
                                /\ Tagging!Late(Tagging!Scopes(rules[i]), item.search[rules[i].pattern],
                                                Len(Tagging!Scopes(rules[i])))
  <2> DEFINE r == rules[i]
             c == Tagging!Hit(r, item)
             d == Tagging!Hit(r, Tagging!Patient(item))
  <2>1. /\ ~c.late => c.field = d.field
        /\ c.field # Null => d.field # Null
        /\ d.late = FALSE
        /\ c.late => /\ Tagging!InText(r)
                     /\ Tagging!Late(Tagging!Scopes(r), item.search[r.pattern], Len(Tagging!Scopes(r)))
    BY OneRule
  <2>2. slow[i] = c /\ fast[i] = d
    BY <1>2
  <2> HIDE DEF c, d, slow, fast
  <2> QED BY <2>1, <2>2 DEF r
<1> HIDE DEF G, slow, fast
<1>g. SlowAnswers(G, slow, fast)
  BY <1>1, <1>3 DEF SlowAnswers
<1>t. GroupAnswers(G, slow, fast, a, b)
  BY <1>1, <1>g, OneGroup
<1> HIDE DEF a, b
<1>4. /\ ~a.late => a.index = b.index /\ a.field = b.field
      /\ a.index # Null => b.index # Null
      /\ b.late = FALSE
      /\ a.late => \E i \in G : slow[i].late
      /\ a.late \in BOOLEAN
      /\ b.index # Null <=> \E i \in G : fast[i].field # Null
      /\ a.index # Null =>
           /\ a.index \in G /\ a.field = slow[a.index].field /\ a.field # Null
           /\ slow[a.index].late => a.late
  BY <1>t DEF GroupAnswers
<1>5. Hides(a, b)
  BY <1>4 DEF Hides
<1>6. a.late => \E i \in G :
                 /\ Tagging!InText(rules[i])
                 /\ Tagging!Late(Tagging!Scopes(rules[i]), item.search[rules[i].pattern],
                                 Len(Tagging!Scopes(rules[i])))
  BY <1>1, <1>3, <1>4
<1>7. a.index # Null =>
       /\ a.index \in DOMAIN rules
       /\ a.field = Tagging!Hit(rules[a.index], item).field
       /\ Tagging!Hit(rules[a.index], item).late => a.late
  BY <1>1, <1>2, <1>4
<1>8. GroupIs(rules, item, group, a, b)
  BY <1>4, <1>5, <1>6, <1>7 DEF GroupIs, G, fast
<1> QED BY <1>8 DEF a, b, G, slow, fast

\* Whether a rule of a group runs into the timeout.
LateIn(rules, item, group) ==
  \E i \in Tagging!Group(rules, group) :
    /\ Tagging!InText(rules[i])
    /\ Tagging!Late(Tagging!Scopes(rules[i]), item.search[rules[i].pattern], Len(Tagging!Scopes(rules[i])))

\* A later field hides nothing the title would have shown, unless the title was late.
LEMMA FirstField ==
  ASSUME NEW rules, Tagging!IsTheme(rules), NEW item, Tagging!Fits(rules, item), NEW m,
         m.field \in {"body", "comments"} =>
           /\ m.rule_index \in DOMAIN rules
           /\ m.field = Tagging!Hit(rules[m.rule_index], item).field
           /\ Tagging!Hit(rules[m.rule_index], item).late => m.timed_out
  PROVE  Tagging!FirstFieldWins(rules, item, m)
<1> DEFINE r == rules[m.rule_index]
           h == Tagging!Hit(r, item)
           of == item.search[r.pattern]
<1> SUFFICES ASSUME m.field \in {"body", "comments"}, r.scope = "any", "title" \in DOMAIN of
             PROVE  ~of["title"].found \/ (of["title"].late /\ m.timed_out)
  BY DEF Tagging!FirstFieldWins
<1>n. Null \notin Tagging!RuleKinds \cup Tagging!Fields
  BY PureAssumption DEF Tagging!ThemesAssumption
<1>1. m.rule_index \in DOMAIN rules /\ h.field \in {"body", "comments"} /\ (h.late => m.timed_out)
  OBVIOUS
<1>2. Tagging!InText(r)
  <2> SUFFICES ASSUME ~Tagging!InText(r) PROVE FALSE
    OBVIOUS
  <2>1. h.field \in {Null, r.kind}
    BY DEF Tagging!Hit
  <2>2. r.kind \in Tagging!RuleKinds
    BY <1>1 DEF Tagging!IsTheme
  <2> QED BY <1>1, <1>n, <2>1, <2>2 DEF Tagging!RuleKinds, Tagging!Fields
<1>3. h = SearchOf(Tagging!TextScopes, of)
  <2>1. Tagging!Scopes(r) = Tagging!TextScopes
    BY DEF Tagging!Scopes
  <2>2. h = Tagging!HitText(r, of)
    BY <1>2 DEF Tagging!Hit
  <2> HIDE DEF h, r, of
  <2> QED BY <2>1, <2>2 DEF Tagging!HitText, SearchOf
<1> HIDE DEF h, of, r
<1> QED BY <1>1, <1>3, TitleFirst

\* An item's verdict is owned to the timeouts and names the first field that hits.
LEMMA ItemJudged ==
  ASSUME NEW rules, Tagging!IsTheme(rules), NEW item, Tagging!Fits(rules, item)
  PROVE  Tagging!ItemIsJudged(rules, item, Tagging!Answers(rules, item),
                              Tagging!Answers(rules, Tagging!Patient(item)))
<1> DEFINE slow == Tagging!Answers(rules, item)
           fast == Tagging!Answers(rules, Tagging!Patient(item))
           G(group) == Tagging!Group(rules, group)
           bound == G("only_in") # {}
           only == Tagging!AnyHit(slow, G("only_in"))
           hit == Tagging!AnyHit(slow, G("match"))
           not == Tagging!AnyHit(slow, G("exclude"))
           theOnly == Tagging!AnyHit(fast, G("only_in"))
           theHit == Tagging!AnyHit(fast, G("match"))
           theNot == Tagging!AnyHit(fast, G("exclude"))
           m == Tagging!MatchOf(rules, slow)
           p == Tagging!MatchOf(rules, fast)
<1>1. /\ GroupIs(rules, item, "only_in", only, theOnly)
      /\ GroupIs(rules, item, "match", hit, theHit)
      /\ GroupIs(rules, item, "exclude", not, theNot)
  BY GroupJudged
<1>2. /\ m = Tagging!Verdict(bound, only, hit, not)
      /\ p = Tagging!Verdict(bound, theOnly, theHit, theNot)
  BY DEF Tagging!MatchOf
<1>b. bound \in BOOLEAN
  OBVIOUS
<1>3. /\ Tagging!Belongs(rules, fast) <=>
           /\ \E i \in G("match") : fast[i].field # Null
           /\ ~\E i \in G("exclude") : fast[i].field # Null
           /\ bound => \E i \in G("only_in") : fast[i].field # Null
      /\ Tagging!Belongs(rules, fast) \in BOOLEAN
  BY DEF Tagging!Belongs
<1>4. /\ Tagging!TimeoutsAreOwned(rules, item, m, p, Tagging!Belongs(rules, fast)) <=>
           /\ ~m.timed_out => m = [p EXCEPT !.timed_out = FALSE] /\ m.matched = Tagging!Belongs(rules, fast)
           /\ m.matched /\ ~Tagging!Belongs(rules, fast) => LateIn(rules, item, "exclude")
           /\ ~m.matched /\ Tagging!Belongs(rules, fast) =>
                LateIn(rules, item, "match") \/ LateIn(rules, item, "only_in")
  BY DEF Tagging!TimeoutsAreOwned, LateIn
<1>5. /\ theOnly.index # Null <=> \E i \in G("only_in") : fast[i].field # Null
      /\ theHit.index # Null <=> \E i \in G("match") : fast[i].field # Null
      /\ theNot.index # Null <=> \E i \in G("exclude") : fast[i].field # Null
  BY <1>1 DEF GroupIs
<1> DEFINE belongs == Tagging!Belongs(rules, fast)
<1> HIDE DEF only, hit, not, theOnly, theHit, theNot, m, p, bound, belongs
<1>6. belongs <=> (bound => theOnly.index # Null) /\ theHit.index # Null /\ theNot.index = Null
  BY <1>3, <1>5 DEF belongs
<1>7. /\ Hides(only, theOnly) /\ Hides(hit, theHit) /\ Hides(not, theNot)
      /\ only.late => LateIn(rules, item, "only_in")
      /\ hit.late => LateIn(rules, item, "match")
      /\ not.late => LateIn(rules, item, "exclude")
  BY <1>1 DEF GroupIs, LateIn
<1>8. /\ only.late \in BOOLEAN /\ hit.late \in BOOLEAN /\ not.late \in BOOLEAN
      /\ theOnly.late \in BOOLEAN /\ theHit.late \in BOOLEAN /\ theNot.late \in BOOLEAN
  BY <1>7 DEF Hides
<1>9. PICK late \in BOOLEAN : VerdictBy(bound, only, hit, not, late, m)
  BY <1>2, <1>8, <1>b, VerdictCases
<1>10. PICK lag \in BOOLEAN : VerdictBy(bound, theOnly, theHit, theNot, lag, p)
  BY <1>2, <1>8, <1>b, VerdictCases
<1>o. Owned(bound, only, hit, not, theOnly, theHit, theNot, m, p)
  BY <1>7, <1>9, <1>10, <1>b, VerdictOwned
<1>11. /\ ~m.timed_out => m = [p EXCEPT !.timed_out = FALSE]
       /\ m.matched <=> (bound => only.index # Null) /\ hit.index # Null /\ not.index = Null
       /\ p.matched <=> (bound => theOnly.index # Null) /\ theHit.index # Null /\ theNot.index = Null
       /\ m.matched \in BOOLEAN /\ p.matched \in BOOLEAN
       /\ m.matched => m.rule_index = hit.index /\ m.field = hit.field /\ (hit.late => m.timed_out)
       /\ ~m.matched => m.field = Null
  BY <1>o DEF Owned
<1>12. ASSUME ~m.timed_out
       PROVE  m = [p EXCEPT !.timed_out = FALSE] /\ m.matched = belongs
  <2>1. m = [p EXCEPT !.timed_out = FALSE]
    BY <1>11, <1>12
  <2>2. m.matched = p.matched
    BY <2>1
  <2> QED BY <1>3, <1>6, <1>11, <2>1, <2>2 DEF belongs
<1>13. m.matched /\ ~belongs => LateIn(rules, item, "exclude")
  BY <1>6, <1>7, <1>11 DEF Hides
<1>14. ~m.matched /\ belongs => LateIn(rules, item, "match") \/ LateIn(rules, item, "only_in")
  BY <1>6, <1>7, <1>11 DEF Hides
<1>15. Tagging!TimeoutsAreOwned(rules, item, m, p, belongs)
  BY <1>4, <1>12, <1>13, <1>14 DEF belongs
<1>16. Tagging!FirstFieldWins(rules, item, m)
  <2>1. Null \notin {"body", "comments"}
    BY PureAssumption DEF Tagging!ThemesAssumption, Tagging!Fields
  <2>2. m.field \in {"body", "comments"} =>
          /\ m.rule_index \in DOMAIN rules
          /\ m.field = Tagging!Hit(rules[m.rule_index], item).field
          /\ Tagging!Hit(rules[m.rule_index], item).late => m.timed_out
    BY <1>1, <1>11, <2>1 DEF GroupIs
  <2> QED BY <2>2, FirstField
<1> HIDE DEF slow, fast
<1>17. Tagging!ItemIsJudged(rules, item, slow, fast)
  BY <1>15, <1>16 DEF Tagging!ItemIsJudged, m, p, belongs
<1> QED BY <1>17 DEF slow, fast

\* A group hits when one of its rules does.
LEMMA GroupHits ==
  ASSUME NEW G \in SUBSET Nat, NEW of
  PROVE  Tagging!AnyHit(of, G).index # Null <=> \E i \in G : of[i].field # Null
<1> DEFINE H == {i \in G : of[i].field # Null}
           all == \E i \in G : of[i].late
           some == \E i \in G : i <= Tagging!Min(H) /\ of[i].late
           a == Tagging!AnyHit(of, G)
<1>n. Null \notin Nat
  BY PureAssumption DEF Tagging!ThemesAssumption
<1>1. /\ H = {} => a = [index |-> Null, field |-> Null, late |-> all]
      /\ H # {} => a = [index |-> Tagging!Min(H), field |-> of[Tagging!Min(H)].field, late |-> some]
  BY DEF Tagging!AnyHit, Tagging!First
<1>2. H \in SUBSET Nat /\ (H # {} <=> \E i \in G : of[i].field # Null)
  OBVIOUS
<1> HIDE DEF H, all, some, a
<1>3. H # {} => Tagging!Min(H) \in H
  BY <1>2, Earliest
<1>4. a.index # Null <=> H # {}
  <2>1. CASE H = {}
    BY <1>1, <2>1
  <2>2. CASE H # {}
    <3>1. a.index = Tagging!Min(H)
      BY <1>1, <2>2
    <3>2. Tagging!Min(H) \in Nat
      BY <1>2, <1>3, <2>2
    <3> QED BY <1>n, <2>2, <3>1, <3>2
  <2> QED BY <2>1, <2>2
<1> QED BY <1>2, <1>4 DEF a

\* Which verdict lets an item in.
LEMMA Matched ==
  ASSUME NEW bound \in BOOLEAN, NEW only, NEW hit, NEW not
  PROVE  Tagging!Verdict(bound, only, hit, not).matched
           = ((bound => only.index # Null) /\ hit.index # Null /\ not.index = Null)
<1> DEFINE two == only.late \/ hit.late
           three == only.late \/ hit.late \/ not.late
           m == Tagging!Verdict(bound, only, hit, not)
<1>1. m = IF bound /\ only.index = Null THEN Tagging!No(only.late)
          ELSE IF hit.index = Null THEN Tagging!No(two)
          ELSE IF not.index # Null THEN Tagging!No(three)
          ELSE [matched |-> TRUE, rule_index |-> hit.index, field |-> hit.field, timed_out |-> three]
  BY DEF Tagging!Verdict
<1> HIDE DEF m, two, three
<1>2. \A late : Tagging!No(late).matched = FALSE
  BY DEF Tagging!No
<1>3. CASE bound /\ only.index = Null
  <2>1. m.matched = FALSE
    BY <1>1, <1>2, <1>3
  <2> QED BY <1>3, <2>1 DEF m
<1>4. CASE ~(bound /\ only.index = Null) /\ hit.index = Null
  <2>1. m.matched = FALSE
    BY <1>1, <1>2, <1>4
  <2> QED BY <1>4, <2>1 DEF m
<1>5. CASE ~(bound /\ only.index = Null) /\ hit.index # Null /\ not.index # Null
  <2>1. m.matched = FALSE
    BY <1>1, <1>2, <1>5
  <2> QED BY <1>5, <2>1 DEF m
<1>6. CASE ~(bound /\ only.index = Null) /\ hit.index # Null /\ not.index = Null
  <2>1. m.matched = TRUE
    BY <1>1, <1>6
  <2> QED BY <1>6, <2>1 DEF m
<1> QED BY <1>3, <1>4, <1>5, <1>6

\* Whether some rule for a group hits the item.
Strikes(rs, item, group) == \E r \in rs : r.group = group /\ Tagging!Hit(r, item).field # Null

\* Whether an item matches is the set of the rules' matter, not their order's.
LEMMA MatchedBySet ==
  ASSUME NEW T, NEW rules \in Seq(T), NEW item
  PROVE  Tagging!Match(rules, item).matched =
           (/\ (\E r \in Tagging!ToSet(rules) : r.group = "only_in") =>
                 Strikes(Tagging!ToSet(rules), item, "only_in")
            /\ Strikes(Tagging!ToSet(rules), item, "match")
            /\ ~Strikes(Tagging!ToSet(rules), item, "exclude"))
<1> DEFINE of == Tagging!Answers(rules, item)
           G(group) == Tagging!Group(rules, group)
           only == Tagging!AnyHit(of, G("only_in"))
           hit == Tagging!AnyHit(of, G("match"))
           not == Tagging!AnyHit(of, G("exclude"))
           bound == G("only_in") # {}
           S == Tagging!ToSet(rules)
<1>0. \A r : r \in S <=> \E i \in DOMAIN rules : rules[i] = r
  BY DEF Tagging!ToSet
<1>1. \A i \in DOMAIN rules : of[i] = Tagging!Hit(rules[i], item)
  BY DEF Tagging!Answers
<1>2. ASSUME NEW group
      PROVE  /\ Tagging!AnyHit(of, G(group)).index # Null <=> Strikes(S, item, group)
             /\ G(group) # {} <=> \E r \in S : r.group = group
  <2>1. G(group) \in SUBSET Nat /\ \A i : i \in G(group) <=> i \in DOMAIN rules /\ rules[i].group = group
    BY DEF Tagging!Group
  <2>2. Tagging!AnyHit(of, G(group)).index # Null <=> \E i \in G(group) : of[i].field # Null
    BY <2>1, GroupHits
  <2>3. (\E i \in G(group) : of[i].field # Null) <=> Strikes(S, item, group)
    BY <1>0, <1>1, <2>1 DEF Strikes
  <2>4. G(group) # {} <=> \E r \in S : r.group = group
    BY <1>0, <2>1
  <2> QED BY <2>2, <2>3, <2>4
<1>3. /\ only.index # Null <=> Strikes(S, item, "only_in")
      /\ hit.index # Null <=> Strikes(S, item, "match")
      /\ not.index # Null <=> Strikes(S, item, "exclude")
      /\ bound <=> \E r \in S : r.group = "only_in"
  BY <1>2
<1>4. Tagging!Match(rules, item) = Tagging!Verdict(bound, only, hit, not)
  BY DEF Tagging!Match, Tagging!MatchOf
<1>b. bound \in BOOLEAN
  OBVIOUS
<1> HIDE DEF only, hit, not, bound
<1>5. Tagging!Match(rules, item).matched
        = ((bound => only.index # Null) /\ hit.index # Null /\ not.index = Null)
  BY <1>4, <1>b, Matched
<1> QED BY <1>3, <1>5

\* The order and the number of the rules are nothing to compiling and to matching.
LEMMA HashSays ==
  ASSUME NEW T, NEW U, NEW rules \in Seq(T), NEW other \in Seq(U), NEW items
  PROVE  Tagging!HashIsEnough(rules, other, items)
<1> SUFFICES ASSUME Tagging!Hash(rules) = Tagging!Hash(other)
             PROVE  /\ (Tagging!FirstBad(rules) = 0) = (Tagging!FirstBad(other) = 0)
                    /\ \A item \in items : Tagging!Match(rules, item).matched = Tagging!Match(other, item).matched
  BY DEF Tagging!HashIsEnough
<1>1. Tagging!ToSet(rules) = Tagging!ToSet(other)
  <2>1. /\ DOMAIN Tagging!Hash(rules) = Tagging!ToSet(rules)
        /\ DOMAIN Tagging!Hash(other) = Tagging!ToSet(other)
    BY DEF Tagging!Hash
  <2> QED BY <2>1
<1>2. \A r : /\ r \in Tagging!ToSet(rules) <=> \E i \in DOMAIN rules : rules[i] = r
             /\ r \in Tagging!ToSet(other) <=> \E i \in DOMAIN other : other[i] = r
  BY DEF Tagging!ToSet
<1>3. /\ Tagging!FirstBad(rules) = 0 <=> \A i \in DOMAIN rules : ~Tagging!Bad(rules[i])
      /\ Tagging!FirstBad(other) = 0 <=> \A i \in DOMAIN other : ~Tagging!Bad(other[i])
  BY AllCompile
<1>4. (\A i \in DOMAIN rules : ~Tagging!Bad(rules[i])) <=> \A i \in DOMAIN other : ~Tagging!Bad(other[i])
  BY <1>1, <1>2
<1>5. ASSUME NEW item \in items
      PROVE  Tagging!Match(rules, item).matched = Tagging!Match(other, item).matched
  <2> DEFINE S == Tagging!ToSet(rules)
             in == (/\ (\E r \in S : r.group = "only_in") => Strikes(S, item, "only_in")
                    /\ Strikes(S, item, "match") /\ ~Strikes(S, item, "exclude"))
  <2>1. Tagging!Match(rules, item).matched = in
    BY MatchedBySet
  <2>2. Tagging!Match(other, item).matched = in
    BY <1>1, MatchedBySet
  <2> QED BY <2>1, <2>2
<1> QED BY <1>3, <1>4, <1>5

\* The rules in another order, or one of them in another group, are rules again.
LEMMA NeighbourIsSeq ==
  ASSUME NEW T, NEW rules \in Seq(T), NEW other \in Tagging!Neighbours(rules)
  PROVE  \E U : other \in Seq(U)
<1>1. ASSUME NEW i \in 1 .. Len(rules) - 1, other = [rules EXCEPT ![i] = rules[i + 1], ![i + 1] = rules[i]]
      PROVE  other \in Seq(T)
  <2>1. i \in 1 .. Len(rules) /\ i + 1 \in 1 .. Len(rules)
    OBVIOUS
  <2>2. rules[i] \in T /\ rules[i + 1] \in T
    BY <2>1
  <2> QED BY <1>1, <2>2
<1>2. ASSUME NEW i \in DOMAIN rules, NEW g, other = [rules EXCEPT ![i].group = g]
      PROVE  \E U : other \in Seq(U)
  <2> DEFINE r == [rules[i] EXCEPT !.group = g]
             U == T \cup {r}
  <2>1. other = [rules EXCEPT ![i] = r]
    BY <1>2
  <2>2. r \in U /\ rules \in Seq(U)
    OBVIOUS
  <2> HIDE DEF r, U
  <2>3. other \in Seq(U)
    BY <2>1, <2>2
  <2> QED BY <2>3
<1> QED BY <1>1, <1>2 DEF Tagging!Neighbours

\* A theme holds the items its rules say: it answers what a patient search would, or says
\* that it was late, and two themes of one hash answer alike.
THEOREM ThemeJudged ==
  ASSUME NEW rules, Tagging!IsTheme(rules), NEW items, \A item \in items : Tagging!Fits(rules, item)
  PROVE  Tagging!ThemeIsItsRules(rules, items)
<1>1. \A item \in items : Tagging!ItemIsJudged(rules, item, Tagging!Answers(rules, item),
                                               Tagging!Answers(rules, Tagging!Patient(item)))
  BY ItemJudged
<1>2. ASSUME NEW other \in Tagging!Neighbours(rules)
      PROVE  Tagging!HashIsEnough(rules, other, items)
  <2>1. rules \in Seq(Tagging!ToSet(rules))
    BY DEF Tagging!IsTheme
  <2>2. PICK U : other \in Seq(U)
    BY <2>1, NeighbourIsSeq
  <2> QED BY <2>1, <2>2, HashSays
<1> QED BY <1>1, <1>2 DEF Tagging!ThemeIsItsRules

-----------------------------------------------------------------------------
(* Together.                                                               *)

\* Whatever fails on the wire, and whatever shape an item comes in, is read as what it is.
THEOREM FailuresKept == PureSpec => []FailuresAreRead
<1>1. PureInit => FailuresAreRead
  <2> SUFFICES ASSUME PureInit PROVE FailuresAreRead
    OBVIOUS
  <2>1. topic = "wire" => Failing!NothingMisread(input)
    BY WireRead DEF PureInit, Inputs
  <2>2. topic = "shape" => RowsAreClean(input)
    BY ShapesClean DEF PureInit, Inputs
  <2> QED BY <2>1, <2>2 DEF FailuresAreRead
<1>2. FailuresAreRead /\ [UNCHANGED pureVars]_pureVars => FailuresAreRead'
  BY DEF FailuresAreRead, pureVars
<1> QED BY <1>1, <1>2, PTL DEF PureSpec

\* Whatever a process is launched with, and whatever two run rows record, its settings take effect
\* and the digest tells which changed.
THEOREM SettingsKept == PureSpec => []SettingsTakeEffect
<1>a. /\ \A launch \in Launches : Options!IsProcess(launch)
      /\ Budgets \subseteq Int /\ Counts \subseteq Nat
      /\ \A pair \in SettingsPairs :
           /\ pair.previous # Null => Telling!IsSettingsRow(pair.previous)
           /\ Telling!IsSettingsRow(pair.current)
  BY PureAssumption
<1>1. PureInit => SettingsTakeEffect
  <2> SUFFICES ASSUME PureInit PROVE SettingsTakeEffect
    OBVIOUS
  <2>1. topic = "process" => \A n \in Budgets : Options!SettingsAreMeant(input, n)
    BY <1>a, SettingsMeant DEF PureInit, Inputs
  <2>2. topic = "settings" => \A n \in Counts : Telling!SettingsAreTold(input.previous, input.current, n)
    <3> SUFFICES ASSUME topic = "settings", NEW n \in Counts
                 PROVE  Telling!SettingsAreTold(input.previous, input.current, n)
      OBVIOUS
    <3>1. input \in SettingsPairs
      BY DEF PureInit, Inputs
    <3> QED BY <1>a, <3>1, SettingsTold
  <2> QED BY <2>1, <2>2 DEF SettingsTakeEffect
<1>2. SettingsTakeEffect /\ [UNCHANGED pureVars]_pureVars => SettingsTakeEffect'
  BY DEF SettingsTakeEffect, pureVars
<1> QED BY <1>1, <1>2, PTL DEF PureSpec

\* Whatever rules, posts and run rows the reports are made from, they say what those hold.
THEOREM ReportsKept == PureSpec => []ReportsAreRight
<1>a. /\ \A rules \in RuleLists : Tagging!IsTheme(rules)
      /\ \A item \in Candidates : \A rules \in RuleLists : Tagging!Fits(rules, item)
      /\ \A listed \in PostLists : Telling!ArePosts(listed)
      /\ \A row \in RunRows : Telling!IsRunRow(row)
  BY PureAssumption
<1>1. PureInit => ReportsAreRight
  <2> SUFFICES ASSUME PureInit PROVE ReportsAreRight
    OBVIOUS
  <2>1. topic = "theme" => Tagging!ThemeIsItsRules(input, Candidates)
    BY <1>a, ThemeJudged DEF PureInit, Inputs
  <2>2. topic = "section" => Telling!SectionIsTheRows(input)
    BY <1>a, SectionsFaithful DEF PureInit, Inputs
  <2>3. topic = "row" => Telling!NothingUnsaid(input)
    BY <1>a, RowsTold DEF PureInit, Inputs
  <2> QED BY <2>1, <2>2, <2>3 DEF ReportsAreRight
<1>2. ReportsAreRight /\ [UNCHANGED pureVars]_pureVars => ReportsAreRight'
  BY DEF ReportsAreRight, pureVars
<1> QED BY <1>1, <1>2, PTL DEF PureSpec
=============================================================================
