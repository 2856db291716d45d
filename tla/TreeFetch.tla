----------------------------- MODULE TreeFetch -----------------------------
(***************************************************************************)
(* One fetch of one comment tree (PrawGateway.fetch_tree and _TreeBuilder) *)
(* against a Reddit that answers as the repository's fake does: it hides   *)
(* comments behind stubs, serves a bounded chunk per request, ends deep    *)
(* threads in a link to themselves, delivers comments twice or before what *)
(* they reply to, and loses some while the fetch is under way, not always  *)
(* with the replies to them.                                               *)
(***************************************************************************)
EXTENDS SequencesExt, FiniteSetsExt, Integers

CONSTANTS
  Comments,    \* 1 .. n, in depth-first order
  ReplyTo,     \* the comment replied to, 0 for the post
  Deep,        \* the comments whose replies Reddit serves as a thread of their own
  Chunk,       \* MORE_CHUNK
  MoreLimits,  \* the limits a caller may set on expansions
  MaxLost      \* bound: comments lost while the fetch is under way

ASSUME TreeFetchAssumption ==
  /\ IsFiniteSet(Comments) /\ Comments \subseteq Nat \ {0}
  /\ ReplyTo \in [Comments -> Comments \cup {0}] /\ \A c \in Comments : ReplyTo[c] < c
  /\ Deep \subseteq Comments /\ Chunk \in Nat \ {0}
  /\ MoreLimits \subseteq Nat /\ MaxLost \in Nat

VARIABLES
  byParent, pending, names,  \* _TreeBuilder: the index, the stubs in queue order, seen
  expansions,                \* requests after the first
  limit,                     \* more_limit
  honest,                    \* whether Reddit's counts are those of the whole subtrees
  gone,                      \* history: comments Reddit lost before they were asked for
  phase,                     \* "base", "expand", "order"
  stack, ordered             \* ordered: the comments to visit, the last one next; its out

treeVars == <<byParent, pending, names, expansions, limit, honest, gone, phase, stack, ordered>>
walkVars == <<stack, ordered>>

TreeInit ==
  /\ byParent = [p \in Comments \cup {0} |-> <<>>] /\ pending = <<>> /\ names = {}
  /\ expansions = 0 /\ limit \in MoreLimits /\ honest \in BOOLEAN /\ gone = {} /\ phase = "base"
  /\ stack = <<>> /\ ordered = <<>>

-----------------------------------------------------------------------------
(* Reddit's side.                                                           *)

\* A comment and all it replies to, and all that replies to it.
Above[c \in Comments] == {c} \cup (IF ReplyTo[c] = 0 THEN {} ELSE Above[ReplyTo[c]])
Subtree(c) == {d \in Comments : c \in Above[d]}

Behind(set) == {d \in Comments : Above[d] \cap set # {}}
Replies(p) == {c \in Comments : ReplyTo[c] = p} \ gone

\* Depth-first, which is the order of the numbers.
InOrder(set) ==
  [i \in 1 .. Cardinality(set) |-> CHOOSE c \in set : Cardinality({d \in set : d < c}) = i - 1]

\* The stub for the replies of p that an answer leaves out.  Its count is Reddit's own: of
\* the whole subtrees, or a stale one, below the number of ids it lists.
Stub(p, left) ==
  IF p \in Deep THEN [parent |-> p, count |-> 0, kids |-> <<>>]
  ELSE [parent |-> p, count |-> IF honest THEN Cardinality(Behind(left)) ELSE 1,
        kids |-> InOrder(left)]

\* An answer shows some comments and stubs for what it leaves out below `parents`.
Answer(shown, parents) ==
  LET folded == InOrder({p \in parents : Replies(p) \ shown # {}})
  IN  [things |-> shown,
       stubs  |-> [i \in DOMAIN folded |-> Stub(folded[i], Replies(folded[i]) \ shown)]]

\* Whole from the top: whatever is shown has its parent shown.
Rooted(set, roots) == \A c \in set : ReplyTo[c] \in set \cup roots

-----------------------------------------------------------------------------
(* _TreeBuilder.                                                            *)

\* Slip: a comment Reddit delivers twice is indexed twice.
Fresh_Every(c) == TRUE

\* The first copy of each name is kept.
Fresh(c) == c \notin names

\* add, for every thing of an answer; its stubs are queued (_queue).
Absorb(things) ==
  /\ byParent' = [p \in DOMAIN byParent |->
                    byParent[p] \o InOrder({c \in things : Fresh(c) /\ ReplyTo[c] = p})]
  /\ names' = names \cup things

\* The largest count first, the earliest queued on ties.
Largest ==
  CHOOSE i \in DOMAIN pending :
    \A j \in DOMAIN pending :
      \/ pending[i].count > pending[j].count
      \/ pending[i].count = pending[j].count /\ i <= j

\* Slip: each part of a split claims as many comments as it lists.
Remainder_Relabelled(stub) ==
  IF Len(stub.kids) <= Chunk THEN <<>>
  ELSE LET tail == SubSeq(stub.kids, Chunk + 1, Len(stub.kids))
       IN  <<[stub EXCEPT !.kids = tail, !.count = Len(tail)]>>

\* take_next, the part of a split stub that is queued again: what the whole claimed beyond
\* one comment per id of the part that is fetched, and at least one per id of its own.
Remainder(stub) ==
  IF Len(stub.kids) <= Chunk THEN <<>>
  ELSE LET tail == SubSeq(stub.kids, Chunk + 1, Len(stub.kids))
       IN  <<[stub EXCEPT !.kids = tail, !.count = Max({stub.count - Chunk, Len(tail)})]>>

Asked(stub) == ToSet(SubSeq(stub.kids, 1, Min({Chunk, Len(stub.kids)})))

-----------------------------------------------------------------------------
(* fetch_tree.                                                              *)

\* The first request: some of the tree, from the top.
Base ==
  /\ phase = "base" /\ phase' = "expand"
  /\ \E shown \in SUBSET Comments :
       /\ Rooted(shown, {0})
       /\ LET answer == Answer(shown, shown \cup {0})
          IN  Absorb(answer.things) /\ pending' = answer.stubs
  /\ UNCHANGED <<walkVars, expansions, limit, honest, gone>>

\* morechildren, for a stub's ids: those Reddit still has, some of what is below them,
\* below a lost one too, and perhaps a comment delivered before.
Expand ==
  /\ phase = "expand" /\ expansions < limit /\ pending # <<>>
  /\ LET stub == pending[Largest]
         rest == RemoveAt(pending, Largest) \o Remainder(stub)
     IN  /\ stub.kids # <<>>
         /\ \E lost \in SUBSET (Behind(Asked(stub)) \ names) :
              /\ Cardinality(lost \cup gone) <= MaxLost
              /\ gone' = gone \cup lost
              /\ \E below \in SUBSET (Behind(Asked(stub)) \ gone') :
                   LET shown == (Asked(stub) \ gone') \cup below
                   IN  \E again \in {{}} \cup {{c} : c \in names \ shown} :
                         LET answer == Answer(shown, shown \ names)
                         IN  /\ Absorb(answer.things \cup again)
                             /\ pending' = rest \o answer.stubs
  /\ expansions' = expansions + 1
  /\ UNCHANGED <<walkVars, limit, honest, phase>>

\* A thread of its own: the comment it hangs from comes again, with its replies.
Continue ==
  /\ phase = "expand" /\ expansions < limit /\ pending # <<>>
  /\ LET stub == pending[Largest]
         top  == stub.parent
     IN  /\ stub.kids = <<>>
         /\ \E below \in SUBSET (Subtree(top) \ gone) :
              LET shown == {top} \cup Replies(top) \cup below
              IN  /\ Rooted(below \ {top}, {top} \cup Replies(top))
                  /\ LET answer == Answer(shown, shown \ {top})
                     IN  /\ Absorb(answer.things)
                         /\ pending' = RemoveAt(pending, Largest) \o answer.stubs
  /\ expansions' = expansions + 1
  /\ UNCHANGED <<walkVars, limit, honest, gone, phase>>

\* Slip: the replies are visited at their parent's depth.
Pushed_Flat(p, depth) ==
  Reverse([i \in DOMAIN byParent[p] |-> [id |-> byParent[p][i], depth |-> Max({0, depth - 1})]])

\* The replies to p go on the stack, the first of them on top.
Pushed(p, depth) ==
  Reverse([i \in DOMAIN byParent[p] |-> [id |-> byParent[p][i], depth |-> depth]])

\* No stub is left, or none may be opened: ordered begins.
Done ==
  /\ phase = "expand" /\ (expansions = limit \/ pending = <<>>)
  /\ phase' = "order" /\ stack' = Pushed(0, 0)
  /\ UNCHANGED <<byParent, pending, names, expansions, limit, honest, gone, ordered>>

\* One turn of its loop: the comment on top is stamped with its depth.
Visit ==
  /\ phase = "order" /\ stack # <<>>
  /\ LET top == Last(stack)
     IN  /\ ordered' = Append(ordered, top)
         /\ stack' = Front(stack) \o Pushed(top.id, top.depth + 1)
  /\ UNCHANGED <<byParent, pending, names, expansions, limit, honest, gone, phase>>

TreeNext == Base \/ Expand \/ Continue \/ Done \/ Visit
TreeSpec == TreeInit /\ [][TreeNext]_treeVars

-----------------------------------------------------------------------------
(* Properties.                                                              *)

Returned == phase = "order" /\ stack = <<>>
Captured == {ordered[i].id : i \in DOMAIN ordered}
Complete == pending = <<>>

Depth[c \in Comments] == IF ReplyTo[c] = 0 THEN 0 ELSE 1 + Depth[ReplyTo[c]]

\* Behind the stubs still pending.
StillHidden ==
  UNION {IF pending[i].kids = <<>> THEN Subtree(pending[i].parent)
         ELSE Behind(ToSet(pending[i].kids)) : i \in DOMAIN pending}

\* What fetch_tree returns: each comment once, with its true depth, after its parent; every
\* comment that does not hang from one Reddit lost is returned or lies behind a stub that is
\* reported, and is returned if the result claims to be complete; and the fetch paid no more
\* than it was allowed.  What hangs from a lost comment is dropped without a word, though it
\* arrived and the result is complete.
ResultIsWhole ==
  Returned =>
    /\ Len(ordered) = Cardinality(Captured)
    /\ \A i \in DOMAIN ordered :
         /\ ordered[i].depth = Depth[ordered[i].id]
         /\ ReplyTo[ordered[i].id] # 0 =>
              \E j \in 1 .. i - 1 : ordered[j].id = ReplyTo[ordered[i].id]
    /\ Comments \ (Captured \cup Behind(gone)) \subseteq StillHidden
    /\ Complete => Comments \ Behind(gone) \subseteq Captured
    /\ expansions <= limit

\* The reader is told of at least as many uncaptured replies as there are, when Reddit's
\* own counts are true and no thread without a count is pending: a split loses none.
HiddenAreCounted ==
  Returned /\ honest /\ (\A i \in DOMAIN pending : pending[i].count > 0) =>
    Cardinality(Comments \ (Captured \cup Behind(gone)))
      <= FoldSeq(LAMBDA m, n : m + n, 0, [i \in DOMAIN pending |-> pending[i].count])

\* Together: a fetched comment tree hides nothing but what hangs from a lost comment.
NothingSlipsAway == ResultIsWhole /\ HiddenAreCounted
=============================================================================
