----------------------------- MODULE TreesProofs -----------------------------
(***************************************************************************)
(* Of the comment stage, for any posts, threads, stubs, ladder and budget, *)
(* and any number of runs, faults and kills: the counter of new comments   *)
(* is the growth of the table, every reply finds its parent, no author's   *)
(* count lags, a stage that ends quietly has dealt with every post that    *)
(* was due or stepped over an empty one, and no comment of a tree that was *)
(* read is lost: those behind the stubs left are counted once.             *)
(***************************************************************************)
EXTENDS Trees, FiniteSetTheorems, WellFoundedInduction, TLAPS

\* What the steps need to know of the shape of the state.
Shape ==
  /\ stored \subseteq Comments /\ known \subseteq Posts
  /\ queue \subseteq known /\ due \subseteq known /\ stepped \subseteq known
  /\ hand.got \subseteq Comments
  /\ phase \in {"idle", "stage", "write", "done"}
  /\ used = requests /\ used \in Nat
  /\ newCount \in Nat /\ baseline \in Nat
  /\ warned \in BOOLEAN /\ verdict \in BOOLEAN
  /\ counts \in [Authors -> Nat \cup {Null}]
  /\ DOMAIN post = Posts /\ \A p \in Posts : "num" \in DOMAIN post[p]

\* The tree in hand is the tree of the post at the head of the queue.
HandIsOfPost ==
  phase = "write" => \A p \in Posts : Writing(p) => \A c \in hand.got : PostOf[c] = p

\* A comment that is not stored points nowhere yet.
UnstoredPointNowhere == \A c \in Comments \ stored : parentPk[c] = Null

\* The posts that were due and are not in the queue are older than those that are, and than
\* one of the empty posts stepped over, if there is one.
Older == \A q \in queue, r \in due \ queue : r < q
PastEmpty == \E p \in stepped : \A r \in due \ queue : r < p

\* A stage without a warning has dealt with what left the queue; a queue that is not all
\* that is due is longer than the budget, or an empty post was in it.
Quiet ==
  ~warned /\ ~verdict =>
    /\ phase \in {"stage", "write"} => queue \subseteq due /\ Older
    /\ phase = "stage" => due = queue \/ Cardinality(queue) > Spendable(used) \/ PastEmpty
    /\ phase = "write" => due = queue \/ Cardinality(queue) > Spendable(used) + 1 \/ PastEmpty
    /\ phase = "done" => due = {} \/ \E p \in stepped : \A q \in due : q < p

IInv == Shape /\ HandIsOfPost /\ UnstoredPointNowhere /\ ParentsAreLinked /\ CountsNeverLag
        /\ NewIsDelta /\ Quiet

-----------------------------------------------------------------------------
(* The queue and the budget.                                                *)

\* A head of the newest posts that is not all of them is longer than its bound: the oldest
\* of those left out has more than the bound before it, and all of them are in.
LEMMA HeadIsLong ==
  ASSUME NEW D, IsFiniteSet(D), D \subseteq Nat, NEW n \in Nat,
         NEW Q, Q = {p \in D : Cardinality({q \in D : q > p}) <= n}
  PROVE  Q \subseteq D /\ (Q = D \/ Cardinality(Q) > n)
<1> DEFINE After(p) == {q \in D : q > p}
           Left == {After(p) : p \in D \ Q}
<1>1. Q \subseteq D
  OBVIOUS
<1>2. ASSUME Q # D PROVE Cardinality(Q) > n
  <2>1. Left # {} /\ Left \subseteq FiniteSubsetsOf(D)
    <3>1. \A p : After(p) \in SUBSET D /\ IsFiniteSet(After(p))
      BY FS_Subset
    <3> QED BY <1>1, <1>2, <3>1 DEF FiniteSubsetsOf
  <2>2. IsWellFoundedOn(StrictSubsetOrdering(D), FiniteSubsetsOf(D))
    BY FS_StrictSubsetOrderingWellFounded
  <2>3. PICK X \in Left : \A Y \in Left : <<Y, X>> \notin StrictSubsetOrdering(D)
    BY <2>1, <2>2, WFMin
  <2>4. PICK p \in D \ Q : X = After(p)
    BY <2>3
  <2>5. ASSUME NEW q \in After(p) PROVE q \in Q
    <3>1. q \in D /\ q > p /\ p \in Nat /\ q \in Nat
      BY <2>4, <2>5
    <3>a. \A r \in D : r > q => r > p
      BY <3>1
    <3>b. ~(q > q)
      BY <3>1
    <3>2. After(q) \subseteq After(p) /\ q \notin After(q)
      BY <3>a, <3>b
    <3>3. <<After(q), After(p)>> \in StrictSubsetOrdering(D)
      BY <2>5, <3>2 DEF StrictSubsetOrdering
    <3>4. After(q) \notin Left
      BY <2>3, <2>4, <3>3
    <3> QED BY <3>1, <3>4
  <2>6. IsFiniteSet(Q) /\ After(p) \in SUBSET Q
    BY <1>1, <2>5, FS_Subset
  <2>7. IsFiniteSet(After(p)) /\ Cardinality(After(p)) <= Cardinality(Q)
    BY <2>6, FS_Subset
  <2>8. ~(Cardinality(After(p)) <= n)
    BY <2>4
  <2>9. Cardinality(After(p)) \in Nat /\ Cardinality(Q) \in Nat
    BY <2>6, <2>7, FS_CardinalityType
  <2> QED BY <2>7, <2>8, <2>9
<1> QED BY <1>1, <1>2

\* And what is left out is older than what is in.
LEMMA HeadIsNewer ==
  ASSUME NEW D, IsFiniteSet(D), D \subseteq Nat, NEW n \in Nat,
         NEW q \in D, Cardinality({x \in D : x > q}) <= n,
         NEW r \in D, ~(Cardinality({x \in D : x > r}) <= n)
  PROVE  r < q
<1> DEFINE After(p) == {x \in D : x > p}
<1>1. q \in Nat /\ r \in Nat /\ Cardinality(After(q)) <= n /\ ~(Cardinality(After(r)) <= n)
  OBVIOUS
<1>2. IsFiniteSet(After(q)) /\ IsFiniteSet(After(r))
  BY FS_Subset
<1>3. ASSUME r > q PROVE FALSE
  <2>1. \A x \in D : x > r => x > q
    BY <1>1, <1>3
  <2>2. After(r) \subseteq After(q)
    BY <2>1
  <2> HIDE DEF After
  <2>3. Cardinality(After(r)) <= Cardinality(After(q))
    BY <1>2, <2>2, FS_Subset
  <2>4. Cardinality(After(r)) \in Nat /\ Cardinality(After(q)) \in Nat
    BY <1>2, FS_CardinalityType
  <2> QED BY <1>1, <2>3, <2>4
<1>4. r # q
  OBVIOUS
<1> QED BY <1>1, <1>3, <1>4

\* What may be spent is a number.
LEMMA SpendableIsNat ==
  ASSUME NEW u \in Nat
  PROVE  Planned \in Int /\ Spendable(u) \in Nat
         /\ Spendable(u) = IF Planned - u >= 0 THEN Planned - u ELSE 0
<1>1. Limit \in Int /\ Reserve \in Int
  BY BudgetAssumption DEF Limit, Reserve, Least, Most
<1> QED BY <1>1 DEF Planned, Spendable, Most

\* A request that was afforded leaves one less for the others.
LEMMA SpendingTellsOn ==
  ASSUME NEW u \in Nat, NEW v \in Nat, CanAfford(u, 1), v >= u + 1
  PROVE  Spendable(v) + 1 <= Spendable(u)
<1>1. Planned \in Int /\ u + 1 <= Planned
  BY SpendableIsNat DEF CanAfford
<1> QED BY <1>1, SpendableIsNat

\* Any set of comments or of posts is finite.
LEMMA Finite ==
  /\ \A S \in SUBSET Comments : IsFiniteSet(S) /\ Cardinality(S) \in Nat
  /\ \A S \in SUBSET Posts : IsFiniteSet(S) /\ Cardinality(S) \in Nat
<1>1. IsFiniteSet(Comments) /\ IsFiniteSet(Posts)
  BY TreesAssumption
<1> QED BY <1>1, FS_Subset, FS_CardinalityType

\* The ladder leaves num_comments alone.
LEMMA NumStays ==
  ASSUME NEW p \in Posts, "num" \in DOMAIN post[p]
  PROVE  /\ Climbed(p).num = post[p].num /\ DOMAIN Climbed(p) = DOMAIN post[p]
         /\ Skipped(p).num = post[p].num /\ DOMAIN Skipped(p) = DOMAIN post[p]
<1>1. Climbed(p).num = post[p].num /\ DOMAIN Climbed(p) = DOMAIN post[p]
  BY DEF Climbed
<1>2. Skipped(p).num = Climbed(p).num /\ DOMAIN Skipped(p) = DOMAIN Climbed(p)
  BY <1>1 DEF Skipped
<1> QED BY <1>1, <1>2

-----------------------------------------------------------------------------
(* The invariant, step by step.                                             *)

\* An empty database, and no run.
LEMMA Begins == Init => IInv
<1> SUFFICES ASSUME Init PROVE IInv
  OBVIOUS
<1>1. Shape
  BY DEF Init, Shape, NoTree, NewPost
<1>2. HandIsOfPost /\ UnstoredPointNowhere /\ ParentsAreLinked /\ NewIsDelta /\ Quiet
  BY DEF Init, HandIsOfPost, UnstoredPointNowhere, ParentsAreLinked, NewIsDelta, Quiet
<1>3. CountsNeverLag
  <2>1. ASSUME NEW a \in Authors
        PROVE  {c \in stored : author[c] = a} = {} /\ counts[a] = Null
    BY DEF Init
  <2> QED BY <2>1, FS_EmptySet DEF CountsNeverLag
<1> QED BY <1>1, <1>2, <1>3 DEF IInv

\* The columns and counters that a step leaves alone keep what is said of them alone.
LEMMA TablesStand ==
  ASSUME IInv, UNCHANGED <<stored, author, parentPk, counts>>
  PROVE  UnstoredPointNowhere' /\ ParentsAreLinked' /\ CountsNeverLag'
BY DEF IInv, UnstoredPointNowhere, ParentsAreLinked, CountsNeverLag

\* A run begins: what is left out of the queue is more than the budget pays for.
LEMMA BeginKeeps ==
  ASSUME IInv, NEW swept \in SUBSET Posts, StartStage(swept) PROVE IInv'
<1> USE DEF IInv, Shape
<1>0. MaxSwept \in Nat
  BY TreesAssumption
<1>1. /\ used' = requests' /\ used' \in 0 .. MaxSwept /\ known' = known \cup swept
      /\ due' = {p \in known' : post'[p].next <= day} /\ queue' = QueueOf(due')
      /\ phase' = "stage" /\ warned' = FALSE /\ verdict' = FALSE /\ newCount' = 0
      /\ baseline' = Cardinality(stored) /\ stepped' = {}
      /\ UNCHANGED <<stored, author, parentPk, counts, hand>>
  BY DEF StartStage
<1>2. PICK u \in Nat : u = used'
  BY <1>0, <1>1
<1>3. PICK D : D = due'
  OBVIOUS
<1>4. D \in SUBSET Posts /\ IsFiniteSet(D) /\ D \subseteq Nat /\ D \subseteq known'
  BY <1>1, <1>3, Finite, TreesAssumption
<1>5. PICK n \in Nat : n = Spendable(u)
  BY SpendableIsNat
<1>6. queue' = {p \in D : Cardinality({q \in D : q > p}) <= n}
  BY <1>1, <1>2, <1>3, <1>5 DEF QueueOf
<1>7. PICK Q : Q = {p \in D : Cardinality({q \in D : q > p}) <= n}
  OBVIOUS
<1>8. Q \subseteq D /\ (Q = D \/ Cardinality(Q) > n)
  <2> HIDE DEF IInv, Shape
  <2>1. IsFiniteSet(D) /\ D \subseteq Nat
    BY <1>4
  <2> QED BY <1>7, <2>1, HeadIsLong
<1>o. \A q \in Q, r \in D \ Q : r < q
  BY <1>4, <1>7, HeadIsNewer
<1>9. DOMAIN post' = Posts /\ \A p \in Posts : "num" \in DOMAIN post'[p]
  <2>1. post' = [p \in Posts |->
               IF p \notin swept THEN post[p]
               ELSE [post[p] EXCEPT !.num = Cardinality(Visible(p)),
                                    !.next = IF p \in known THEN @ ELSE NextCheck(p, 0)]]
    BY DEF StartStage
  <2> QED BY <2>1
<1>10. Shape'
  BY <1>1, <1>2, <1>3, <1>4, <1>6, <1>7, <1>8, <1>9, Finite
<1>11. Quiet'
  BY <1>1, <1>2, <1>3, <1>5, <1>6, <1>7, <1>8, <1>o DEF Quiet, Older, Spendable, Planned
<1>12. HandIsOfPost' /\ NewIsDelta'
  BY <1>1, Finite DEF HandIsOfPost, NewIsDelta
<1> QED BY <1>1, <1>10, <1>11, <1>12, TablesStand

\* A stage that stops at a bound says so.
LEMMA StopKeeps ==
  ASSUME IInv, phase = "stage", Stop PROVE IInv'
<1>1. /\ phase' = "done" /\ warned' = TRUE
      /\ UNCHANGED <<stored, author, parentPk, counts, known, post, queue, requests, used, verdict,
                     newCount, baseline, due, stepped, hand>>
  BY DEF Stop, tableVars
<1>2. Shape' /\ HandIsOfPost' /\ Quiet'
  BY <1>1 DEF IInv, Shape, HandIsOfPost, Quiet
<1>3. NewIsDelta'
  BY <1>1 DEF IInv, NewIsDelta
<1> QED BY <1>1, <1>2, <1>3, TablesStand DEF IInv

\* An empty post climbs, and all that is left out of the queue is older than it.
LEMMA SkipKeeps ==
  ASSUME IInv, NEW p \in Posts, Skip(p) PROVE IInv'
<1> USE DEF IInv, Shape
<1>1. /\ phase = "stage" /\ phase' = "stage" /\ p \in queue /\ post[p].num = 0
      /\ post' = [post EXCEPT ![p] = Skipped(p)]
      /\ queue' = queue \ {p} /\ due' = due \ {p} /\ stepped' = stepped \cup {p}
      /\ UNCHANGED <<stored, author, parentPk, counts, known, requests, used, warned, verdict,
                     newCount, baseline, hand>>
  BY DEF Skip, IsNext
<1>2. DOMAIN post' = Posts /\ \A q \in Posts : "num" \in DOMAIN post'[q]
  BY <1>1, NumStays
<1>3. Shape' /\ HandIsOfPost' /\ NewIsDelta'
  BY <1>1, <1>2 DEF HandIsOfPost, NewIsDelta
<1>4. Quiet'
  <2>1. ASSUME ~warned, ~verdict
        PROVE  queue' \subseteq due' /\ Older' /\ PastEmpty'
    <3>1. queue \subseteq due /\ Older
      BY <1>1, <2>1 DEF Quiet
    <3>2. due' \ queue' = due \ queue
      BY <1>1, <3>1
    <3>3. \A r \in due \ queue : r < p
      BY <1>1, <3>1 DEF Older
    <3> QED BY <1>1, <3>1, <3>2, <3>3 DEF Older, PastEmpty
  <2> QED BY <1>1, <2>1 DEF Quiet
<1> QED BY <1>1, <1>3, <1>4, TablesStand

\* A tree in hand is of the post it was fetched for, and leaves one request less.
LEMMA FetchKeeps ==
  ASSUME IInv, NEW p \in Posts, Fetch(p) PROVE IInv'
<1> USE DEF IInv, Shape
<1>1. /\ phase = "stage" /\ phase' = "write" /\ p \in queue /\ \A q \in queue : q <= p
      /\ CanAfford(used, 1) /\ used' = requests'
      /\ UNCHANGED <<stored, author, parentPk, counts, known, post, queue, warned, verdict,
                     newCount, baseline, due, stepped>>
  BY DEF Fetch, IsNext, tableVars
<1>2. PICK opened \in Opened(p, MoreLimitFor(Spendable(used))), extra \in 0 .. MaxExtra :
         /\ requests' = requests + TreeCost(Cardinality(opened)) + extra
         /\ hand'.got = Accepted(p, opened)
  BY DEF Fetch
<1>3. Cardinality(opened) \in Nat /\ extra \in Nat
  <2>1. opened \in SUBSET Comments
    BY DEF Opened, Visible
  <2>2. MaxExtra \in Nat
    BY TreesAssumption
  <2> QED BY <2>1, <2>2, Finite
<1>4. requests' \in Nat /\ requests' >= requests + 1
  BY <1>2, <1>3 DEF TreeCost
<1>5. hand'.got \subseteq Comments /\ \A c \in hand'.got : PostOf[c] = p
  BY <1>2 DEF Accepted, Visible
<1>6. Shape' /\ NewIsDelta'
  BY <1>1, <1>4, <1>5 DEF NewIsDelta
<1>7. HandIsOfPost'
  <2>1. ASSUME NEW q \in Posts, Writing(q)' PROVE q = p
    <3>1. q \in queue /\ \A r \in queue : r <= q
      BY <1>1, <2>1 DEF Writing
    <3>2. q <= p /\ p <= q /\ q \in Nat /\ p \in Nat
      BY <1>1, <3>1, TreesAssumption
    <3> QED BY <3>2
  <2> QED BY <1>5, <2>1 DEF HandIsOfPost
<1>8. Quiet'
  <2>1. PICK u \in Nat, v \in Nat : u = used /\ v = used'
    BY <1>1, <1>4
  <2>2. Spendable(v) + 1 <= Spendable(u)
    BY <1>1, <1>4, <2>1, SpendingTellsOn
  <2>3. Spendable(used)' = Spendable(v)
    BY <2>1 DEF Spendable, Planned
  <2>4. Cardinality(queue) \in Nat /\ Spendable(u) \in Nat /\ Spendable(v) \in Nat
    BY <2>1, Finite, SpendableIsNat
  <2>5. (Older' <=> Older) /\ (PastEmpty' <=> PastEmpty)
    BY <1>1 DEF Older, PastEmpty
  <2>6. Cardinality(queue) > Spendable(used) => Cardinality(queue) > Spendable(v) + 1
    BY <2>1, <2>2, <2>4
  <2> QED BY <1>1, <2>3, <2>5, <2>6 DEF Quiet
<1> QED BY <1>1, <1>6, <1>7, <1>8, TablesStand

\* A fetch or a transaction that fails, and a verdict, are told.
LEMMA FailureKeeps ==
  ASSUME IInv, NEW p \in Posts, FetchFails(p) \/ FetchEnds(p) \/ Refused(p) PROVE IInv'
<1> USE DEF IInv, Shape
<1>1. /\ queue' \in {queue, queue \ {p}} /\ warned' \in BOOLEAN /\ verdict' \in BOOLEAN
      /\ (warned' \/ verdict') /\ phase # "idle" /\ phase' \in {"stage", "done"}
      /\ hand' \in {hand, NoTree} /\ used' = requests'
      /\ UNCHANGED <<stored, author, parentPk, counts, known, post, newCount, baseline, due, stepped>>
  BY DEF FetchFails, FetchEnds, Refused, IsNext, Writing, tableVars
<1>2. requests' \in Nat
  <2>1. CASE FetchFails(p)
    BY <2>1 DEF FetchFails
  <2>2. CASE FetchEnds(p) \/ Refused(p)
    BY <2>2 DEF FetchEnds, Refused
  <2> QED BY <2>1, <2>2
<1>3. Shape' /\ HandIsOfPost' /\ Quiet' /\ NewIsDelta'
  BY <1>1, <1>2 DEF HandIsOfPost, Quiet, NewIsDelta, NoTree
<1> QED BY <1>1, <1>3, TablesStand

-----------------------------------------------------------------------------
(* A tree committed.                                                        *)

\* What the transaction of a tree starts from.
Commits(p) == IInv /\ p \in Posts /\ Commit(p)

\* All comments of the tree are of the post.
LEMMA HandFits ==
  ASSUME NEW p, Commits(p)
  PROVE  /\ hand.got \subseteq Comments /\ \A c \in hand.got : PostOf[c] = p
         /\ stored' = stored \cup hand.got /\ stored \subseteq Comments
<1>1. phase = "write" /\ Writing(p) /\ stored' = stored \cup hand.got
  BY DEF Commits, Commit, Writing
<1> QED BY <1>1 DEF Commits, IInv, Shape, HandIsOfPost

\* A reply finds its parent among all the comments of the post, those stored before and
\* those it came with, and a comment stored before finds a parent that only came now.
LEMMA CommitLinks ==
  ASSUME NEW p, Commits(p)
  PROVE  ParentsAreLinked' /\ UnstoredPointNowhere'
<1>1. \A c \in Comments :
        parentPk'[c] = IF PostOf[c] = p /\ c \in stored' /\ parentPk[c] = Null /\ Parent[c] # Null
                          /\ Resolvable(p, c)
                       THEN Parent[c] ELSE parentPk[c]
  BY DEF Commits, Commit
<1>2. /\ \A c \in stored : parentPk[c] = IF Parent[c] \in stored THEN Parent[c] ELSE Null
      /\ \A c \in Comments \ stored : parentPk[c] = Null
  BY DEF Commits, IInv, ParentsAreLinked, UnstoredPointNowhere
<1>3. \A c \in Comments : Parent[c] \in Comments => PostOf[Parent[c]] = PostOf[c] \/ Parent[c] = Null
  BY TreesAssumption
<1>4. ASSUME NEW c \in stored'
      PROVE  parentPk'[c] = IF Parent[c] \in stored' THEN Parent[c] ELSE Null
  <2>1. c \in Comments /\ (c \in stored \/ c \in hand.got)
    BY <1>4, HandFits
  <2>2. CASE PostOf[c] = p
    <3>1. parentPk[c] = Null \/ (Parent[c] \in stored /\ parentPk[c] = Parent[c])
      BY <1>2, <2>1
    <3>2. Resolvable(p, c) <=> Parent[c] \in stored' /\ PostOf[Parent[c]] = p
      BY HandFits DEF Resolvable
    <3>3. Parent[c] \in stored' /\ Parent[c] # Null => Resolvable(p, c)
      BY <1>3, <2>1, <2>2, <3>2, HandFits
    <3>4. Parent[c] \in stored => Parent[c] \in stored'
      BY HandFits
    <3> QED BY <1>1, <1>4, <2>1, <2>2, <3>1, <3>2, <3>3, <3>4
  <2>3. CASE PostOf[c] # p
    <3>1. c \in stored /\ parentPk'[c] = parentPk[c]
      BY <1>1, <2>1, <2>3, HandFits
    <3>2. Parent[c] \in stored' /\ Parent[c] # Null => Parent[c] \in stored
      BY <1>3, <2>1, <2>3, HandFits
    <3>3. Parent[c] \in stored => Parent[c] \in stored'
      BY HandFits
    <3> QED BY <1>2, <3>1, <3>2, <3>3
  <2> QED BY <2>2, <2>3
<1>5. ASSUME NEW c \in Comments \ stored' PROVE parentPk'[c] = Null
  BY <1>1, <1>2, <1>5, HandFits
<1> QED BY <1>4, <1>5 DEF ParentsAreLinked, UnstoredPointNowhere

\* An author named in the tree is counted after it is written; one who is not has at most
\* lost comments.
LEMMA CommitCounts ==
  ASSUME NEW p, Commits(p)
  PROVE  CountsNeverLag' /\ counts' \in [Authors -> Nat \cup {Null}]
<1> DEFINE Now(a)  == {c \in stored' : author'[c] = a}
           Then(a) == {c \in stored : author[c] = a}
<1>1. counts' = [a \in Authors |->
                   IF \E c \in hand.got : author'[c] = a THEN CountOf(a) ELSE counts[a]]
  BY DEF Commits, Commit
<1>2. \A c \in Comments \ hand.got : author'[c] = author[c]
  BY DEF Commits, Commit
<1>3. ASSUME NEW a \in Authors
      PROVE  /\ IsFiniteSet(Now(a)) /\ Cardinality(Now(a)) \in Nat
             /\ IsFiniteSet(Then(a)) /\ Cardinality(Then(a)) \in Nat
  <2>1. Now(a) \in SUBSET Comments /\ Then(a) \in SUBSET Comments
    BY HandFits
  <2> QED BY <2>1, Finite
<1>4. \A a \in Authors : CountOf(a) = Cardinality(Now(a))
  BY DEF CountOf
<1>5. counts \in [Authors -> Nat \cup {Null}] /\ Null \notin Nat
  BY TreesAssumption DEF Commits, IInv, Shape
<1>6. counts' \in [Authors -> Nat \cup {Null}]
  BY <1>1, <1>3, <1>4, <1>5
<1>7. ASSUME NEW a \in Authors
      PROVE  Cardinality(Now(a)) <= IF counts'[a] = Null THEN 0 ELSE counts'[a]
  <2> HIDE DEF Now, Then
  <2>0. PICK m \in Nat, n \in Nat : m = Cardinality(Then(a)) /\ n = Cardinality(Now(a))
    BY <1>3
  <2>1. CASE \E c \in hand.got : author'[c] = a
    <3>1. counts'[a] = Cardinality(Now(a))
      BY <1>1, <1>4, <2>1
    <3> QED BY <1>5, <2>0, <3>1
  <2>2. CASE ~ \E c \in hand.got : author'[c] = a
    <3>1. Now(a) \in SUBSET Then(a)
      BY <1>2, <2>2, HandFits DEF Now, Then
    <3>2. Cardinality(Now(a)) <= Cardinality(Then(a))
      BY <1>3, <3>1, FS_Subset
    <3>3. counts'[a] = counts[a]
      BY <1>1, <2>2
    <3>4. Cardinality(Then(a)) <= IF counts[a] = Null THEN 0 ELSE counts[a]
      BY DEF Commits, IInv, CountsNeverLag, Then
    <3>5. PICK k \in Nat \cup {Null} : k = counts[a]
      BY <1>5
    <3>6. n <= m /\ m <= IF k = Null THEN 0 ELSE k
      BY <2>0, <3>2, <3>4, <3>5
    <3>7. n <= IF k = Null THEN 0 ELSE k
      BY <1>5, <3>6
    <3> QED BY <2>0, <3>3, <3>5, <3>7
  <2> QED BY <2>1, <2>2
<1> QED BY <1>6, <1>7 DEF CountsNeverLag

\* The counter moves with the table.
LEMMA CommitDelta ==
  ASSUME NEW p, Commits(p)
  PROVE  NewIsDelta' /\ newCount' \in Nat
<1>1. /\ newCount' = newCount + Cardinality(hand.got \ stored) /\ baseline' = baseline
      /\ phase = "write"
  BY DEF Commits, Commit, NewIds, Writing
<1>2. IsFiniteSet(stored) /\ IsFiniteSet(hand.got \ stored)
  BY HandFits, Finite
<1>3. /\ Cardinality(stored') = Cardinality(stored) + Cardinality(hand.got \ stored)
      /\ Cardinality(stored) \in Nat /\ Cardinality(hand.got \ stored) \in Nat
  <2>1. stored' = stored \cup (hand.got \ stored) /\ stored \cap (hand.got \ stored) = {}
    BY HandFits
  <2>2. PICK S, T : S = stored /\ T = hand.got \ stored
    OBVIOUS
  <2>3. Cardinality(S \cup T) = Cardinality(S) + Cardinality(T) - Cardinality(S \cap T)
    BY <1>2, <2>2, FS_Union
  <2>4. Cardinality(S) \in Nat /\ Cardinality(T) \in Nat /\ Cardinality(S \cap T) = 0
    BY <1>2, <2>1, <2>2, FS_EmptySet, FS_CardinalityType
  <2>5. Cardinality(S \cup T) = Cardinality(S) + Cardinality(T)
    BY <2>3, <2>4
  <2> QED BY <2>1, <2>2, <2>4, <2>5
<1>4. newCount = Cardinality(stored) - baseline /\ newCount \in Nat /\ baseline \in Nat
  BY <1>1 DEF Commits, IInv, NewIsDelta, Shape
<1> QED BY <1>1, <1>3, <1>4 DEF NewIsDelta

\* One tree, one post less in the queue and one less due.
LEMMA CommitKeeps ==
  ASSUME NEW p \in Posts, IInv, Commit(p) PROVE IInv'
<1>0. Commits(p)
  BY DEF Commits
<1>1. /\ phase = "write" /\ phase' = "stage" /\ p \in queue
      /\ queue' = queue \ {p} /\ due' = due \ {p} /\ hand' = NoTree
      /\ warned' = (warned \/ hand.bound # Null)
      /\ UNCHANGED <<known, requests, used, verdict, baseline, stepped>>
  BY DEF Commit, Writing
<1>2. /\ DOMAIN post' = Posts /\ \A q \in Posts : "num" \in DOMAIN post'[q] /\ post'[q].num = post[q].num
  <2>1. post' = [post EXCEPT ![p] =
                [Climbed(p) EXCEPT !.fetched = TRUE, !.captured = Cardinality(hand.got),
                                   !.complete = hand.stubs = {},
                                   !.hidden = FoldSet(LAMBDA s, n : s.count + n, 0, hand.stubs),
                                   !.bound = hand.bound]]
    BY DEF Commit
  <2>2. DOMAIN post = Posts /\ \A q \in Posts : "num" \in DOMAIN post[q]
    BY DEF IInv, Shape
  <2> QED BY <2>1, <2>2, NumStays
<1>3. Shape'
  BY <1>0, <1>1, <1>2, HandFits, CommitCounts, CommitDelta DEF IInv, Shape, NoTree
<1>4. HandIsOfPost'
  BY <1>1 DEF HandIsOfPost
<1>5. Quiet'
  <2>1. ASSUME ~warned, ~verdict
        PROVE  /\ queue' \subseteq due' /\ Older' /\ (PastEmpty => PastEmpty')
    <3>1. queue \subseteq due /\ Older
      BY <1>1, <2>1 DEF Quiet, IInv
    <3>2. due' \ queue' = due \ queue
      BY <1>1, <3>1
    <3> QED BY <1>1, <3>1, <3>2 DEF Older, PastEmpty
  <2>2. ~warned' => ~warned
    BY <1>1 DEF IInv, Shape
  <2>3. PICK u \in Nat : u = used
    BY DEF IInv, Shape
  <2>4. Spendable(used)' = Spendable(u) /\ Spendable(used) = Spendable(u) /\ Spendable(u) \in Nat
    BY <1>1, <2>3, SpendableIsNat DEF Spendable, Planned
  <2>5. IsFiniteSet(queue) /\ Cardinality(queue) \in Nat
    BY Finite DEF IInv, Shape
  <2>6. Cardinality(queue \ {p}) = Cardinality(queue) - 1
    BY <1>1, <2>5, FS_RemoveElement
  <2>7. Cardinality(queue) > Spendable(u) + 1 => Cardinality(queue \ {p}) > Spendable(u)
    BY <2>4, <2>5, <2>6
  <2>8. due = queue => due' = queue'
    BY <1>1
  <2> QED BY <1>1, <2>1, <2>2, <2>4, <2>7, <2>8 DEF Quiet, IInv
<1> QED BY <1>0, <1>3, <1>4, <1>5, CommitLinks, CommitCounts, CommitDelta DEF IInv

-----------------------------------------------------------------------------
(* All the steps, and the theorems.                                         *)

\* The end of the stage, of the run or of the process, and what Reddit does meanwhile.
LEMMA RestKeeps ==
  ASSUME IInv, NextDay \/ Kill \/ Drained \/ Close \/ \E c \in Comments : Change(c) PROVE IInv'
<1> USE DEF IInv, Shape
<1>1. UNCHANGED <<stored, author, parentPk, counts, known, post>>
  BY DEF NextDay, Kill, Drained, Close, Change, tableVars
<1>2. CASE NextDay \/ \E c \in Comments : Change(c)
  <2>1. /\ phase = "idle" /\ phase' = "idle"
        /\ UNCHANGED <<queue, requests, used, warned, verdict, newCount, baseline, due, stepped, hand>>
    BY <1>2 DEF NextDay, Change, runVars
  <2>2. Shape' /\ HandIsOfPost' /\ NewIsDelta' /\ Quiet'
    BY <1>1, <2>1 DEF HandIsOfPost, NewIsDelta, Quiet
  <2> QED BY <1>1, <2>2, TablesStand
<1>3. CASE Kill \/ Close
  <2>1. /\ phase' = "idle" /\ queue' = {} /\ due' = {} /\ requests' = 0 /\ used' = 0
        /\ warned' = FALSE /\ verdict' = FALSE /\ newCount' = 0 /\ baseline' = 0 /\ stepped' = {}
        /\ hand' \in {hand, NoTree}
    BY <1>3 DEF Kill, Close
  <2>2. HandIsOfPost' /\ NewIsDelta' /\ Quiet'
    BY <2>1 DEF HandIsOfPost, NewIsDelta, Quiet
  <2>3. hand'.got \subseteq Comments
    BY <2>1 DEF NoTree
  <2>4. Shape'
    BY <1>1, <2>1, <2>3
  <2> QED BY <1>1, <2>2, <2>4, TablesStand
<1>4. CASE Drained
  <2>1. /\ phase = "stage" /\ queue = {} /\ phase' = "done"
        /\ UNCHANGED <<queue, requests, used, warned, verdict, newCount, baseline, due, stepped, hand>>
    BY <1>4 DEF Drained, runVars
  <2>2. PICK u \in Nat : u = used
    OBVIOUS
  <2>3. ~(Cardinality(queue) > Spendable(used))
    <3>1. Cardinality(queue) = 0
      BY <2>1, FS_EmptySet
    <3>2. Spendable(u) \in Nat
      BY SpendableIsNat
    <3> QED BY <2>2, <3>1, <3>2
  <2>4. Quiet'
    BY <1>1, <2>1, <2>3 DEF Quiet, PastEmpty
  <2> QED BY <1>1, <2>1, <2>4, TablesStand DEF HandIsOfPost, NewIsDelta
<1> QED BY <1>2, <1>3, <1>4

\* Every step keeps the invariant.
LEMMA Keeps == IInv /\ [Next]_vars => IInv'
<1> SUFFICES ASSUME IInv, [Next]_vars PROVE IInv'
  OBVIOUS
<1>1. CASE UNCHANGED vars
  <2>1. UNCHANGED <<stored, author, parentPk, counts, known, post, phase, queue, requests, used,
                    warned, verdict, newCount, baseline, due, stepped, hand>>
    BY <1>1 DEF vars, tableVars, runVars
  <2>2. Shape' /\ HandIsOfPost'
    BY <2>1 DEF IInv, Shape, HandIsOfPost, Writing
  <2>3. NewIsDelta' /\ Quiet'
    BY <2>1 DEF IInv, NewIsDelta, Quiet, Older, PastEmpty, Spendable, Planned
  <2> QED BY <2>1, <2>2, <2>3, TablesStand DEF IInv
<1>2. CASE Start
  <2>1. PICK swept \in {{}, {p \in Posts : Created[p] <= day}} : StartStage(swept)
    BY <1>2 DEF Start
  <2> QED BY <2>1, BeginKeeps
<1>3. ASSUME NEW p \in Posts, OnPost(p) PROVE IInv'
  <2>1. CASE OverCeiling(p) \/ OutOfBudget(p)
    BY <2>1, StopKeeps DEF OverCeiling, OutOfBudget, IsNext
  <2> QED BY <1>3, <2>1, SkipKeeps, FetchKeeps, FailureKeeps, CommitKeeps DEF OnPost
<1>4. CASE NextDay \/ Kill \/ Drained \/ Close \/ \E c \in Comments : Change(c)
  BY <1>4, RestKeeps
<1> QED BY <1>1, <1>2, <1>3, <1>4 DEF Next, Work

\* The invariant holds of every run.
LEMMA Always == Spec => []IInv
  BY Begins, Keeps, PTL DEF Spec

\* comments_new is the growth of the comments table, whatever is refused, read again or
\* killed.
THEOREM NewIsTheGrowth == Spec => []NewIsDelta
<1>1. IInv => NewIsDelta
  BY DEF IInv
<1> QED BY <1>1, Always, PTL

\* Every stored reply points to its parent as soon as both are there, in whatever order and
\* over however many fetches they came.
THEOREM RepliesFindParents == Spec => []ParentsAreLinked
<1>1. IInv => ParentsAreLinked
  BY DEF IInv
<1> QED BY <1>1, Always, PTL

\* No author's comment_count lags behind the rows that carry the name.
THEOREM NoAuthorLags == Spec => []CountsNeverLag
<1>1. IInv => CountsNeverLag
  BY DEF IInv
<1> QED BY <1>1, Always, PTL

\* A stage that ends without a warning has dealt with all that was due, or left only what is
\* older than an empty post it stepped over: one row more than the budget pays for is enough
\* to notice that something was left, where every row costs a request.
THEOREM QuietStagesAreDrained == Spec => []DrainedUnlessEmpty
<1>1. IInv => DrainedUnlessEmpty
  BY DEF IInv, Quiet, DrainedUnlessEmpty
<1> QED BY <1>1, Always, PTL

-----------------------------------------------------------------------------
(* Threads.                                                                 *)

\* Induction on the natural numbers, for a set of them.
LEMMA Induction ==
  ASSUME NEW S, 0 \in S, \A n \in Nat : n \in S => n + 1 \in S
  PROVE  Nat \subseteq S
<1> SUFFICES ASSUME NEW k \in Nat, k \notin S PROVE FALSE
  OBVIOUS
<1> DEFINE Below == {0 .. m : m \in Nat \ S}
<1>1. Below # {} /\ Below \subseteq FiniteSubsetsOf(Nat)
  <2>1. 0 .. k \in Below
    OBVIOUS
  <2>2. ASSUME NEW m \in Nat PROVE 0 .. m \in FiniteSubsetsOf(Nat)
    BY FS_Interval DEF FiniteSubsetsOf
  <2> QED BY <2>1, <2>2
<1>2. IsWellFoundedOn(StrictSubsetOrdering(Nat), FiniteSubsetsOf(Nat))
  BY FS_StrictSubsetOrderingWellFounded
<1>3. PICK X \in Below : \A Y \in Below : <<Y, X>> \notin StrictSubsetOrdering(Nat)
  BY <1>1, <1>2, WFMin
<1>4. PICK m \in Nat \ S : X = 0 .. m
  BY <1>3
<1>5. m # 0 /\ m - 1 \in Nat \ S
  BY <1>4
<1>6. <<0 .. m - 1, 0 .. m>> \in StrictSubsetOrdering(Nat)
  <2>1. 0 .. m - 1 \in SUBSET Nat /\ 0 .. m \in SUBSET Nat
    OBVIOUS
  <2>2. 0 .. m - 1 \subseteq 0 .. m /\ m \in 0 .. m /\ m \notin 0 .. m - 1
    BY <1>4
  <2> QED BY <2>1, <2>2 DEF StrictSubsetOrdering
<1> QED BY <1>3, <1>4, <1>5, <1>6

\* How deep a comment stands in its thread.
Depth == CHOOSE depth \in [Comments -> 0 .. Cardinality(Comments)] :
           \A c \in Comments : Parent[c] # Null => depth[Parent[c]] < depth[c]

\* A reply is deeper than its parent.
LEMMA DepthIs ==
  ASSUME NEW c \in Comments
  PROVE  /\ Depth[c] \in Nat /\ (Parent[c] # Null => Parent[c] \in Comments)
         /\ Parent[c] # Null => Depth[Parent[c]] < Depth[c]
<1>1. Cardinality(Comments) \in Nat
  BY Finite
<1>2. /\ Depth \in [Comments -> 0 .. Cardinality(Comments)]
      /\ \A d \in Comments : Parent[d] # Null => Depth[Parent[d]] < Depth[d]
  BY TreesAssumption DEF Depth
<1>3. Parent[c] # Null => Parent[c] \in Comments
  BY TreesAssumption
<1> QED BY <1>1, <1>2, <1>3

\* What a reply inherits from its parent holds of all comments.
LEMMA ThreadInduction ==
  ASSUME NEW S, \A c \in Comments : (Parent[c] = Null \/ Parent[c] \in S) => c \in S
  PROVE  Comments \subseteq S
<1> DEFINE N == {n \in Nat : \A c \in Comments : Depth[c] < n => c \in S}
<1>1. 0 \in N
  BY DepthIs
<1>2. ASSUME NEW n \in Nat, n \in N PROVE n + 1 \in N
  <2> SUFFICES ASSUME NEW c \in Comments, Depth[c] < n + 1 PROVE c \in S
    OBVIOUS
  <2>1. Parent[c] # Null => Parent[c] \in Comments /\ Depth[Parent[c]] \in Nat /\ Depth[Parent[c]] < n
    BY DepthIs
  <2> QED BY <1>2, <2>1
<1>3. Nat \subseteq N
  <2> HIDE DEF N
  <2> QED BY <1>1, <1>2, Induction
<1>4. \A c \in Comments : Depth[c] + 1 \in Nat /\ Depth[c] < Depth[c] + 1
  BY DepthIs
<1> QED BY <1>3, <1>4

\* Above is what its definition says: there is such a function, the set of the comments that
\* every set closed under Parent contains with c.
LEMMA AboveIs ==
  ASSUME NEW c \in Comments
  PROVE  Above[c] = IF Parent[c] = Null THEN {c} ELSE {c} \cup Above[Parent[c]]
<1> DEFINE Whole(S) == \A e \in S : Parent[e] # Null => Parent[e] \in S
           R == [e \in Comments |-> {d \in Comments : \A S \in SUBSET Comments : e \in S /\ Whole(S) => d \in S}]
<1>1. ASSUME NEW e \in Comments
      PROVE  R[e] = IF Parent[e] = Null THEN {e} ELSE {e} \cup R[Parent[e]]
  <2>1. CASE Parent[e] = Null
    <3>1. {e} \in SUBSET Comments /\ Whole({e})
      BY <2>1
    <3>2. R[e] \subseteq {e}
      BY <3>1
    <3>3. e \in R[e]
      OBVIOUS
    <3> QED BY <2>1, <3>2, <3>3
  <2>2. CASE Parent[e] # Null
    <3>1. Parent[e] \in Comments
      BY <2>2, DepthIs
    <3>2. Whole(R[Parent[e]]) /\ Parent[e] \in R[Parent[e]] /\ R[Parent[e]] \in SUBSET Comments
      BY <3>1, DepthIs
    <3>3. {e} \cup R[Parent[e]] \in SUBSET Comments /\ Whole({e} \cup R[Parent[e]])
      BY <3>2
    <3>4. R[e] \subseteq {e} \cup R[Parent[e]]
      BY <3>3
    <3>5. R[Parent[e]] \subseteq R[e]
      BY <2>2, <3>1
    <3>6. e \in R[e]
      OBVIOUS
    <3> QED BY <2>2, <3>4, <3>5, <3>6
  <2> QED BY <2>1, <2>2
<1>2. R = [e \in Comments |-> IF Parent[e] = Null THEN {e} ELSE {e} \cup R[Parent[e]]]
  <2>1. R = [e \in Comments |-> R[e]]
    OBVIOUS
  <2> HIDE DEF R
  <2> QED BY <1>1, <2>1
<1>3. Above = CHOOSE f : f = [e \in Comments |-> IF Parent[e] = Null THEN {e} ELSE {e} \cup f[Parent[e]]]
  BY DEF Above
<1>4. Above = [e \in Comments |-> IF Parent[e] = Null THEN {e} ELSE {e} \cup Above[Parent[e]]]
  <2> HIDE DEF R
  <2> QED BY <1>2, <1>3
<1> QED BY <1>4

\* The comments above one are in a line, each with all that is above it.
LEMMA Lines ==
  ASSUME NEW c \in Comments
  PROVE  /\ Above[c] \subseteq Comments /\ c \in Above[c]
         /\ \A d \in Above[c] : Above[d] \subseteq Above[c] /\ (d = c \/ c \notin Above[d])
         /\ \A d, e \in Above[c] : d \in Above[e] \/ e \in Above[d]
<1> DEFINE Fine(e) == /\ Above[e] \subseteq Comments /\ e \in Above[e]
                      /\ \A d \in Above[e] : Above[d] \subseteq Above[e] /\ (d = e \/ Depth[d] < Depth[e])
                      /\ \A d, f \in Above[e] : d \in Above[f] \/ f \in Above[d]
           S == {e \in Comments : Fine(e)}
<1>1. ASSUME NEW e \in Comments, Parent[e] = Null \/ Parent[e] \in S PROVE e \in S
  <2>1. CASE Parent[e] = Null
    <3>1. Above[e] = {e}
      BY <2>1, AboveIs
    <3> QED BY <3>1
  <2>2. CASE Parent[e] # Null
    <3>1. Above[e] = {e} \cup Above[Parent[e]] /\ Fine(Parent[e]) /\ Parent[e] \in Comments
      BY <1>1, <2>2, AboveIs
    <3>2. Depth[Parent[e]] < Depth[e] /\ Depth[e] \in Nat /\ \A d \in Above[e] : Depth[d] \in Nat
      BY <2>2, <3>1, DepthIs
    <3>3. \A d \in Above[Parent[e]] : Above[d] \subseteq Above[e] /\ Depth[d] < Depth[e]
      BY <3>1, <3>2
    <3>4. \A d, f \in Above[e] : d \in Above[f] \/ f \in Above[d]
      BY <3>1
    <3> QED BY <3>1, <3>3, <3>4
  <2> QED BY <2>1, <2>2
<1>2. Comments \subseteq S
  <2> HIDE DEF S
  <2> QED BY <1>1, ThreadInduction
<1>3. Fine(c)
  BY <1>2
<1>4. ASSUME NEW d \in Above[c], c \in Above[d] PROVE d = c
  <2>1. d \in Comments /\ Fine(d)
    BY <1>2, <1>3
  <2>2. Depth[d] \in Nat /\ Depth[c] \in Nat
    BY <2>1, DepthIs
  <2>3. (d = c \/ Depth[d] < Depth[c]) /\ (c = d \/ Depth[c] < Depth[d])
    BY <1>3, <1>4, <2>1
  <2> QED BY <2>2, <2>3
<1> QED BY <1>3, <1>4

\* Of the folds above a comment that are not opened, one is the first.
LEMMA FirstFold ==
  ASSUME NEW F, NEW O, NEW c \in Comments, NEW g \in Above[c] \cap F, g \notin O
  PROVE  \E h \in (Above[c] \cap F) \ O : Above[h] \cap F \subseteq O \cup {h}
<1> DEFINE S == {e \in Comments : (Above[e] \cap F) \ O # {} =>
                   \E h \in (Above[e] \cap F) \ O : Above[h] \cap F \subseteq O \cup {h}}
<1>1. ASSUME NEW e \in Comments, Parent[e] = Null \/ Parent[e] \in S PROVE e \in S
  <2>1. CASE Parent[e] # Null /\ (Above[Parent[e]] \cap F) \ O # {}
    <3>1. Above[e] = {e} \cup Above[Parent[e]]
      BY <2>1, AboveIs
    <3> QED BY <1>1, <2>1, <3>1
  <2>2. CASE Parent[e] = Null \/ (Above[Parent[e]] \cap F) \ O = {}
    <3>1. Above[e] \cap F \subseteq O \cup {e}
      BY <2>2, AboveIs
    <3> QED BY <3>1
  <2> QED BY <2>1, <2>2
<1>2. Comments \subseteq S
  <2> HIDE DEF S
  <2> QED BY <1>1, ThreadInduction
<1> QED BY <1>2
-----------------------------------------------------------------------------
(* The stubs of a tree.                                                     *)

\* The first folds that a fetch left closed, and what is behind each.
Heads(p, opened) ==
  {f \in (Folded \cap Visible(p)) \ opened : Above[f] \cap Folded \cap Visible(p) \subseteq opened \cup {f}}
Under(p, h) == {c \in Visible(p) : h \in Above[c]}
Hidden(p, stubs) == {c \in Visible(p) : \E s \in stubs : s.head \in Above[c]}
Sum(stubs) == FoldSet(LAMBDA s, n : s.count + n, 0, stubs)

\* A stub is known by its head, and no comment is behind two.
LEMMA StubsAre ==
  ASSUME NEW p \in Posts, NEW opened
  PROVE  /\ \A s \in StubsLeft(p, opened) :
              /\ s \in Stubs /\ s.head \in Heads(p, opened) /\ s.count = Cardinality(Under(p, s.head))
         /\ \A h \in Heads(p, opened) : \E s \in StubsLeft(p, opened) : s.head = h
         /\ \A s, t \in StubsLeft(p, opened) : s.head = t.head => s = t
         /\ \A s, t \in StubsLeft(p, opened) : s # t => Under(p, s.head) \cap Under(p, t.head) = {}
         /\ IsFiniteSet(StubsLeft(p, opened))
<1> DEFINE St == StubsLeft(p, opened)
           H == Heads(p, opened)
<1>1. St = {[head |-> h, count |-> Cardinality(Under(p, h))] : h \in H}
  BY DEF StubsLeft, Heads, Under
<1>2. H \in SUBSET Comments /\ \A h \in H : Cardinality(Under(p, h)) \in Nat
  BY Finite DEF Heads, Under, Visible
<1>3. \A s \in St : s \in Stubs /\ s.head \in H /\ s.count = Cardinality(Under(p, s.head))
  BY <1>1, <1>2 DEF Stubs
<1>4. ASSUME NEW h \in H PROVE \E s \in St : s.head = h
  <2> DEFINE s == [head |-> h, count |-> Cardinality(Under(p, h))]
  <2>1. s \in St /\ s.head = h
    BY <1>1
  <2> QED BY <2>1
<1>5. \A s, t \in St : s.head = t.head => s = t
  BY <1>1
<1>6. ASSUME NEW s \in St, NEW t \in St, NEW c \in Under(p, s.head) \cap Under(p, t.head) PROVE s = t
  <2>1. c \in Comments /\ s.head \in Above[c] /\ t.head \in Above[c]
    BY <1>6 DEF Under, Visible
  <2>2. s.head \in Above[t.head] \/ t.head \in Above[s.head]
    BY <2>1, Lines
  <2>3. s.head = t.head
    BY <1>3, <2>2 DEF Heads
  <2> QED BY <1>5, <2>3
<1>7. IsFiniteSet(St)
  <2> DEFINE f == [s \in St |-> s.head]
  <2>1. f \in [St -> H]
    BY <1>3
  <2>2. \A s, t \in St : f[s] = f[t] => s = t
    BY <1>5
  <2>3. f \in Injection(St, H)
    <3> HIDE DEF f, St, H
    <3> QED BY <2>1, <2>2 DEF Injection, IsInjective
  <2>4. IsFiniteSet(H)
    BY <1>2, Finite
  <2> QED BY <2>3, <2>4, FS_Injection
<1> HIDE DEF St, H
<1>8. \A s, t \in St : s # t => Under(p, s.head) \cap Under(p, t.head) = {}
  BY <1>6
<1> QED BY <1>3, <1>4, <1>5, <1>7, <1>8 DEF St, H

\* The counts of the stubs add up to the comments behind them: hidden_comments hides no
\* comment twice.
LEMMA SumIsHidden ==
  ASSUME NEW p \in Posts, NEW opened
  PROVE  Sum(StubsLeft(p, opened)) = Cardinality(Hidden(p, StubsLeft(p, opened)))
<1> DEFINE St == StubsLeft(p, opened)
           Size(S) == Cardinality(Hidden(p, S))
           First(S) == CHOOSE x \in S : TRUE
<1>1. /\ \A s \in St : s.count = Cardinality(Under(p, s.head)) /\ IsFiniteSet(Under(p, s.head))
      /\ \A s, t \in St : s # t => Under(p, s.head) \cap Under(p, t.head) = {}
      /\ IsFiniteSet(St)
  BY StubsAre, Finite DEF Under, Visible
<1>2. \A S : IsFiniteSet(Hidden(p, S)) /\ Size(S) \in Nat
  BY Finite DEF Hidden, Visible
<1> HIDE DEF St, Size
<1>3. ASSUME NEW S \in SUBSET St, S # {}
      PROVE  Size(S) = First(S).count + Size(S \ {First(S)})
  <2>1. PICK s \in S : s = First(S)
    BY <1>3
  <2>2. Hidden(p, S) = Under(p, s.head) \cup Hidden(p, S \ {s})
    BY DEF Hidden, Under
  <2>3. Under(p, s.head) \cap Hidden(p, S \ {s}) = {}
    BY <1>1 DEF Hidden, Under
  <2>4. Cardinality(Under(p, s.head)) \in Nat /\ s.count = Cardinality(Under(p, s.head))
    BY <1>1, FS_CardinalityType
  <2>5. Cardinality(Hidden(p, S)) = s.count + Cardinality(Hidden(p, S \ {s})) - 0
    <3>1. PICK A, B : A = Under(p, s.head) /\ B = Hidden(p, S \ {s})
      OBVIOUS
    <3>2. IsFiniteSet(A) /\ IsFiniteSet(B)
      BY <1>1, <1>2, <3>1
    <3>3. Cardinality(A \cup B) = Cardinality(A) + Cardinality(B) - Cardinality(A \cap B)
      BY <3>2, FS_Union
    <3>4. Cardinality(A \cap B) = 0
      BY <2>3, <3>1, FS_EmptySet
    <3> QED BY <2>2, <2>4, <3>1, <3>3, <3>4
  <2>6. Size(S) = s.count + Size(S \ {s})
    BY <1>2, <2>4, <2>5 DEF Size
  <2> QED BY <2>1, <2>6
<1>4. Size({}) = 0
  <2>1. Hidden(p, {}) = {}
    BY DEF Hidden
  <2> QED BY <2>1, FS_EmptySet DEF Size
<1> DEFINE Sums(f) == [S \in SUBSET St |-> IF S = {} THEN 0 ELSE First(S).count + f[S \ {First(S)}]]
           total == CHOOSE f : f = Sums(f)
<1>5. Sum(St) = total[St]
  BY DEF Sum, FoldSet, MapThenFoldSet
<1>6. total = Sums(total)
  <2> DEFINE g == [S \in SUBSET St |-> Size(S)]
  <2>1. \A S \in SUBSET St : S \ {First(S)} \in SUBSET St
    OBVIOUS
  <2>2. g = Sums(g)
    BY <1>3, <1>4, <2>1
  <2> QED BY <2>2
<1>7. \A S \in SUBSET St : total[S] = IF S = {} THEN 0 ELSE First(S).count + total[S \ {First(S)}]
  <2> HIDE DEF total
  <2> QED BY <1>6
<1> HIDE DEF total
<1>8. \A S \in SUBSET St : total[S] = Size(S)
  <2> SUFFICES ASSUME NEW S0 \in SUBSET St, total[S0] # Size(S0) PROVE FALSE
    OBVIOUS
  <2> DEFINE Wrong == {S \in SUBSET St : total[S] # Size(S)}
  <2>1. Wrong # {} /\ Wrong \subseteq FiniteSubsetsOf(St)
    <3>1. \A S \in SUBSET St : IsFiniteSet(S)
      BY <1>1, FS_Subset
    <3> QED BY <3>1 DEF FiniteSubsetsOf
  <2>2. IsWellFoundedOn(StrictSubsetOrdering(St), FiniteSubsetsOf(St))
    BY FS_StrictSubsetOrderingWellFounded
  <2>3. PICK S \in Wrong : \A T \in Wrong : <<T, S>> \notin StrictSubsetOrdering(St)
    BY <2>1, <2>2, WFMin
  <2>4. S \in SUBSET St /\ S # {}
    BY <1>4, <1>7, <2>3
  <2>5. First(S) \in S
    BY <2>4
  <2>6. S \ {First(S)} \in SUBSET St /\ <<S \ {First(S)}, S>> \in StrictSubsetOrdering(St)
    BY <2>4, <2>5 DEF StrictSubsetOrdering
  <2>7. total[S \ {First(S)}] = Size(S \ {First(S)})
    BY <2>3, <2>6
  <2> QED BY <1>3, <1>7, <2>3, <2>4, <2>7
<1> QED BY <1>5, <1>8 DEF Size, St

\* A tree that was fetched: each comment seen is accepted, rejected or behind a stub.
LEMMA TreeIsAccounted ==
  ASSUME NEW p \in Posts, NEW opened
  PROVE  /\ Visible(p) \subseteq Accepted(p, opened) \cup Malformed \cup Hidden(p, StubsLeft(p, opened))
         /\ Accepted(p, opened) = (Visible(p) \ Malformed) \ Hidden(p, StubsLeft(p, opened))
         /\ StubsLeft(p, opened) = {} <=> Hidden(p, StubsLeft(p, opened)) = {}
<1> DEFINE St == StubsLeft(p, opened)
           F == Folded \cap Visible(p)
<1>1. ASSUME NEW c \in Visible(p)
      PROVE  c \in Hidden(p, St) <=> ~(Above[c] \cap F \subseteq opened)
  <2>1. ASSUME NEW s \in St, s.head \in Above[c] PROVE ~(Above[c] \cap F \subseteq opened)
    BY <2>1, StubsAre DEF Heads
  <2>2. ASSUME NEW g \in Above[c] \cap F, g \notin opened PROVE \E s \in St : s.head \in Above[c]
    <3>0. c \in Comments
      BY DEF Visible
    <3>1. PICK h \in (Above[c] \cap F) \ opened : Above[h] \cap F \subseteq opened \cup {h}
      <4> HIDE DEF F
      <4> QED BY <2>2, <3>0, FirstFold
    <3>2. h \in Heads(p, opened)
      BY <3>1 DEF Heads
    <3> QED BY <3>1, <3>2, StubsAre
  <2> QED BY <2>1, <2>2 DEF Hidden
<1>2. \A c \in Visible(p) : Above[c] \cap Folded \cap Visible(p) = Above[c] \cap F
  OBVIOUS
<1>3. \A s \in St : s.head \in Hidden(p, St)
  <2>1. \A s \in St : s.head \in Visible(p) /\ s.head \in Comments
    BY StubsAre DEF Heads, Visible
  <2> QED BY <2>1, Lines DEF Hidden
<1> HIDE DEF F
<1>4. Accepted(p, opened) = (Visible(p) \ Malformed) \ Hidden(p, St)
  BY <1>1, <1>2 DEF Accepted
<1>5. St = {} <=> Hidden(p, St) = {}
  BY <1>3 DEF Hidden
<1> QED BY <1>4, <1>5

-----------------------------------------------------------------------------
(* What the tables say of a tree.                                           *)

\* The parts of TypeOK that IInv leaves out.
World == day \in 0 .. MaxDay /\ wire \in [Comments -> {"unborn", "up", "anon", "removed"}]
         /\ faults \in 0 .. MaxFaults

Stamps == [num : Nat, stage : Nat, next : Nat, fetched : BOOLEAN, captured : Nat,
           complete : BOOLEAN, hidden : Nat, bound : Bounds]

Rows ==
  /\ stored \subseteq Comments \ Malformed
  /\ author \in [Comments -> Authors \cup {Null}]
  /\ parentPk \in [Comments -> Comments \cup {Null}]
  /\ more \subseteq [post : Posts, head : Comments, count : Nat]
  /\ seen \in [Posts -> SUBSET Comments]

Prepared == [got : SUBSET Comments, named : SUBSET Comments, stubs : SUBSET Stubs,
             bound : Bounds, seen : SUBSET Comments]

\* The tree in hand is what one fetch of its post made of what Reddit showed.
TreeInHand ==
  \A p \in Posts : Writing(p) =>
    \E opened \in SUBSET Comments :
      /\ hand.got = Accepted(p, opened) /\ hand.stubs = StubsLeft(p, opened)
      /\ hand.seen = Visible(p) /\ (hand.bound = Null <=> hand.stubs = {})

\* EveryCommentAccounted, of one post.
Accounted(p) ==
  post[p].fetched =>
    /\ seen[p] \subseteq stored \cup Malformed \cup Behind(p)
    /\ post[p].hidden = Cardinality(Behind(p))
    /\ post[p].captured = Cardinality((seen[p] \ Malformed) \ Behind(p))
    /\ post[p].complete <=> Behind(p) = {}
    /\ post[p].complete <=> post[p].bound = Null

Books == /\ post \in [Posts -> Stamps] /\ Rows /\ hand \in Prepared /\ TreeInHand
         /\ \A p \in Posts : Accounted(p)

TInv == IInv /\ World /\ Books

\* A rung is a day.
LEMMA RungIsDay ==
  ASSUME NEW p \in Posts, NEW n \in Nat PROVE NextCheck(p, n) \in Nat
<1>1. Len(LadderDays) \in Nat \ {0} /\ \A i \in 1 .. Len(LadderDays) : LadderDays[i] \in Nat
  BY TreesAssumption
<1>2. Created[p] \in Nat
  BY TreesAssumption
<1>3. CASE n < Len(LadderDays)
  BY <1>1, <1>2, <1>3 DEF NextCheck, Rung
<1>4. CASE ~(n < Len(LadderDays))
  <2>1. PICK a \in Nat, b \in Nat : a = LadderDays[Len(LadderDays)] /\ b = n - Len(LadderDays) + 2
    BY <1>1, <1>4
  <2>2. a * b \in Nat
    OBVIOUS
  <2>3. Rung(n) = a * b
    BY <1>4, <2>1 DEF Rung
  <2> QED BY <1>2, <2>2, <2>3 DEF NextCheck
<1> QED BY <1>3, <1>4

\* The ladder's stamp has the shape of one.
LEMMA StampsAre ==
  ASSUME NEW p \in Posts, post \in [Posts -> Stamps]
  PROVE  Climbed(p) \in Stamps /\ Skipped(p) \in Stamps /\ ~Skipped(p).fetched
<1>1. post[p] \in Stamps /\ post[p].stage + 1 \in Nat
  BY DEF Stamps
<1>2. NextCheck(p, post[p].stage + 1) \in Nat
  BY <1>1, RungIsDay
<1>3. Climbed(p) \in Stamps
  BY <1>1, <1>2 DEF Climbed, Stamps
<1> HIDE DEF Climbed
<1>4. Skipped(p) \in Stamps /\ ~Skipped(p).fetched
  BY <1>3 DEF Skipped, Stamps, Bounds
<1> QED BY <1>3, <1>4

\* Days pass, comments come and go, and faults are counted.
LEMMA WorldKeeps ==
  ASSUME World, Next PROVE World'
<1> USE DEF World
<1>1. MaxDay \in Nat /\ MaxFaults \in Nat
  BY TreesAssumption
<1>2. CASE NextDay
  BY <1>1, <1>2 DEF NextDay
<1>3. CASE \E c \in Comments : Change(c)
  BY <1>3 DEF Change
<1>4. CASE Kill \/ Start \/ Work
  <2>1. UNCHANGED <<day, wire>> /\ (UNCHANGED faults \/ Fault)
    BY <1>4 DEF Kill, Start, StartStage, Work, Drained, Close, OnPost, OverCeiling, OutOfBudget,
                Stop, Skip, Fetch, FetchFails, FetchEnds, Commit, Refused, redditVars
  <2> QED BY <1>1, <2>1 DEF Fault
<1> QED BY <1>2, <1>3, <1>4 DEF Next

\* No tree in hand.
LEMMA NoTreeIs == NoTree \in Prepared
BY DEF NoTree, Prepared, Bounds

\* Of a post whose rows and stamp do not change, the same is said.
LEMMA AccountStands ==
  ASSUME NEW p \in Posts, Accounted(p), UNCHANGED <<stored, more, seen>>,
         /\ post'[p].fetched = post[p].fetched
         /\ post'[p].hidden = post[p].hidden /\ post'[p].captured = post[p].captured
         /\ post'[p].complete = post[p].complete /\ post'[p].bound = post[p].bound
  PROVE  Accounted(p)'
<1>1. Behind(p)' = Behind(p)
  BY DEF Behind
<1> QED BY <1>1 DEF Accounted

\* A step that leaves the tables alone and ends away from a tree.
LEMMA BooksStand ==
  ASSUME Books, phase' # "write", UNCHANGED tableVars, hand' \in {hand, NoTree} PROVE Books'
<1>1. Rows' /\ post' \in [Posts -> Stamps] /\ hand' \in Prepared
  BY NoTreeIs DEF Books, Rows, tableVars
<1>2. TreeInHand'
  BY DEF TreeInHand, Writing
<1>3. \A p \in Posts : Accounted(p)'
  BY AccountStands DEF Books, tableVars
<1> QED BY <1>1, <1>2, <1>3 DEF Books

\* The sweep of a run changes num_comments, and the next check of a new post.
LEMMA BooksBegin ==
  ASSUME Books, NEW swept \in SUBSET Posts, StartStage(swept) PROVE Books'
<1>1. /\ phase' = "stage" /\ UNCHANGED <<stored, author, parentPk, more, seen, hand>>
      /\ post' = [p \in Posts |->
               IF p \notin swept THEN post[p]
               ELSE [post[p] EXCEPT !.num = Cardinality(Visible(p)),
                                    !.next = IF p \in known THEN @ ELSE NextCheck(p, 0)]]
  BY DEF StartStage
<1>2. ASSUME NEW p \in Posts
      PROVE  /\ post'[p] \in Stamps /\ post'[p].fetched = post[p].fetched
             /\ post'[p].hidden = post[p].hidden /\ post'[p].captured = post[p].captured
             /\ post'[p].complete = post[p].complete /\ post'[p].bound = post[p].bound
  <2>1. post[p] \in Stamps
    BY DEF Books
  <2>2. Visible(p) \in SUBSET Comments
    BY DEF Visible
  <2>3. Cardinality(Visible(p)) \in Nat /\ NextCheck(p, 0) \in Nat
    BY <2>2, Finite, RungIsDay
  <2> QED BY <1>1, <2>1, <2>3 DEF Stamps
<1>3. Rows' /\ hand' \in Prepared /\ TreeInHand'
  BY <1>1 DEF Books, Rows, TreeInHand, Writing
<1>4. \A p \in Posts : Accounted(p)'
  BY <1>1, <1>2, AccountStands DEF Books
<1>5. post' \in [Posts -> Stamps]
  BY <1>1, <1>2
<1> QED BY <1>3, <1>4, <1>5 DEF Books

\* A post without comments loses the stamp of its last tree.
LEMMA BooksSkip ==
  ASSUME Books, NEW p \in Posts, Skip(p) PROVE Books'
<1>1. /\ phase' = "stage" /\ UNCHANGED <<stored, author, parentPk, more, seen, hand>>
      /\ post' = [post EXCEPT ![p] = Skipped(p)] /\ post \in [Posts -> Stamps]
  BY DEF Skip, IsNext, Books
<1>2. Skipped(p) \in Stamps /\ ~Skipped(p).fetched
  BY <1>1, StampsAre
<1>3. post' \in [Posts -> Stamps] /\ ~post'[p].fetched
      /\ \A q \in Posts \ {p} : post'[q] = post[q]
  BY <1>1, <1>2
<1>4. Rows' /\ hand' \in Prepared /\ TreeInHand'
  BY <1>1 DEF Books, Rows, TreeInHand, Writing
<1>5. ASSUME NEW q \in Posts PROVE Accounted(q)'
  <2>1. CASE q = p
    BY <1>3, <2>1 DEF Accounted
  <2>2. CASE q # p
    BY <1>1, <1>3, <2>2, AccountStands DEF Books
  <2> QED BY <2>1, <2>2
<1> QED BY <1>3, <1>4, <1>5 DEF Books

\* A fetch leaves the tables alone and a tree in hand.
LEMMA BooksFetch ==
  ASSUME IInv, Books, NEW p \in Posts, Fetch(p) PROVE Books'
<1>1. /\ \A q \in queue : q <= p
      /\ p \in queue /\ UNCHANGED <<redditVars, tableVars, queue>>
  BY DEF Fetch, IsNext
<1>2. PICK opened \in Opened(p, MoreLimitFor(Spendable(used))) :
        hand' = [got   |-> Accepted(p, opened),
                 named |-> {c \in Comments : wire[c] = "up"},
                 stubs |-> StubsLeft(p, opened),
                 bound |-> StopReason(StubsLeft(p, opened), Spendable(used)),
                 seen  |-> Visible(p)]
  BY DEF Fetch
<1>3. opened \in SUBSET Comments /\ Accepted(p, opened) \in SUBSET Comments
      /\ Visible(p) \in SUBSET Comments
  BY DEF Opened, Visible, Accepted
<1>4. StubsLeft(p, opened) \in SUBSET Stubs
  BY StubsAre
<1>5. /\ StopReason(StubsLeft(p, opened), Spendable(used)) \in Bounds
      /\ StopReason(StubsLeft(p, opened), Spendable(used)) = Null <=> StubsLeft(p, opened) = {}
  BY TreesAssumption DEF StopReason, Bounds
<1>6. hand' \in Prepared
  BY <1>2, <1>3, <1>4, <1>5 DEF Prepared
<1>7. TreeInHand'
  <2>1. ASSUME NEW q \in Posts, Writing(q)' PROVE q = p
    <3>1. q \in queue /\ \A r \in queue : r <= q
      BY <1>1, <2>1 DEF Writing
    <3>2. q <= p /\ p <= q /\ q \in Nat /\ p \in Nat
      BY <1>1, <3>1, TreesAssumption
    <3> QED BY <3>2
  <2>2. /\ Accepted(p, opened)' = Accepted(p, opened) /\ Visible(p)' = Visible(p)
        /\ StubsLeft(p, opened)' = StubsLeft(p, opened)
    BY <1>1 DEF Accepted, Visible, StubsLeft, redditVars
  <2>3. /\ hand'.got = Accepted(p, opened) /\ hand'.stubs = StubsLeft(p, opened)
        /\ hand'.seen = Visible(p) /\ (hand'.bound = Null <=> hand'.stubs = {})
    BY <1>2, <1>5
  <2> QED BY <1>3, <2>1, <2>2, <2>3 DEF TreeInHand
<1>8. Rows' /\ post' \in [Posts -> Stamps]
  BY <1>1 DEF Books, Rows, tableVars
<1>9. \A q \in Posts : Accounted(q)'
  BY <1>1, AccountStands DEF Books, tableVars
<1> QED BY <1>6, <1>7, <1>8, <1>9 DEF Books

\* The transaction of a tree replaces its stubs and stamps its numbers.
LEMMA BooksCommit ==
  ASSUME IInv, World, Books, NEW p \in Posts, Commit(p) PROVE Books'
<1>1. /\ Writing(p) /\ phase' = "stage" /\ hand' = NoTree
      /\ stored' = stored \cup hand.got
      /\ author' = [c \in Comments |-> IF c \notin hand.got THEN author[c]
                                       ELSE IF c \in hand.named THEN Author[c] ELSE Null]
      /\ more' = Replaced(p)
      /\ seen' = [seen EXCEPT ![p] = hand.seen]
  BY DEF Commit
<1>2. parentPk' = [c \in Comments |->
                    IF PostOf[c] = p /\ c \in stored' /\ parentPk[c] = Null /\ Parent[c] # Null
                       /\ Resolvable(p, c)
                    THEN Parent[c] ELSE parentPk[c]]
  BY DEF Commit
<1>3. post' = [post EXCEPT ![p] =
                [Climbed(p) EXCEPT !.fetched = TRUE, !.captured = Cardinality(hand.got),
                                   !.complete = hand.stubs = {},
                                   !.hidden = Sum(hand.stubs),
                                   !.bound = hand.bound]]
  BY DEF Commit, Sum
<1>4. PICK opened \in SUBSET Comments :
        /\ hand.got = Accepted(p, opened) /\ hand.stubs = StubsLeft(p, opened)
        /\ hand.seen = Visible(p) /\ (hand.bound = Null <=> hand.stubs = {})
  BY <1>1 DEF Books, TreeInHand
<1>5. hand \in Prepared /\ Rows /\ post \in [Posts -> Stamps]
  BY DEF Books
<1> DEFINE H == Hidden(p, hand.stubs)
<1>6. /\ Visible(p) \subseteq hand.got \cup Malformed \cup H
      /\ hand.got = (Visible(p) \ Malformed) \ H
      /\ hand.stubs = {} <=> H = {}
  BY <1>4, TreeIsAccounted
<1>7. Sum(hand.stubs) = Cardinality(H)
  BY <1>4, SumIsHidden
<1>8. H \in SUBSET Comments /\ Visible(p) \in SUBSET Comments
  BY DEF Hidden, Visible
<1>9. Cardinality(H) \in Nat /\ Cardinality(hand.got) \in Nat
  <2>1. hand.got \in SUBSET Comments
    BY <1>6, <1>8
  <2> QED BY <1>8, <2>1, Finite
<1>10. /\ seen' \in [Posts -> SUBSET Comments] /\ seen'[p] = Visible(p)
       /\ \A q \in Posts \ {p} : seen'[q] = seen[q]
  BY <1>1, <1>4, <1>5, <1>8 DEF Rows
<1>11. Behind(p)' = H
  <2>1. \A c : (\E m \in more' : m.post = p /\ m.head \in Above[c])
                 <=> (\E s \in hand.stubs : s.head \in Above[c])
    <3>1. \A m \in more' : m.post = p => \E s \in hand.stubs : m.head = s.head
      BY <1>1 DEF Replaced
    <3>2. ASSUME NEW s \in hand.stubs PROVE \E m \in more' : m.post = p /\ m.head = s.head
      <4> DEFINE m == [post |-> p, head |-> s.head, count |-> s.count]
      <4>1. m \in more' /\ m.post = p /\ m.head = s.head
        BY <1>1 DEF Replaced
      <4> QED BY <4>1
    <3> QED BY <3>1, <3>2
  <2> QED BY <1>10, <2>1 DEF Behind, Hidden
<1>12. \A q \in Posts \ {p} : Behind(q)' = Behind(q)
  <2>1. ASSUME NEW q \in Posts \ {p}, NEW m PROVE m \in more' /\ m.post = q <=> m \in more /\ m.post = q
    BY <1>1, <2>1 DEF Replaced
  <2> QED BY <1>10, <2>1 DEF Behind
<1>13. Climbed(p) \in Stamps
  BY <1>5, StampsAre
<1>14. /\ post' \in [Posts -> Stamps] /\ \A q \in Posts \ {p} : post'[q] = post[q]
       /\ post'[p].hidden = Cardinality(H) /\ post'[p].captured = Cardinality(hand.got)
       /\ post'[p].complete <=> hand.stubs = {}
       /\ post'[p].bound = hand.bound
  <2> HIDE DEF H
  <2> QED BY <1>3, <1>5, <1>7, <1>9, <1>13 DEF Stamps, Prepared
<1>15. Rows'
  <2>1. stored' \subseteq Comments \ Malformed
    BY <1>1, <1>5, <1>6, <1>8 DEF Rows
  <2>2. author' \in [Comments -> Authors \cup {Null}]
    BY <1>1, <1>5 DEF Rows, Authors
  <2>3. parentPk' \in [Comments -> Comments \cup {Null}]
    BY <1>2, <1>5, TreesAssumption DEF Rows
  <2>4. more' \subseteq [post : Posts, head : Comments, count : Nat]
    BY <1>1, <1>5 DEF Rows, Replaced, Prepared, Stubs
  <2> QED BY <1>10, <2>1, <2>2, <2>3, <2>4 DEF Rows
<1>16. TreeInHand' /\ hand' \in Prepared
  BY <1>1, NoTreeIs DEF TreeInHand, Writing
<1>17. Accounted(p)'
  <2>1. seen'[p] \subseteq stored' \cup Malformed \cup Behind(p)'
    BY <1>1, <1>6, <1>10, <1>11
  <2>2. hand.got = (seen'[p] \ Malformed) \ Behind(p)'
    BY <1>6, <1>10, <1>11
  <2> QED BY <1>4, <1>6, <1>11, <1>14, <2>1, <2>2 DEF Accounted
<1>18. ASSUME NEW q \in Posts \ {p} PROVE Accounted(q)'
  <2>1. Accounted(q) /\ stored \subseteq stored'
    BY <1>1 DEF Books
  <2> QED BY <1>10, <1>12, <1>14, <2>1 DEF Accounted
<1> QED BY <1>14, <1>15, <1>16, <1>17, <1>18 DEF Books

\* Every step keeps the books.
LEMMA BooksKeep == TInv /\ [Next]_vars => TInv'
<1> SUFFICES ASSUME TInv, [Next]_vars PROVE TInv'
  OBVIOUS
<1>1. IInv'
  BY Keeps DEF TInv
<1>2. CASE UNCHANGED vars
  <2>1. World' /\ Rows' /\ post' \in [Posts -> Stamps] /\ hand' \in Prepared
    BY <1>2 DEF TInv, World, Books, Rows, vars, redditVars, tableVars
  <2>2. TreeInHand'
    <3>1. \A p : Visible(p)' = Visible(p) /\ Writing(p)' = Writing(p)
      BY <1>2 DEF Visible, Writing, vars, redditVars, runVars
    <3>2. \A p, opened : /\ Accepted(p, opened)' = Accepted(p, opened)
                         /\ StubsLeft(p, opened)' = StubsLeft(p, opened)
      BY <3>1 DEF Accepted, StubsLeft
    <3>3. hand' = hand
      BY <1>2 DEF vars
    <3> QED BY <3>1, <3>2, <3>3 DEF TInv, Books, TreeInHand
  <2>3. \A p \in Posts : Accounted(p)'
    BY <1>2, AccountStands DEF TInv, Books, vars, tableVars
  <2> QED BY <1>1, <2>1, <2>2, <2>3 DEF TInv, Books
<1>3. CASE Next
  <2> USE DEF TInv
  <2>1. World'
    BY <1>3, WorldKeeps
  <2>2. CASE NextDay \/ Kill \/ Drained \/ Close \/ \E c \in Comments : Change(c)
    <3>1. phase' # "write" /\ UNCHANGED tableVars /\ hand' \in {hand, NoTree}
      BY <2>2 DEF NextDay, Kill, Drained, Close, Change
    <3> QED BY <1>1, <2>1, <3>1, BooksStand
  <2>3. CASE Start
    <3>1. PICK swept \in SUBSET Posts : StartStage(swept)
      BY <2>3 DEF Start
    <3> QED BY <1>1, <2>1, <3>1, BooksBegin
  <2>4. ASSUME NEW p \in Posts, OnPost(p) PROVE Books'
    <3>1. CASE OverCeiling(p) \/ OutOfBudget(p) \/ FetchFails(p) \/ FetchEnds(p) \/ Refused(p)
      <4>1. phase' # "write" /\ UNCHANGED tableVars /\ hand' \in {hand, NoTree}
        BY <3>1 DEF OverCeiling, OutOfBudget, Stop, FetchFails, FetchEnds, Refused, IsNext
      <4> QED BY <4>1, BooksStand
    <3> QED BY <2>4, <3>1, BooksSkip, BooksFetch, BooksCommit DEF OnPost
  <2> QED BY <1>1, <1>3, <2>1, <2>2, <2>3, <2>4 DEF Next, Work
<1> QED BY <1>2, <1>3

\* The books of an empty database.
LEMMA EmptyBooks == Init => TInv
<1> SUFFICES ASSUME Init PROVE TInv
  OBVIOUS
<1>1. NewPost \in Stamps /\ ~NewPost.fetched
  BY DEF NewPost, Stamps, Bounds
<1>2. post \in [Posts -> Stamps] /\ \A p \in Posts : Accounted(p)
  BY <1>1 DEF Init, Accounted
<1>3. Rows /\ hand \in Prepared /\ TreeInHand
  BY NoTreeIs DEF Init, Rows, TreeInHand, Writing
<1>4. World
  BY TreesAssumption DEF Init, World
<1> QED BY <1>2, <1>3, <1>4, Begins DEF TInv, Books

\* No comment of a tree that was read is lost in silence: it is stored, rejected, or counted
\* once by a stub of its post; the stamp's numbers are those of the rows; replies point to
\* their parents and no author's count lags.
THEOREM NothingIsLost == Spec => []StoreIsConsistent
<1>1. TInv => StoreIsConsistent
  <2> SUFFICES ASSUME TInv PROVE StoreIsConsistent
    OBVIOUS
  <2>1. TypeOK
    BY DEF TInv, IInv, Shape, World, Books, Rows, Stamps, Prepared, TypeOK
  <2>2. EveryCommentAccounted
    BY DEF TInv, IInv, Shape, Books, Accounted, EveryCommentAccounted
  <2> QED BY <2>1, <2>2 DEF TInv, IInv, StoreIsConsistent
<1> QED BY <1>1, EmptyBooks, BooksKeep, PTL DEF Spec
=============================================================================
