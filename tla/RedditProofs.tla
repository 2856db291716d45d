---------------------------- MODULE RedditProofs ----------------------------
(***************************************************************************)
(* What comes back from Reddit and from the fake that stands in for it,    *)
(* for any thread, any texts and any number of calls: a fetched comment    *)
(* tree hides nothing (TreeFetch), a look at the fake tells what was done  *)
(* to an item (FakeWorld), and its requests are charged and its failures   *)
(* raised as they were planted (FakeRequests).  None of the three is       *)
(* inductive.  The tree's needs where the rest of the thread is hidden at  *)
(* every moment of the walk, the item's what the world remembers of the    *)
(* payload it replaced, the requests' that each failure waits in the queue *)
(* it was planted for until nothing of it is left.                         *)
(***************************************************************************)
EXTENDS TreeFetch, FakeReddit, FiniteSetTheorems, SequenceTheorems, WellFoundedInduction, TLAPS

-----------------------------------------------------------------------------
(* Numbers, sums, sequences.                                                *)

\* Induction on the natural numbers, for a set of them.
LEMMA Induction ==
  ASSUME NEW S, 0 \in S, \A n \in Nat : n \in S => n + 1 \in S
  PROVE  Nat \subseteq S
<1> SUFFICES ASSUME NEW k \in Nat, k \notin S PROVE FALSE
  OBVIOUS
<1> DEFINE Below == {0 .. m : m \in Nat \ S}
<1>1. Below # {} /\ Below \subseteq FiniteSubsetsOf(Nat)
  <2>1. 0 .. k \in Below
    OBVIOUS
  <2>2. ASSUME NEW m \in Nat PROVE 0 .. m \in FiniteSubsetsOf(Nat)
    BY FS_Interval DEF FiniteSubsetsOf
  <2> QED BY <2>1, <2>2
<1>2. IsWellFoundedOn(StrictSubsetOrdering(Nat), FiniteSubsetsOf(Nat))
  BY FS_StrictSubsetOrderingWellFounded
<1>3. PICK X \in Below : \A Y \in Below : <<Y, X>> \notin StrictSubsetOrdering(Nat)
  BY <1>1, <1>2, WFMin
<1>4. PICK m \in Nat \ S : X = 0 .. m
  BY <1>3
<1>5. m # 0 /\ m - 1 \in Nat \ S
  BY <1>4
<1>6. <<0 .. m - 1, 0 .. m>> \in StrictSubsetOrdering(Nat)
  <2>1. 0 .. m - 1 \in SUBSET Nat /\ 0 .. m \in SUBSET Nat
    OBVIOUS
  <2>2. 0 .. m - 1 \subseteq 0 .. m /\ m \in 0 .. m /\ m \notin 0 .. m - 1
    BY <1>4
  <2> QED BY <2>1, <2>2 DEF StrictSubsetOrdering
<1> QED BY <1>3, <1>4, <1>5, <1>6


Total(s) == FoldSeq(LAMBDA m, n : m + n, 0, s)

\* f sums the terms of s over any set of indices, whichever index is taken off.
Sums(f, s) ==
  /\ f \in [SUBSET DOMAIN s -> Nat] /\ f[{}] = 0
  /\ \A S \in SUBSET DOMAIN s : \A x \in S : f[S] = s[x] + f[S \ {x}]

\* The numbers a sequence is counted with are finite.
LEMMA Indices ==
  ASSUME NEW n \in Nat
  PROVE  IsFiniteSet(1 .. n)
BY FS_Interval

\* What a sequence of numbers is made of.
LEMMA Terms ==
  ASSUME NEW s \in Seq(Nat)
  PROVE  Len(s) \in Nat /\ DOMAIN s = 1 .. Len(s) /\ IsFiniteSet(DOMAIN s) /\ \A i \in DOMAIN s : s[i] \in Nat
<1>1. Len(s) \in Nat /\ DOMAIN s = 1 .. Len(s)
  BY LenProperties
<1>2. \A i \in DOMAIN s : s[i] \in Nat
  BY <1>1, ElementOfSeq
<1>3. IsFiniteSet(1 .. Len(s))
  BY <1>1, Indices
<1> QED BY <1>1, <1>2, <1>3

\* The fold of a sequence of numbers is a function on the subsets of its indices, and any
\* index may be the one that is taken off.
LEMMA Totals ==
  ASSUME NEW s \in Seq(Nat)
  PROVE  \E f : Sums(f, s) /\ Total(s) = f[DOMAIN s]
<1> DEFINE D == DOMAIN s
           First(S) == CHOOSE x \in S : TRUE
           Round(f) == [S \in SUBSET D |-> IF S = {} THEN 0 ELSE s[First(S)] + f[S \ {First(S)}]]
           total == CHOOSE f : f = Round(f)
<1>1. Total(s) = total[D]
  BY DEF Total, FoldSeq, FoldFunction, FoldFunctionOnSet, MapThenFoldSet
<1>2. IsFiniteSet(D) /\ \A i \in D : s[i] \in Nat
  BY Terms
<1> HIDE DEF D
<1>4. ASSUME NEW S \in SUBSET D, NEW x \in S
      PROVE  /\ S \ {x} \in SUBSET D /\ s[x] \in Nat
             /\ Cardinality(S) \in Nat /\ Cardinality(S \ {x}) = Cardinality(S) - 1
  <2>1. IsFiniteSet(S)
    BY <1>2, FS_Subset
  <2> QED BY <1>2, <2>1, FS_RemoveElement, FS_CardinalityType
<1>5. \A S \in SUBSET D : IsFiniteSet(S) /\ Cardinality(S) \in Nat /\ (Cardinality(S) = 0 => S = {})
  BY <1>2, FS_Subset, FS_CardinalityType, FS_EmptySet
<1>6. ASSUME NEW S \in SUBSET D, S # {} PROVE First(S) \in S
  BY <1>6
<1> HIDE DEF First
\* There is such a function: one more round is right for sets larger by one.
<1> DEFINE Right(f, n) == \A S \in SUBSET D : Cardinality(S) <= n => f[S] = Round(f)[S]
           N == {n \in Nat : \E f \in [SUBSET D -> Nat] : Right(f, n)}
<1>7. 0 \in N
  <2> DEFINE f == [S \in SUBSET D |-> 0]
  <2>1. f \in [SUBSET D -> Nat]
    OBVIOUS
  <2>2. Right(f, 0)
    <3> SUFFICES ASSUME NEW S \in SUBSET D, Cardinality(S) <= 0 PROVE f[S] = Round(f)[S]
      OBVIOUS
    <3>1. S = {}
      BY <1>5
    <3> QED BY <3>1
  <2> QED BY <2>1, <2>2
<1>8. ASSUME NEW n \in Nat, n \in N PROVE n + 1 \in N
  <2>1. PICK f \in [SUBSET D -> Nat] : Right(f, n)
    BY <1>8
  <2> DEFINE g == Round(f)
  <2>2. g \in [SUBSET D -> Nat]
    <3>1. ASSUME NEW S \in SUBSET D, S # {} PROVE s[First(S)] + f[S \ {First(S)}] \in Nat
      <4>1. s[First(S)] \in Nat /\ S \ {First(S)} \in SUBSET D
        BY <1>4, <1>6, <3>1
      <4>2. f[S \ {First(S)}] \in Nat
        BY <2>1, <4>1
      <4> QED BY <4>1, <4>2
    <3> QED BY <3>1
  <2>3. Right(g, n + 1)
    <3> SUFFICES ASSUME NEW S \in SUBSET D, Cardinality(S) <= n + 1 PROVE g[S] = Round(g)[S]
      OBVIOUS
    <3>1. CASE S = {}
      BY <3>1
    <3>2. CASE S # {}
      <4>1. S \ {First(S)} \in SUBSET D /\ Cardinality(S \ {First(S)}) <= n
        BY <1>4, <1>6, <3>2
      <4>2. f[S \ {First(S)}] = g[S \ {First(S)}]
        BY <2>1, <4>1
      <4>3. g[S] = s[First(S)] + f[S \ {First(S)}]
        BY <3>2
      <4>4. Round(g)[S] = s[First(S)] + g[S \ {First(S)}]
        BY <3>2
      <4> QED BY <4>2, <4>3, <4>4
    <3> QED BY <3>1, <3>2
  <2> HIDE DEF g, Right
  <2> QED BY <2>2, <2>3
<1>9. Nat \subseteq N
  <2> HIDE DEF N
  <2> QED BY <1>7, <1>8, Induction
<1>10. PICK h \in [SUBSET D -> Nat] : Right(h, Cardinality(D))
  BY <1>5, <1>9
<1>11. \A S \in SUBSET D : Cardinality(S) <= Cardinality(D)
  BY <1>2, FS_Subset
<1>12. h = Round(h)
  <2>1. \A S \in SUBSET D : h[S] = Round(h)[S]
    BY <1>10, <1>11
  <2>2. h = [S \in SUBSET D |-> h[S]] /\ Round(h) = [S \in SUBSET D |-> Round(h)[S]]
    BY <1>10
  <2> HIDE DEF Round
  <2> QED BY <2>1, <2>2
<1>13. total = Round(total)
  <2> HIDE DEF Round
  <2> QED BY <1>12
<1> HIDE DEF total
<1>14. \A S \in SUBSET D : total[S] = IF S = {} THEN 0 ELSE s[First(S)] + total[S \ {First(S)}]
  BY <1>13
<1> HIDE DEF Round
\* Any index may come off.
<1> DEFINE Free(S) == total[S] \in Nat /\ \A x \in S : total[S] = s[x] + total[S \ {x}]
           M == {n \in Nat : \A S \in SUBSET D : Cardinality(S) <= n => Free(S)}
<1>15. 0 \in M
  <2> SUFFICES ASSUME NEW S \in SUBSET D, Cardinality(S) <= 0 PROVE Free(S)
    OBVIOUS
  <2>1. S = {}
    BY <1>5
  <2>2. total[S] = 0
    BY <1>14, <2>1
  <2> QED BY <2>1, <2>2
<1> HIDE DEF Free
<1>16. ASSUME NEW n \in Nat, n \in M PROVE n + 1 \in M
  <2> SUFFICES ASSUME NEW S \in SUBSET D, Cardinality(S) <= n + 1 PROVE Free(S)
    OBVIOUS
  <2>1. CASE S = {}
    <3>1. total[S] = 0
      BY <1>14, <2>1
    <3> QED BY <2>1, <3>1 DEF Free
  <2>2. CASE S # {}
    <3> DEFINE a == First(S)
               R == S \ {a}
    <3>1. a \in S /\ R \in SUBSET D /\ Cardinality(R) <= n /\ s[a] \in Nat
      <4>1. a \in S
        BY <2>2, <1>6
      <4>2. R \in SUBSET D /\ s[a] \in Nat /\ Cardinality(S) \in Nat /\ Cardinality(R) = Cardinality(S) - 1
        BY <4>1, <1>4
      <4> HIDE DEF R, a
      <4> QED BY <4>1, <4>2
    <3>2. Free(R)
      <4> HIDE DEF R
      <4> QED BY <1>16, <3>1
    <3>3. total[S] = s[a] + total[R]
      BY <1>14, <2>2
    <3>4. total[S] \in Nat
      <4> HIDE DEF R, a
      <4> QED BY <3>1, <3>2, <3>3 DEF Free
    <3>5. ASSUME NEW x \in S PROVE total[S] = s[x] + total[S \ {x}]
      <4>1. CASE x = a
        BY <3>3, <4>1
      <4>2. CASE x # a
        <5> DEFINE T == S \ {x}
        <5>1. x \in R /\ a \in T /\ R \ {x} = T \ {a} /\ T \in SUBSET D
          BY <3>1, <4>2
        <5>2. Cardinality(T) <= n /\ s[x] \in Nat
          <6>1. s[x] \in Nat /\ Cardinality(S) \in Nat /\ Cardinality(T) = Cardinality(S) - 1
            BY <1>4
          <6> HIDE DEF T
          <6> QED BY <6>1
        <5>3. Free(T)
          <6> HIDE DEF T
          <6> QED BY <1>16, <5>1, <5>2
        <5>4. total[R] = s[x] + total[R \ {x}] /\ total[T] = s[a] + total[T \ {a}]
          <6> HIDE DEF T, R, a
          <6> QED BY <3>2, <5>1, <5>3 DEF Free
        <5>5. total[R \ {x}] \in Nat
          <6>1. Cardinality(R \ {x}) <= n /\ R \ {x} \in SUBSET D
            <7> HIDE DEF R
            <7> QED BY <1>4, <3>1, <5>1
          <6> HIDE DEF R
          <6>2. Free(R \ {x})
            BY <1>16, <6>1
          <6> QED BY <6>2 DEF Free
        <5> HIDE DEF T, R, a
        <5>6. PICK u \in Nat, v \in Nat, w \in Nat : u = s[x] /\ v = s[a] /\ w = total[R \ {x}]
          BY <3>1, <5>2, <5>5
        <5>7. total[S] = v + (u + w) /\ total[T] = v + w
          BY <3>3, <5>1, <5>4, <5>6
        <5>8. total[S] = u + total[T]
          BY <5>7
        <5> QED BY <5>6, <5>8 DEF T
      <4> QED BY <4>1, <4>2
    <3> QED BY <3>4, <3>5 DEF Free
  <2> QED BY <2>1, <2>2
<1>17. Nat \subseteq M
  <2> HIDE DEF M
  <2> QED BY <1>15, <1>16, Induction
<1>18. \A S \in SUBSET D : Free(S)
  <2> SUFFICES ASSUME NEW S \in SUBSET D PROVE Free(S)
    OBVIOUS
  <2>1. Cardinality(S) \in M
    <3> HIDE DEF M
    <3> QED BY <1>5, <1>17
  <2> QED BY <2>1, <1>5
<1> DEFINE g == [S \in SUBSET D |-> total[S]]
<1>19. g \in [SUBSET D -> Nat] /\ g[{}] = 0 /\ g[D] = Total(s)
  BY <1>1, <1>14, <1>18 DEF Free
<1>20. \A S \in SUBSET D : \A x \in S : g[S] = s[x] + g[S \ {x}]
  BY <1>18 DEF Free
<1> HIDE DEF g
<1> QED BY <1>19, <1>20 DEF D, Sums

\* Sums over indices with the same terms are the same.
LEMMA SameTotals ==
  ASSUME NEW s \in Seq(Nat), NEW t \in Seq(Nat),
         NEW f, NEW g, Sums(f, s), Sums(g, t), NEW E, E \subseteq DOMAIN s, E \subseteq DOMAIN t, \A x \in E : s[x] = t[x]
  PROVE  f[E] = g[E]
<1>1. IsFiniteSet(E)
  BY Terms, FS_Subset
<1> DEFINE M == {n \in Nat : \A S \in SUBSET E : Cardinality(S) <= n => f[S] = g[S]}
<1>2. 0 \in M
  <2> SUFFICES ASSUME NEW S \in SUBSET E, Cardinality(S) <= 0 PROVE f[S] = g[S]
    OBVIOUS
  <2>1. S = {}
    BY <1>1, FS_Subset, FS_CardinalityType, FS_EmptySet
  <2> QED BY <2>1 DEF Sums
<1>3. ASSUME NEW n \in Nat, n \in M PROVE n + 1 \in M
  <2> SUFFICES ASSUME NEW S \in SUBSET E, Cardinality(S) <= n + 1 PROVE f[S] = g[S]
    OBVIOUS
  <2>1. CASE S = {}
    BY <2>1 DEF Sums
  <2>2. CASE S # {}
    <3>1. PICK x : x \in S
      BY <2>2
    <3>2. IsFiniteSet(S) /\ Cardinality(S) \in Nat /\ Cardinality(S \ {x}) = Cardinality(S) - 1
      <4>1. IsFiniteSet(S)
        BY <1>1, FS_Subset
      <4> QED BY <3>1, <4>1, FS_RemoveElement, FS_CardinalityType
    <3>3. f[S \ {x}] = g[S \ {x}]
      <4>1. S \ {x} \in SUBSET E /\ Cardinality(S \ {x}) <= n
        BY <3>2
      <4> QED BY <4>1, <1>3
    <3>4. f[S] = s[x] + f[S \ {x}] /\ g[S] = t[x] + g[S \ {x}] /\ s[x] = t[x]
      BY <3>1 DEF Sums
    <3> QED BY <3>3, <3>4
  <2> QED BY <2>1, <2>2
<1>4. Nat \subseteq M
  <2> HIDE DEF M
  <2> QED BY <1>2, <1>3, Induction
<1>5. Cardinality(E) \in M /\ Cardinality(E) <= Cardinality(E)
  <2>1. Cardinality(E) \in Nat
    BY <1>1, FS_CardinalityType
  <2> HIDE DEF M
  <2> QED BY <1>4, <2>1
<1> QED BY <1>5

\* One more term, and one term that grows.
LEMMA TotalAppend ==
  ASSUME NEW s \in Seq(Nat), NEW v \in Nat
  PROVE  Total(s) \in Nat /\ Total(Append(s, v)) = Total(s) + v
<1> DEFINE t == Append(s, v)
<1>1. t \in Seq(Nat) /\ Len(s) \in Nat /\ DOMAIN s = 1 .. Len(s) /\ DOMAIN t = 1 .. Len(s) + 1
      /\ t[Len(s) + 1] = v /\ \A i \in 1 .. Len(s) : t[i] = s[i]
  BY AppendProperties, LenProperties
<1> HIDE DEF t
<1>2. PICK f : Sums(f, s) /\ Total(s) = f[DOMAIN s]
  BY Totals
<1>3. PICK g : Sums(g, t) /\ Total(t) = g[DOMAIN t]
  BY <1>1, Totals
<1>4. f[DOMAIN s] = g[DOMAIN s]
  <2>1. DOMAIN s \subseteq DOMAIN s /\ DOMAIN s \subseteq DOMAIN t /\ \A x \in DOMAIN s : s[x] = t[x]
    BY <1>1
  <2>2. t \in Seq(Nat) /\ Sums(f, s) /\ Sums(g, t)
    BY <1>1, <1>2, <1>3
  <2> QED BY <2>1, <2>2, SameTotals
<1>5. Len(s) + 1 \in DOMAIN t /\ DOMAIN t \ {Len(s) + 1} = DOMAIN s
  BY <1>1
<1>6. g[DOMAIN t] = v + g[DOMAIN s]
  <2>1. g[DOMAIN t] = t[Len(s) + 1] + g[DOMAIN t \ {Len(s) + 1}]
    BY <1>3, <1>5 DEF Sums
  <2> QED BY <2>1, <1>1, <1>5
<1>7. f[DOMAIN s] \in Nat
  BY <1>2 DEF Sums
<1> QED BY <1>2, <1>3, <1>4, <1>6, <1>7 DEF t

\* A term that grows by v adds v to the sum.
LEMMA TotalGrows ==
  ASSUME NEW s \in Seq(Nat), NEW i \in DOMAIN s, NEW v \in Nat
  PROVE  Total([s EXCEPT ![i] = @ + v]) = Total(s) + v
<1> DEFINE t == [s EXCEPT ![i] = @ + v]
<1>1. t \in Seq(Nat) /\ DOMAIN t = DOMAIN s /\ t[i] = s[i] + v /\ s[i] \in Nat
      /\ \A j \in DOMAIN s \ {i} : t[j] = s[j]
  <2>1. Len(s) \in Nat /\ DOMAIN s = 1 .. Len(s) /\ \A j \in DOMAIN s : s[j] \in Nat
    BY LenProperties, ElementOfSeq
  <2>2. t \in [1 .. Len(s) -> Nat]
    BY <2>1
  <2>3. t \in Seq(Nat)
    BY <2>1, <2>2, IsASeq
  <2> QED BY <2>1, <2>3
<1> HIDE DEF t
<1>2. PICK f : Sums(f, s) /\ Total(s) = f[DOMAIN s]
  BY Totals
<1>3. PICK g : Sums(g, t) /\ Total(t) = g[DOMAIN t]
  BY <1>1, Totals
<1> DEFINE E == DOMAIN s \ {i}
<1>4. f[E] = g[E]
  <2>1. E \subseteq DOMAIN s /\ E \subseteq DOMAIN t /\ \A x \in E : s[x] = t[x]
    BY <1>1
  <2>2. t \in Seq(Nat) /\ Sums(f, s) /\ Sums(g, t)
    BY <1>1, <1>2, <1>3
  <2> HIDE DEF E
  <2> QED BY <2>1, <2>2, SameTotals
<1>5. f[DOMAIN s] = s[i] + f[E] /\ g[DOMAIN t] = (s[i] + v) + g[E] /\ f[E] \in Nat
  <2>1. f[DOMAIN s] = s[i] + f[E] /\ E \in SUBSET DOMAIN s
    BY <1>2 DEF Sums
  <2>2. g[DOMAIN t] = t[i] + g[DOMAIN t \ {i}]
    BY <1>1, <1>3 DEF Sums
  <2>3. f[E] \in Nat
    BY <1>2, <2>1 DEF Sums
  <2> QED BY <1>1, <2>1, <2>2, <2>3
<1> HIDE DEF E
<1>6. PICK x \in Nat, y \in Nat : x = s[i] /\ y = f[E]
  BY <1>1, <1>5
<1>7. Total(s) = x + y /\ Total(t) = (x + v) + y
  BY <1>2, <1>3, <1>4, <1>5, <1>6
<1>8. Total(t) = Total(s) + v
  BY <1>7
<1> QED BY <1>8 DEF t

\* A function on the first n numbers is a sequence of n.
LEMMA SeqFrom ==
  ASSUME NEW S, NEW n \in Nat, NEW s \in [1 .. n -> S]
  PROVE  s \in Seq(S) /\ Len(s) = n
<1>1. s \in Seq(S)
  BY IsASeq
<1>2. Len(s) \in Nat /\ 1 .. Len(s) = 1 .. n
  BY <1>1, LenProperties
<1>3. PICK m \in Nat : m = Len(s)
  BY <1>2
<1>4. m = n
  BY <1>2, <1>3
<1> QED BY <1>1, <1>3, <1>4

-----------------------------------------------------------------------------
(* Comment trees.  A thread ends, so what a reply inherits from the comment *)
(* above it holds of all (ThreadInduction); no recursion is left after that.*)

\* What a reply inherits from the comment it replies to holds of all comments.
LEMMA ThreadInduction ==
  ASSUME NEW S, \A c \in Comments : (ReplyTo[c] = 0 \/ ReplyTo[c] \in S) => c \in S
  PROVE  Comments \subseteq S
<1> DEFINE N == {n \in Nat : \A c \in Comments : c < n => c \in S}
<1>1. 0 \in N
  BY TreeFetchAssumption
<1>2. ASSUME NEW n \in Nat, n \in N PROVE n + 1 \in N
  <2> SUFFICES ASSUME NEW c \in Comments, c < n + 1 PROVE c \in S
    OBVIOUS
  <2>1. ReplyTo[c] \in Comments \cup {0} /\ ReplyTo[c] < c /\ c \in Nat /\ ReplyTo[c] \in Nat
    <3>1. ReplyTo[c] \in Comments \cup {0} /\ ReplyTo[c] < c
      BY TreeFetchAssumption
    <3>2. Comments \subseteq Nat /\ 0 \in Nat
      BY TreeFetchAssumption
    <3> QED BY <3>1, <3>2
  <2>2. ReplyTo[c] = 0 \/ ReplyTo[c] \in S
    BY <1>2, <2>1
  <2> QED BY <2>2
<1>3. Nat \subseteq N
  <2> HIDE DEF N
  <2> QED BY <1>1, <1>2, Induction
<1>4. \A c \in Comments : c + 1 \in Nat /\ c < c + 1
  BY TreeFetchAssumption
<1> QED BY <1>3, <1>4

\* Above is what its definition says: there is such a function, the set of the comments
\* that every set closed under ReplyTo contains with c.
LEMMA AboveIs ==
  ASSUME NEW c \in Comments
  PROVE  Above[c] = {c} \cup (IF ReplyTo[c] = 0 THEN {} ELSE Above[ReplyTo[c]])
<1> DEFINE Whole(S) == \A e \in S : ReplyTo[e] # 0 => ReplyTo[e] \in S
           R == [e \in Comments |-> {d \in Comments : \A S \in SUBSET Comments : e \in S /\ Whole(S) => d \in S}]
<1>0. \A e \in Comments : ReplyTo[e] # 0 => ReplyTo[e] \in Comments
  BY TreeFetchAssumption
<1>1. ASSUME NEW e \in Comments
      PROVE  R[e] = {e} \cup (IF ReplyTo[e] = 0 THEN {} ELSE R[ReplyTo[e]])
  <2>1. CASE ReplyTo[e] = 0
    <3>1. {e} \in SUBSET Comments /\ Whole({e})
      BY <2>1
    <3>2. R[e] \subseteq {e}
      BY <3>1
    <3>3. e \in R[e]
      OBVIOUS
    <3> QED BY <2>1, <3>2, <3>3
  <2>2. CASE ReplyTo[e] # 0
    <3>1. ReplyTo[e] \in Comments
      BY <2>2, <1>0
    <3>2. Whole(R[ReplyTo[e]]) /\ ReplyTo[e] \in R[ReplyTo[e]] /\ R[ReplyTo[e]] \in SUBSET Comments
      BY <3>1, <1>0
    <3>3. {e} \cup R[ReplyTo[e]] \in SUBSET Comments /\ Whole({e} \cup R[ReplyTo[e]])
      BY <3>2
    <3>4. R[e] \subseteq {e} \cup R[ReplyTo[e]]
      BY <3>3
    <3>5. R[ReplyTo[e]] \subseteq R[e]
      BY <2>2, <3>1
    <3>6. e \in R[e]
      OBVIOUS
    <3> QED BY <2>2, <3>4, <3>5, <3>6
  <2> QED BY <2>1, <2>2
<1>2. R = [e \in Comments |-> {e} \cup (IF ReplyTo[e] = 0 THEN {} ELSE R[ReplyTo[e]])]
  <2>1. R = [e \in Comments |-> R[e]]
    OBVIOUS
  <2> HIDE DEF R
  <2> QED BY <1>1, <2>1
<1>3. Above = CHOOSE f : f = [e \in Comments |-> {e} \cup (IF ReplyTo[e] = 0 THEN {} ELSE f[ReplyTo[e]])]
  BY DEF Above
<1>4. Above = [e \in Comments |-> {e} \cup (IF ReplyTo[e] = 0 THEN {} ELSE Above[ReplyTo[e]])]
  <2> HIDE DEF R
  <2> QED BY <1>2, <1>3
<1> QED BY <1>4

\* The comments above one are older, in a line, each with all that is above it; and no two
\* of them reply to the same.
LEMMA Lines ==
  ASSUME NEW c \in Comments
  PROVE  /\ Above[c] \subseteq Comments /\ c \in Above[c]
         /\ \A d \in Above[c] : d <= c /\ Above[d] \subseteq Above[c]
         /\ \A d, e \in Above[c] : ReplyTo[d] = ReplyTo[e] => d = e
<1> DEFINE Fine(e) == /\ Above[e] \subseteq Comments /\ e \in Above[e]
                      /\ \A d \in Above[e] : d <= e /\ Above[d] \subseteq Above[e]
                      /\ \A d, f \in Above[e] : d \in Above[f] \/ f \in Above[d]
           S == {e \in Comments : Fine(e)}
<1>1. ASSUME NEW e \in Comments, ReplyTo[e] = 0 \/ ReplyTo[e] \in S PROVE e \in S
  <2>0. e \in Nat /\ Comments \subseteq Nat /\ ReplyTo[e] < e
    BY TreeFetchAssumption
  <2>1. CASE ReplyTo[e] = 0
    <3>1. Above[e] = {e}
      BY <2>1, AboveIs
    <3> QED BY <3>1, <2>0
  <2>2. CASE ReplyTo[e] # 0
    <3>1. Above[e] = {e} \cup Above[ReplyTo[e]] /\ Fine(ReplyTo[e]) /\ ReplyTo[e] \in Comments
      BY <1>1, <2>2, AboveIs
    <3>3. \A d \in Above[ReplyTo[e]] : Above[d] \subseteq Above[e] /\ d <= e
      BY <3>1, <2>0
    <3>4. \A d, f \in Above[e] : d \in Above[f] \/ f \in Above[d]
      BY <3>1
    <3>5. e <= e
      BY <2>0
    <3> QED BY <3>1, <3>3, <3>4, <3>5
  <2> QED BY <2>1, <2>2
<1>2. Comments \subseteq S
  <2> HIDE DEF S
  <2> QED BY <1>1, ThreadInduction
<1>3. Fine(c)
  BY <1>2
<1>4. ASSUME NEW d \in Comments, NEW e \in Comments, ReplyTo[d] = ReplyTo[e], d \in Above[e]
      PROVE  d = e
  <2>1. CASE ReplyTo[e] = 0
    BY <1>4, <2>1, AboveIs
  <2>2. CASE ReplyTo[e] # 0
    <3>1. d = e \/ d \in Above[ReplyTo[d]]
      BY <1>4, <2>2, AboveIs
    <3>2. ReplyTo[d] \in Comments /\ ReplyTo[d] < d /\ d \in Nat /\ ReplyTo[d] \in Nat
      BY <1>4, <2>2, TreeFetchAssumption
    <3>3. \A f \in Above[ReplyTo[d]] : f <= ReplyTo[d]
      BY <1>2, <3>2
    <3>4. ~(d <= ReplyTo[d])
      BY <3>2
    <3> QED BY <3>1, <3>3, <3>4
  <2> QED BY <2>1, <2>2
<1>5. \A d, e \in Above[c] : ReplyTo[d] = ReplyTo[e] => d = e
  BY <1>3, <1>4
<1> QED BY <1>3, <1>5

\* So is Depth: one less than the number of those above.
LEMMA DepthIs ==
  ASSUME NEW c \in Comments
  PROVE  /\ Depth[c] = IF ReplyTo[c] = 0 THEN 0 ELSE 1 + Depth[ReplyTo[c]]
         /\ Depth[c] \in Nat
<1> DEFINE R == [e \in Comments |-> Cardinality(Above[e]) - 1]
<1>1. ASSUME NEW e \in Comments
      PROVE  R[e] = (IF ReplyTo[e] = 0 THEN 0 ELSE 1 + R[ReplyTo[e]]) /\ R[e] \in Nat
  <2>1. IsFiniteSet(Above[e]) /\ e \in Above[e] /\ Cardinality(Above[e]) \in Nat
    <3>1. Above[e] \in SUBSET Comments /\ e \in Above[e]
      BY Lines
    <3>2. IsFiniteSet(Above[e])
      BY <3>1, TreeFetchAssumption, FS_Subset
    <3> QED BY <3>1, <3>2, FS_CardinalityType
  <2>2. Cardinality(Above[e]) # 0
    BY <2>1, FS_EmptySet
  <2>3. CASE ReplyTo[e] = 0
    <3>1. Above[e] = {e}
      BY <2>3, AboveIs
    <3>2. Cardinality({e}) = 1
      BY FS_Singleton
    <3> QED BY <2>3, <3>1, <3>2
  <2>4. CASE ReplyTo[e] # 0
    <3>1. /\ ReplyTo[e] \in Comments /\ ReplyTo[e] < e /\ e \in Nat /\ ReplyTo[e] \in Nat
      BY <2>4, TreeFetchAssumption
    <3>2. Above[e] = Above[ReplyTo[e]] \cup {e}
      BY <2>4, AboveIs
    <3>3. e \notin Above[ReplyTo[e]]
      <4>1. ~(e <= ReplyTo[e])
        BY <3>1
      <4> QED BY <3>1, <4>1, Lines
    <3>4. IsFiniteSet(Above[ReplyTo[e]])
      BY <2>1, <3>2, FS_Subset
    <3>5. PICK U : U = Above[ReplyTo[e]]
      OBVIOUS
    <3>6. Cardinality(U \cup {e}) = Cardinality(U) + 1 /\ Cardinality(U) \in Nat
      BY <3>3, <3>4, <3>5, FS_AddElement, FS_CardinalityType
    <3>7. Cardinality(Above[e]) = Cardinality(Above[ReplyTo[e]]) + 1 /\ Cardinality(Above[ReplyTo[e]]) \in Nat
      BY <3>2, <3>5, <3>6
    <3> QED BY <2>4, <3>1, <3>7
  <2> QED BY <2>1, <2>2, <2>3, <2>4
<1>2. R = [e \in Comments |-> IF ReplyTo[e] = 0 THEN 0 ELSE 1 + R[ReplyTo[e]]]
  <2>1. R = [e \in Comments |-> R[e]]
    OBVIOUS
  <2> HIDE DEF R
  <2> QED BY <1>1, <2>1
<1>3. Depth = CHOOSE f : f = [e \in Comments |-> IF ReplyTo[e] = 0 THEN 0 ELSE 1 + f[ReplyTo[e]]]
  BY DEF Depth
<1>4. Depth = [e \in Comments |-> IF ReplyTo[e] = 0 THEN 0 ELSE 1 + Depth[ReplyTo[e]]]
  <2> HIDE DEF R
  <2> QED BY <1>2, <1>3
<1>5. \A e \in Comments : Depth[e] = IF ReplyTo[e] = 0 THEN 0 ELSE 1 + Depth[ReplyTo[e]]
  BY <1>4
<1>6. Depth[c] \in Nat
  <2> DEFINE S == {e \in Comments : Depth[e] \in Nat}
  <2>1. ASSUME NEW e \in Comments, ReplyTo[e] = 0 \/ ReplyTo[e] \in S PROVE e \in S
    <3>1. ReplyTo[e] # 0 => Depth[ReplyTo[e]] \in Nat
      BY <2>1
    <3> QED BY <1>5, <3>1
  <2>2. Comments \subseteq S
    <3> HIDE DEF S
    <3> QED BY <2>1, ThreadInduction
  <2> QED BY <2>2
<1> QED BY <1>5, <1>6

-----------------------------------------------------------------------------
(* Sequences.                                                               *)

Distinct(s) == \A i, j \in DOMAIN s : s[i] = s[j] => i = j

\* The numbers of a set in order: each once.
LEMMA Ranked ==
  ASSUME NEW S, IsFiniteSet(S), S \subseteq Nat
  PROVE  /\ InOrder(S) \in Seq(S) /\ ToSet(InOrder(S)) = S /\ Distinct(InOrder(S))
         /\ Len(InOrder(S)) = Cardinality(S)
<1> DEFINE n == Cardinality(S)
           rank(c) == Cardinality({d \in S : d < c})
           f == [c \in S |-> rank(c)]
<1>1. n \in Nat
  BY FS_CardinalityType
<1>2. ASSUME NEW c \in S PROVE rank(c) \in 0 .. n - 1
  <2> DEFINE L == {d \in S : d < c}
  <2>1. L \in SUBSET S /\ c \notin L
    OBVIOUS
  <2>2. IsFiniteSet(L) /\ Cardinality(L) <= n /\ Cardinality(L) # n
    BY <2>1, FS_Subset
  <2>3. Cardinality(L) \in Nat
    BY <2>2, FS_CardinalityType
  <2> QED BY <1>1, <2>2, <2>3
<1>3. ASSUME NEW c \in S, NEW d \in S, c < d PROVE rank(c) < rank(d)
  <2> DEFINE L(e) == {k \in S : k < e}
  <2>1. L(c) \in SUBSET L(d) /\ c \in L(d) /\ c \notin L(c)
    <3>1. \A k \in S : k < c => k < d
      BY <1>3
    <3>2. ~(c < c)
      OBVIOUS
    <3> QED BY <1>3, <3>1, <3>2
  <2>2. IsFiniteSet(L(d))
    BY FS_Subset
  <2>3. IsFiniteSet(L(c)) /\ Cardinality(L(c)) <= Cardinality(L(d)) /\ Cardinality(L(c)) # Cardinality(L(d))
    BY <2>1, <2>2, FS_Subset
  <2>4. Cardinality(L(c)) \in Nat /\ Cardinality(L(d)) \in Nat
    BY <2>2, <2>3, FS_CardinalityType
  <2> QED BY <2>3, <2>4
<1>4. \A c, d \in S : rank(c) = rank(d) => c = d
  <2> SUFFICES ASSUME NEW c \in S, NEW d \in S, rank(c) = rank(d), c # d PROVE FALSE
    OBVIOUS
  <2>1. c < d \/ d < c
    OBVIOUS
  <2>2. rank(c) \in Nat /\ rank(d) \in Nat
    BY <1>1, <1>2
  <2> QED BY <1>3, <2>1, <2>2
<1>5. \A k \in 0 .. n - 1 : \E c \in S : rank(c) = k
  <2>1. f \in Injection(S, 0 .. n - 1)
    <3>1. f \in [S -> 0 .. n - 1]
      BY <1>2
    <3>2. \A c, d \in S : f[c] = f[d] => c = d
      BY <1>4
    <3> HIDE DEF f, n
    <3> QED BY <3>1, <3>2 DEF Injection, IsInjective
  <2>2. IsFiniteSet(0 .. n - 1) /\ Cardinality(0 .. n - 1) = n
    <3>1. n - 1 \in Int /\ (0 > n - 1 => n = 0) /\ n - 1 - 0 + 1 = n
      BY <1>1
    <3> QED BY <3>1, FS_Interval
  <2>3. f \in Surjection(S, 0 .. n - 1)
    <3> HIDE DEF f
    <3> QED BY <2>1, <2>2, FS_Injection
  <2>4. \A k \in 0 .. n - 1 : \E c \in S : f[c] = k
    <3> HIDE DEF f
    <3> QED BY <2>3 DEF Surjection
  <2> QED BY <2>4
<1> DEFINE at(i) == CHOOSE c \in S : rank(c) = i - 1
<1> HIDE DEF rank, n
<1>6. \A i \in 1 .. n : i - 1 \in 0 .. n - 1
  BY <1>1
<1>7. \A i \in 1 .. n : at(i) \in S /\ rank(at(i)) = i - 1
  BY <1>5, <1>6
<1>8. \A c \in S : rank(c) + 1 \in 1 .. n /\ at(rank(c) + 1) = c
  <2> SUFFICES ASSUME NEW c \in S PROVE rank(c) + 1 \in 1 .. n /\ at(rank(c) + 1) = c
    OBVIOUS
  <2> DEFINE i == rank(c) + 1
  <2>1. i \in 1 .. n /\ i - 1 = rank(c)
    BY <1>1, <1>2
  <2> HIDE DEF i, at
  <2>2. rank(at(i)) = rank(c) /\ at(i) \in S
    BY <1>7, <2>1
  <2>3. at(i) = c
    BY <1>4, <2>2
  <2> QED BY <2>1, <2>3 DEF i
<1>9. InOrder(S) = [i \in 1 .. n |-> at(i)]
  BY DEF InOrder, rank, n
<1> HIDE DEF at
<1>10. InOrder(S) \in Seq(S) /\ Len(InOrder(S)) = n /\ DOMAIN InOrder(S) = 1 .. n
  BY <1>1, <1>7, <1>9
<1>11. ToSet(InOrder(S)) = S
  <2>1. \A i \in 1 .. n : InOrder(S)[i] = at(i)
    BY <1>9
  <2>2. ToSet(InOrder(S)) \subseteq S
    BY <1>7, <1>10, <2>1 DEF ToSet
  <2>3. ASSUME NEW c \in S PROVE \E i \in DOMAIN InOrder(S) : InOrder(S)[i] = c
    BY <1>8, <1>10, <2>1
  <2> QED BY <2>2, <2>3 DEF ToSet
<1>12. Distinct(InOrder(S))
  <2> SUFFICES ASSUME NEW i \in 1 .. n, NEW j \in 1 .. n, at(i) = at(j) PROVE i = j
    BY <1>9, <1>10 DEF Distinct
  <2>1. i - 1 = j - 1
    BY <1>7
  <2> QED BY <1>1, <2>1
<1> QED BY <1>10, <1>11, <1>12 DEF n

\* One sequence after another.
LEMMA Joined ==
  ASSUME NEW T, NEW s \in Seq(T), NEW t \in Seq(T)
  PROVE  /\ s \o t \in Seq(T) /\ ToSet(s \o t) = ToSet(s) \cup ToSet(t)
         /\ Distinct(s) /\ Distinct(t) /\ ToSet(s) \cap ToSet(t) = {} => Distinct(s \o t)
<1>1. /\ s \o t \in Seq(T) /\ Len(s \o t) = Len(s) + Len(t) /\ Len(s) \in Nat /\ Len(t) \in Nat
      /\ \A i \in 1 .. Len(s) + Len(t) : (s \o t)[i] = IF i <= Len(s) THEN s[i] ELSE t[i - Len(s)]
  BY ConcatProperties
<1>2. DOMAIN s = 1 .. Len(s) /\ DOMAIN t = 1 .. Len(t) /\ DOMAIN (s \o t) = 1 .. Len(s) + Len(t)
  BY <1>1, LenProperties
<1>3. ToSet(s \o t) \subseteq ToSet(s) \cup ToSet(t)
  <2> SUFFICES ASSUME NEW i \in 1 .. Len(s) + Len(t) PROVE (s \o t)[i] \in ToSet(s) \cup ToSet(t)
    BY <1>2 DEF ToSet
  <2>1. CASE i <= Len(s)
    BY <1>1, <1>2, <2>1 DEF ToSet
  <2>2. CASE ~(i <= Len(s))
    <3>1. i - Len(s) \in 1 .. Len(t)
      BY <1>1, <2>2
    <3> QED BY <1>1, <1>2, <2>2, <3>1 DEF ToSet
  <2> QED BY <2>1, <2>2
<1>4. ToSet(s) \subseteq ToSet(s \o t)
  <2> SUFFICES ASSUME NEW i \in 1 .. Len(s) PROVE s[i] \in ToSet(s \o t)
    BY <1>2 DEF ToSet
  <2>1. i \in 1 .. Len(s) + Len(t) /\ (s \o t)[i] = s[i]
    BY <1>1
  <2> QED BY <1>2, <2>1 DEF ToSet
<1>5. ToSet(t) \subseteq ToSet(s \o t)
  <2> SUFFICES ASSUME NEW i \in 1 .. Len(t) PROVE t[i] \in ToSet(s \o t)
    BY <1>2 DEF ToSet
  <2>1. i + Len(s) \in 1 .. Len(s) + Len(t) /\ ~(i + Len(s) <= Len(s)) /\ i + Len(s) - Len(s) = i
    BY <1>1
  <2>2. (s \o t)[i + Len(s)] = t[i]
    BY <1>1, <2>1
  <2> QED BY <1>2, <2>1, <2>2 DEF ToSet
<1>6. ASSUME Distinct(s), Distinct(t), ToSet(s) \cap ToSet(t) = {} PROVE Distinct(s \o t)
  <2> SUFFICES ASSUME NEW i \in 1 .. Len(s) + Len(t), NEW j \in 1 .. Len(s) + Len(t),
                      (s \o t)[i] = (s \o t)[j]
               PROVE  i = j
    BY <1>2 DEF Distinct
  <2>1. CASE i <= Len(s) /\ j <= Len(s)
    BY <1>1, <1>2, <1>6, <2>1 DEF Distinct
  <2>2. CASE ~(i <= Len(s)) /\ ~(j <= Len(s))
    <3>1. i - Len(s) \in 1 .. Len(t) /\ j - Len(s) \in 1 .. Len(t)
      BY <1>1, <2>2
    <3>2. t[i - Len(s)] = t[j - Len(s)]
      BY <1>1, <2>2
    <3>3. i - Len(s) = j - Len(s)
      BY <1>2, <1>6, <3>1, <3>2 DEF Distinct
    <3> QED BY <1>1, <3>3
  <2>3. \A k, m \in 1 .. Len(s) + Len(t) : k <= Len(s) /\ ~(m <= Len(s)) => (s \o t)[k] # (s \o t)[m]
    <3> SUFFICES ASSUME NEW k \in 1 .. Len(s) + Len(t), NEW m \in 1 .. Len(s) + Len(t),
                        k <= Len(s), ~(m <= Len(s)), (s \o t)[k] = (s \o t)[m]
                 PROVE  FALSE
      OBVIOUS
    <3>1. m - Len(s) \in 1 .. Len(t) /\ k \in 1 .. Len(s)
      BY <1>1
    <3>2. s[k] \in ToSet(s) /\ t[m - Len(s)] \in ToSet(t)
      BY <1>2, <3>1 DEF ToSet
    <3> QED BY <1>1, <1>6, <3>2
  <2> QED BY <2>1, <2>2, <2>3
<1> QED BY <1>1, <1>3, <1>4, <1>5, <1>6

\* A sequence without one of its elements.
LEMMA Without ==
  ASSUME NEW T, NEW s \in Seq(T), NEW i \in DOMAIN s
  PROVE  /\ RemoveAt(s, i) \in Seq(T) /\ ToSet(RemoveAt(s, i)) \subseteq ToSet(s)
         /\ ToSet(s) \subseteq ToSet(RemoveAt(s, i)) \cup {s[i]}
<1>1. Len(s) \in Nat /\ DOMAIN s = 1 .. Len(s) /\ i \in 1 .. Len(s) /\ \A j \in 1 .. Len(s) : s[j] \in T
  BY LenProperties, ElementOfSeq
<1> DEFINE a == SubSeq(s, 1, i - 1)
           b == SubSeq(s, i + 1, Len(s))
<1>2. a \in Seq(T) /\ Len(a) = i - 1 /\ \A j \in 1 .. i - 1 : a[j] = s[j]
  BY <1>1
<1>3. b \in Seq(T) /\ Len(b) = Len(s) - i /\ \A j \in 1 .. Len(s) - i : b[j] = s[j + i]
  BY <1>1
<1>4. DOMAIN a = 1 .. i - 1 /\ DOMAIN b = 1 .. Len(s) - i
  BY <1>1, <1>2, <1>3, LenProperties
<1>5. RemoveAt(s, i) = a \o b
  BY DEF RemoveAt
<1> HIDE DEF a, b
<1>6. a \o b \in Seq(T) /\ ToSet(a \o b) = ToSet(a) \cup ToSet(b)
  BY <1>2, <1>3, Joined
<1>7. ToSet(a) \subseteq ToSet(s) /\ ToSet(b) \subseteq ToSet(s)
  <2>1. ASSUME NEW j \in 1 .. i - 1 PROVE a[j] \in ToSet(s)
    BY <1>1, <1>2, <2>1 DEF ToSet
  <2>2. ASSUME NEW j \in 1 .. Len(s) - i PROVE b[j] \in ToSet(s)
    <3>1. j + i \in 1 .. Len(s)
      BY <1>1
    <3> QED BY <1>1, <1>3, <3>1 DEF ToSet
  <2> QED BY <1>4, <2>1, <2>2 DEF ToSet
<1>8. ASSUME NEW j \in 1 .. Len(s), j # i PROVE s[j] \in ToSet(a) \cup ToSet(b)
  <2>1. CASE j < i
    <3>1. j \in 1 .. i - 1
      BY <1>1, <2>1
    <3> QED BY <1>2, <1>4, <3>1 DEF ToSet
  <2>2. CASE j > i
    <3>1. j - i \in 1 .. Len(s) - i /\ j - i + i = j
      BY <1>1, <2>2
    <3> QED BY <1>3, <1>4, <3>1 DEF ToSet
  <2> QED BY <1>1, <1>8, <2>1, <2>2
<1>9. ToSet(s) \subseteq ToSet(a) \cup ToSet(b) \cup {s[i]}
  BY <1>1, <1>8 DEF ToSet
<1> QED BY <1>5, <1>6, <1>7, <1>9

-----------------------------------------------------------------------------
(* What is behind the stubs.                                                *)

\* What is behind siblings is behind one of them.
LEMMA BehindSiblings ==
  ASSUME NEW p, NEW A \in SUBSET Comments, NEW B \in SUBSET Comments, A \cap B = {},
         \A c \in A \cup B : ReplyTo[c] = p
  PROVE  /\ Cardinality(Behind(A \cup B)) = Cardinality(Behind(A)) + Cardinality(Behind(B))
         /\ Cardinality(A) <= Cardinality(Behind(A))
         /\ Cardinality(A) \in Nat /\ Cardinality(Behind(A)) \in Nat /\ Cardinality(Behind(B)) \in Nat
<1>1. PICK U, V : U = Behind(A) /\ V = Behind(B)
  OBVIOUS
<1>2. U \cap V = {}
  <2> SUFFICES ASSUME NEW d \in Comments, NEW a \in Above[d] \cap A, NEW b \in Above[d] \cap B
               PROVE  FALSE
    BY <1>1 DEF Behind
  <2> QED BY Lines
<1>3. Behind(A \cup B) = U \cup V
  BY <1>1 DEF Behind
<1>4. U \in SUBSET Comments /\ V \in SUBSET Comments
  BY <1>1 DEF Behind
<1>5. IsFiniteSet(U) /\ IsFiniteSet(V) /\ IsFiniteSet(A)
  BY <1>4, TreeFetchAssumption, FS_Subset
<1>6. Cardinality(U) \in Nat /\ Cardinality(V) \in Nat /\ Cardinality(A) \in Nat
  BY <1>5, FS_CardinalityType
<1>7. Cardinality(U \cup V) = Cardinality(U) + Cardinality(V) - Cardinality(U \cap V)
  BY <1>5, FS_Union
<1>8. Cardinality(U \cap V) = 0
  BY <1>2, FS_EmptySet
<1>9. A \in SUBSET U
  BY <1>1, Lines DEF Behind
<1>10. Cardinality(A) <= Cardinality(U)
  BY <1>5, <1>9, FS_Subset
<1>11. Cardinality(U \cup V) = Cardinality(U) + Cardinality(V)
  BY <1>6, <1>7, <1>8
<1> QED BY <1>1, <1>3, <1>6, <1>10, <1>11

-----------------------------------------------------------------------------
(* The invariant.                                                           *)

Roots   == names \cup {0}
Stubs   == [parent : Comments \cup {0}, count : Nat, kids : Seq(Comments)]
Entries == [id : Comments, depth : Nat]

TreeTypes ==
  /\ byParent \in [Comments \cup {0} -> Seq(Comments)] /\ pending \in Seq(Stubs)
  /\ names \subseteq Comments /\ gone \subseteq Comments
  /\ limit \in Nat /\ expansions \in 0 .. limit /\ honest \in BOOLEAN
  /\ phase \in {"base", "expand", "order"}
  /\ stack \in Seq(Entries) /\ ordered \in Seq(Entries)
  /\ phase = "base" => names = {} /\ gone = {} /\ pending = <<>>
  /\ phase # "order" => stack = <<>> /\ ordered = <<>>

\* The index holds the comments seen, each once, under what they reply to.
Indexed ==
  \A p \in Comments \cup {0} :
    Distinct(byParent[p]) /\ ToSet(byParent[p]) = {c \in names : ReplyTo[c] = p}

\* A stub's ids are siblings, and Reddit's own count is not below what is behind them.
Fits(stub) ==
  /\ Distinct(stub.kids) /\ \A c \in ToSet(stub.kids) : ReplyTo[c] = stub.parent
  /\ stub.kids = <<>> => stub.parent \in Deep /\ stub.count = 0
  /\ honest /\ stub.kids # <<>> => stub.count >= Cardinality(Behind(ToSet(stub.kids)))
Stubbed == \A stub \in ToSet(pending) : stub.parent \in Roots /\ Fits(stub)

\* A comment not yet seen below one that is has its stub.
Holds(stub, c) == IF stub.kids = <<>> THEN stub.parent = ReplyTo[c] ELSE c \in ToSet(stub.kids)
Frontier ==
  phase # "base" =>
    \A c \in Comments \ (names \cup gone) :
      ReplyTo[c] \in Roots => \E stub \in ToSet(pending) : Holds(stub, c)

\* The comments visited, and those on the stack: all replies to the visited, each once, at
\* their depth.
Stamp(c) == [id |-> c, depth |-> Depth[c]]
Walked ==
  phase = "order" =>
    /\ \A e \in ToSet(ordered) \cup ToSet(stack) : e.id \in names /\ e.depth = Depth[e.id]
    /\ Distinct(ordered) /\ Distinct(stack) /\ ToSet(ordered) \cap ToSet(stack) = {}
    /\ \A c \in names :
         Stamp(c) \in ToSet(ordered) \cup ToSet(stack) <=> ReplyTo[c] \in Captured \cup {0}
    /\ \A i \in DOMAIN ordered :
         ReplyTo[ordered[i].id] # 0 => \E j \in 1 .. i - 1 : ordered[j].id = ReplyTo[ordered[i].id]

TreeInv == TreeTypes /\ Indexed /\ Stubbed /\ Frontier /\ Walked

-----------------------------------------------------------------------------
(* The fetch.                                                               *)

\* Numbers of comments.
LEMMA Numbers ==
  /\ Comments \subseteq Nat /\ 0 \notin Comments
  /\ \A S \in SUBSET (Comments \cup {0}) : IsFiniteSet(S) /\ S \subseteq Nat /\ Cardinality(S) \in Nat
  /\ \A c \in Comments : ReplyTo[c] \in Comments \cup {0} /\ ReplyTo[c] # c
<1>1. Comments \subseteq Nat /\ 0 \notin Comments /\ IsFiniteSet(Comments)
  BY TreeFetchAssumption
<1>2. IsFiniteSet(Comments \cup {0})
  BY <1>1, FS_AddElement
<1>3. ASSUME NEW S \in SUBSET (Comments \cup {0}) PROVE IsFiniteSet(S) /\ S \subseteq Nat /\ Cardinality(S) \in Nat
  <2>1. IsFiniteSet(S)
    BY <1>2, FS_Subset
  <2> QED BY <1>1, <2>1, FS_CardinalityType
<1>4. ASSUME NEW c \in Comments PROVE ReplyTo[c] \in Comments \cup {0} /\ ReplyTo[c] # c
  <2>1. ReplyTo[c] \in Comments \cup {0} /\ ReplyTo[c] < c
    BY TreeFetchAssumption
  <2>2. ~(c < c)
    BY <1>1
  <2> QED BY <2>1, <2>2
<1> QED BY <1>1, <1>3, <1>4

\* The stub for some replies.
LEMMA StubFits ==
  ASSUME honest \in BOOLEAN, NEW p \in Comments \cup {0}, NEW left \in SUBSET Comments, left # {},
         \A c \in left : ReplyTo[c] = p
  PROVE  /\ Stub(p, left) \in Stubs /\ Stub(p, left).parent = p /\ Fits(Stub(p, left))
         /\ \A c \in left : Holds(Stub(p, left), c)
<1>1. /\ InOrder(left) \in Seq(left) /\ ToSet(InOrder(left)) = left /\ Distinct(InOrder(left))
  BY Numbers, Ranked
<1>2. InOrder(left) # <<>> /\ InOrder(left) \in Seq(Comments)
  <2>1. ToSet(<<>>) = {}
    BY DEF ToSet
  <2> QED BY <1>1, <2>1, SeqMonotonic
<1>3. Cardinality(Behind(left)) \in Nat
  BY Numbers DEF Behind
<1>4. CASE p \in Deep
  <2>1. Stub(p, left) = [parent |-> p, count |-> 0, kids |-> <<>>]
    BY <1>4 DEF Stub
  <2> QED BY <1>4, <2>1 DEF Stubs, Fits, Holds, Distinct, ToSet
<1>5. CASE p \notin Deep
  <2>1. Stub(p, left) = [parent |-> p, count |-> IF honest THEN Cardinality(Behind(left)) ELSE 1,
                         kids |-> InOrder(left)]
    BY <1>5 DEF Stub
  <2>2. Stub(p, left) \in Stubs
    BY <1>2, <1>3, <2>1 DEF Stubs
  <2>3. honest => Stub(p, left).count >= Cardinality(Behind(left))
    BY <1>3, <2>1
  <2>4. Fits(Stub(p, left))
    BY <1>1, <1>2, <2>1, <2>3 DEF Fits
  <2> QED BY <1>1, <1>2, <2>1, <2>2, <2>4 DEF Holds
<1> QED BY <1>4, <1>5

\* The stubs of an answer stand for what it leaves out.
LEMMA AnswersFit ==
  ASSUME TreeTypes, NEW shown, NEW parents \in SUBSET (Comments \cup {0})
  PROVE  /\ Answer(shown, parents).things = shown
         /\ Answer(shown, parents).stubs \in Seq(Stubs)
         /\ \A stub \in ToSet(Answer(shown, parents).stubs) : stub.parent \in parents /\ Fits(stub)
         /\ \A c \in Comments \ (shown \cup gone) :
              ReplyTo[c] \in parents => \E stub \in ToSet(Answer(shown, parents).stubs) : Holds(stub, c)
<1> DEFINE folded == {p \in parents : Replies(p) \ shown # {}}
           queue == InOrder(folded)
           left(p) == Replies(p) \ shown
           stubs == [i \in DOMAIN queue |-> Stub(queue[i], left(queue[i]))]
<1>1. Answer(shown, parents).things = shown /\ Answer(shown, parents).stubs = stubs
  BY DEF Answer
<1>2. queue \in Seq(folded) /\ ToSet(queue) = folded
  <2>1. IsFiniteSet(folded) /\ folded \subseteq Nat
    BY Numbers
  <2> HIDE DEF folded
  <2> QED BY <2>1, Ranked
<1>3. ASSUME NEW p \in folded
      PROVE  /\ Stub(p, left(p)) \in Stubs /\ Stub(p, left(p)).parent = p /\ Fits(Stub(p, left(p)))
             /\ \A c \in left(p) : Holds(Stub(p, left(p)), c)
  <2>1. p \in Comments \cup {0} /\ left(p) \in SUBSET Comments /\ left(p) # {} /\ \A c \in left(p) : ReplyTo[c] = p
    BY DEF Replies
  <2>2. honest \in BOOLEAN
    BY DEF TreeTypes
  <2> HIDE DEF left
  <2> QED BY <2>1, <2>2, StubFits
<1> HIDE DEF left
<1>4. DOMAIN queue = 1 .. Len(queue) /\ Len(queue) \in Nat /\ \A i \in DOMAIN queue : queue[i] \in folded
  <2> HIDE DEF folded, queue
  <2> QED BY <1>2, LenProperties, ElementOfSeq
<1>5. stubs \in Seq(Stubs) /\ DOMAIN stubs = DOMAIN queue
  <2> HIDE DEF folded, queue
  <2> QED BY <1>3, <1>4
<1>6. \A stub \in ToSet(stubs) : stub.parent \in parents /\ Fits(stub)
  <2> SUFFICES ASSUME NEW i \in DOMAIN queue PROVE stubs[i].parent \in parents /\ Fits(stubs[i])
    BY <1>5 DEF ToSet
  <2>1. queue[i] \in folded
    BY <1>4
  <2> HIDE DEF queue
  <2> QED BY <1>3, <2>1
<1>7. ASSUME NEW c \in Comments \ (shown \cup gone), ReplyTo[c] \in parents
      PROVE  \E stub \in ToSet(stubs) : Holds(stub, c)
  <2>1. c \in left(ReplyTo[c]) /\ ReplyTo[c] \in folded
    BY <1>7 DEF Replies, left
  <2>2. PICK i \in DOMAIN queue : queue[i] = ReplyTo[c]
    <3> HIDE DEF folded, queue
    <3> QED BY <1>2, <2>1 DEF ToSet
  <2>3. stubs[i] \in ToSet(stubs) /\ stubs[i] = Stub(ReplyTo[c], left(ReplyTo[c]))
    BY <1>5, <2>2 DEF ToSet
  <2> HIDE DEF stubs, folded
  <2> QED BY <1>3, <2>1, <2>3
<1> HIDE DEF stubs
<1> QED BY <1>1, <1>5, <1>6, <1>7

\* Each new comment is indexed once.
LEMMA AbsorbIndexes ==
  ASSUME TreeTypes, Indexed, NEW things \in SUBSET Comments, Absorb(things)
  PROVE  /\ names' = names \cup things /\ Indexed'
         /\ byParent' \in [Comments \cup {0} -> Seq(Comments)]
<1> DEFINE new(p) == {c \in things : Fresh(c) /\ ReplyTo[c] = p}
<1>1. /\ names' = names \cup things
      /\ byParent' = [p \in DOMAIN byParent |-> byParent[p] \o InOrder(new(p))]
      /\ DOMAIN byParent = Comments \cup {0}
  BY DEF Absorb, TreeTypes
<1>2. ASSUME NEW p \in Comments \cup {0}
      PROVE  /\ byParent'[p] \in Seq(Comments) /\ Distinct(byParent'[p])
             /\ ToSet(byParent'[p]) = {c \in names' : ReplyTo[c] = p}
  <2>1. /\ InOrder(new(p)) \in Seq(new(p)) /\ ToSet(InOrder(new(p))) = new(p) /\ Distinct(InOrder(new(p)))
    <3>1. IsFiniteSet(new(p)) /\ new(p) \subseteq Nat
      BY Numbers
    <3> HIDE DEF new
    <3> QED BY <3>1, Ranked
  <2>2. InOrder(new(p)) \in Seq(Comments)
    BY <2>1, SeqMonotonic
  <2>3. /\ byParent[p] \in Seq(Comments) /\ Distinct(byParent[p])
        /\ ToSet(byParent[p]) = {c \in names : ReplyTo[c] = p}
    BY DEF TreeTypes, Indexed
  <2>4. ToSet(byParent[p]) \cap new(p) = {}
    BY <2>3 DEF Fresh
  <2>5. byParent'[p] = byParent[p] \o InOrder(new(p))
    BY <1>1
  <2>6. ToSet(byParent'[p]) = ToSet(byParent[p]) \cup new(p) /\ Distinct(byParent'[p]) /\ byParent'[p] \in Seq(Comments)
    <3> HIDE DEF new
    <3> QED BY <2>1, <2>2, <2>3, <2>4, <2>5, Joined
  <2>7. {c \in names : ReplyTo[c] = p} \cup new(p) = {c \in names' : ReplyTo[c] = p}
    BY <1>1 DEF Fresh
  <2> QED BY <2>3, <2>6, <2>7
<1>3. Indexed'
  BY <1>2 DEF Indexed
<1>4. byParent' = [p \in Comments \cup {0} |-> byParent'[p]]
  BY <1>1
<1>5. byParent' \in [Comments \cup {0} -> Seq(Comments)]
  <2>1. \A p \in Comments \cup {0} : byParent'[p] \in Seq(Comments)
    BY <1>2
  <2> QED BY <1>4, <2>1
<1> QED BY <1>1, <1>3, <1>5

\* The largest stub is one of the queue: there is one, and first of its size.
LEMMA LargestIs ==
  ASSUME TreeTypes, pending # <<>>
  PROVE  Largest \in DOMAIN pending /\ pending[Largest] \in ToSet(pending) /\ pending[Largest] \in Stubs
<1> DEFINE D == DOMAIN pending
           n(i) == pending[i].count
           Beats(j, i) == n(j) > n(i) \/ (n(j) = n(i) /\ j < i)
           Over(i) == {j \in D : Beats(j, i)}
           All == {Over(i) : i \in D}
<1>1. /\ D = 1 .. Len(pending) /\ Len(pending) \in Nat /\ D # {} /\ \A i \in D : pending[i] \in Stubs
  <2>1. pending \in Seq(Stubs)
    BY DEF TreeTypes
  <2> HIDE DEF Stubs
  <2>2. Len(pending) \in Nat /\ D = 1 .. Len(pending) /\ Len(pending) # 0
    BY <2>1, LenProperties, EmptySeq
  <2> QED BY <2>1, <2>2, ElementOfSeq
<1>2. \A i \in D : n(i) \in Nat /\ i \in Nat
  BY <1>1 DEF Stubs
<1> HIDE DEF n
<1>3. All # {} /\ All \subseteq FiniteSubsetsOf(D)
  <2>1. IsFiniteSet(D)
    BY <1>1, FS_Interval
  <2>2. \A i : Over(i) \in SUBSET D /\ IsFiniteSet(Over(i))
    <3> HIDE DEF D
    <3> QED BY <2>1, FS_Subset
  <2> QED BY <1>1, <2>2 DEF FiniteSubsetsOf
<1> HIDE DEF D
<1>4. IsWellFoundedOn(StrictSubsetOrdering(D), FiniteSubsetsOf(D))
  BY FS_StrictSubsetOrderingWellFounded
<1>5. PICK X \in All : \A Y \in All : <<Y, X>> \notin StrictSubsetOrdering(D)
  BY <1>3, <1>4, WFMin
<1>6. PICK i \in D : X = Over(i)
  BY <1>5
<1>7. ASSUME NEW j \in Over(i) PROVE FALSE
  <2>1. j \in D /\ Beats(j, i)
    BY <1>7
  <2>2. \A k \in D : Beats(k, j) => Beats(k, i)
    BY <1>2, <2>1
  <2>3. ~Beats(j, j)
    BY <1>2, <2>1
  <2>4. Over(j) \in SUBSET D /\ Over(i) \in SUBSET D /\ Over(j) \subseteq Over(i) /\ j \in Over(i) /\ j \notin Over(j)
    BY <1>7, <2>2, <2>3
  <2>5. <<Over(j), Over(i)>> \in StrictSubsetOrdering(D)
    BY <2>4 DEF StrictSubsetOrdering
  <2> QED BY <1>5, <1>6, <2>1, <2>5
<1>8. \A j \in D : n(i) > n(j) \/ (n(i) = n(j) /\ i <= j)
  <2>1. \A j \in D : ~Beats(j, i)
    BY <1>7
  <2> SUFFICES ASSUME NEW j \in D PROVE n(i) > n(j) \/ (n(i) = n(j) /\ i <= j)
    OBVIOUS
  <2>2. PICK a \in Nat, b \in Nat : a = n(i) /\ b = n(j)
    BY <1>2
  <2>3. ~(b > a \/ (b = a /\ j < i)) /\ i \in Nat /\ j \in Nat
    BY <1>2, <2>1, <2>2
  <2>4. a > b \/ (a = b /\ i <= j)
    BY <2>2, <2>3
  <2> QED BY <2>2, <2>4
<1>9. Largest \in D
  BY <1>8 DEF Largest, D, n
<1> QED BY <1>1, <1>9 DEF D, ToSet

\* A split loses none of the ids, and the remainder's claim is not below what is behind it.
LEMMA Split ==
  ASSUME honest \in BOOLEAN, NEW stub \in Stubs, Fits(stub), stub.kids # <<>>
  PROVE  /\ Asked(stub) \in SUBSET Comments /\ \A c \in Asked(stub) : ReplyTo[c] = stub.parent
         /\ Remainder(stub) \in Seq(Stubs)
         /\ \A r \in ToSet(Remainder(stub)) : r.parent = stub.parent /\ Fits(r)
         /\ \A c \in ToSet(stub.kids) \ Asked(stub) : \E r \in ToSet(Remainder(stub)) : Holds(r, c)
<1> DEFINE kids == stub.kids
           n == Len(kids)
<1>1. /\ kids \in Seq(Comments) /\ n \in Nat /\ DOMAIN kids = 1 .. n /\ \A i \in 1 .. n : kids[i] \in Comments
      /\ stub.count \in Nat /\ stub.parent \in Comments \cup {0} /\ Chunk \in Nat \ {0}
      /\ \A i, j \in 1 .. n : kids[i] = kids[j] => i = j
      /\ \A i \in 1 .. n : ReplyTo[kids[i]] = stub.parent
  <2>1. kids \in Seq(Comments) /\ stub.count \in Nat /\ stub.parent \in Comments \cup {0}
    BY DEF Stubs
  <2>2. n \in Nat /\ DOMAIN kids = 1 .. n /\ \A i \in 1 .. n : kids[i] \in Comments
    <3> HIDE DEF kids
    <3> QED BY <2>1, LenProperties, ElementOfSeq
  <2>3. Chunk \in Nat \ {0}
    BY TreeFetchAssumption
  <2>4. Distinct(kids) /\ \A c \in ToSet(kids) : ReplyTo[c] = stub.parent
    BY DEF Fits
  <2> QED BY <2>1, <2>2, <2>3, <2>4 DEF Distinct, ToSet
<1>2. Stubs = [parent : Comments \cup {0}, count : Nat, kids : Seq(Comments)]
  BY DEF Stubs
<1>3. ToSet(kids) = {kids[i] : i \in 1 .. n}
  BY <1>1 DEF ToSet
<1>6. ToSet(kids) \in SUBSET Comments /\ \A c \in ToSet(kids) : ReplyTo[c] = stub.parent
  BY <1>1, <1>3
<1>4. CASE n <= Chunk
  <2>1. Remainder(stub) = <<>>
    BY <1>4 DEF Remainder
  <2>2. Asked(stub) = ToSet(kids)
    <3>1. Min({Chunk, n}) = n
      BY <1>1, <1>4 DEF Min
    <3>2. SubSeq(kids, 1, n) = kids
      BY <1>1, SubSeqFull
    <3> QED BY <3>1, <3>2 DEF Asked
  <2>3. ToSet(<<>>) = {} /\ <<>> \in Seq(Stubs)
    BY DEF ToSet
  <2> QED BY <1>1, <1>3, <2>1, <2>2, <2>3
<1>5. CASE n > Chunk
  <2> DEFINE head == SubSeq(kids, 1, Chunk)
             tail == SubSeq(kids, Chunk + 1, n)
             most == Max({stub.count - Chunk, Len(tail)})
             r == [stub EXCEPT !.kids = tail, !.count = most]
  <2>1. Remainder(stub) = <<r>>
    <3>1. ~(n <= Chunk)
      BY <1>1, <1>5
    <3> QED BY <3>1 DEF Remainder
  <2>2. Asked(stub) = ToSet(head)
    <3>1. Min({Chunk, n}) = Chunk
      BY <1>1, <1>5 DEF Min
    <3> QED BY <3>1 DEF Asked
  <2>3. head \in Seq(Comments) /\ Len(head) = Chunk /\ \A i \in 1 .. Chunk : head[i] = kids[i]
    BY <1>1, <1>5
  <2>4. tail \in Seq(Comments) /\ Len(tail) = n - Chunk /\ \A i \in 1 .. n - Chunk : tail[i] = kids[i + Chunk]
    BY <1>1, <1>5
  <2>5. DOMAIN head = 1 .. Chunk /\ DOMAIN tail = 1 .. n - Chunk /\ n - Chunk \in Nat \ {0}
    <3> HIDE DEF head, tail, kids, n
    <3> QED BY <1>1, <1>5, <2>3, <2>4, LenProperties
  <2> HIDE DEF head, tail
  <2>6. /\ ToSet(head) = {kids[i] : i \in 1 .. Chunk} /\ ToSet(tail) \subseteq ToSet(kids)
        /\ ToSet(head) \subseteq ToSet(kids)
    <3>1. ToSet(head) = {kids[i] : i \in 1 .. Chunk}
      BY <2>3, <2>5 DEF ToSet
    <3>2. \A i \in 1 .. Chunk : i \in 1 .. n
      BY <1>1, <1>5
    <3>3. \A i \in 1 .. n - Chunk : i + Chunk \in 1 .. n
      BY <1>1, <1>5
    <3>4. ToSet(tail) \subseteq ToSet(kids)
      BY <1>3, <2>4, <2>5, <3>3 DEF ToSet
    <3> QED BY <1>3, <3>1, <3>2, <3>4
  <2>7. ToSet(kids) \subseteq ToSet(head) \cup ToSet(tail)
    <3> SUFFICES ASSUME NEW i \in 1 .. n PROVE kids[i] \in ToSet(head) \cup ToSet(tail)
      BY <1>3
    <3>1. CASE i <= Chunk
      <4>1. i \in 1 .. Chunk
        BY <1>1, <3>1
      <4> QED BY <2>6, <4>1
    <3>2. CASE ~(i <= Chunk)
      <4>1. i - Chunk \in 1 .. n - Chunk /\ i - Chunk + Chunk = i
        BY <1>1, <1>5, <3>2
      <4> QED BY <2>4, <2>5, <4>1 DEF ToSet
    <3> QED BY <3>1, <3>2
  <2>8. ToSet(head) \cap ToSet(tail) = {}
    <3> SUFFICES ASSUME NEW c \in ToSet(head) \cap ToSet(tail) PROVE FALSE
      OBVIOUS
    <3>2. PICK i \in 1 .. Chunk : c = kids[i]
      BY <2>6
    <3>3. PICK j \in 1 .. n - Chunk : c = kids[j + Chunk]
      BY <2>4, <2>5 DEF ToSet
    <3>1. i \in 1 .. n /\ j + Chunk \in 1 .. n /\ i # j + Chunk
      BY <1>1, <1>5
    <3> QED BY <1>1, <3>1, <3>2, <3>3
  <2>9. Distinct(tail)
    <3> SUFFICES ASSUME NEW i \in 1 .. n - Chunk, NEW j \in 1 .. n - Chunk, kids[i + Chunk] = kids[j + Chunk]
                 PROVE  i = j
      BY <2>4, <2>5 DEF Distinct
    <3>1. i + Chunk \in 1 .. n /\ j + Chunk \in 1 .. n
      BY <1>1, <1>5
    <3>2. i + Chunk = j + Chunk
      BY <1>1, <3>1
    <3> QED BY <1>1, <3>2
  <2>10. Cardinality(ToSet(head)) = Chunk
    <3> DEFINE f == [i \in 1 .. Chunk |-> kids[i]]
    <3>1. f \in Injection(1 .. Chunk, ToSet(head)) /\ f \in Surjection(1 .. Chunk, ToSet(head))
      <4>1. f \in [1 .. Chunk -> ToSet(head)]
        BY <2>6
      <4>2. \A i, j \in 1 .. Chunk : f[i] = f[j] => i = j
        <5>1. \A i \in 1 .. Chunk : i \in 1 .. n
          BY <1>1, <1>5
        <5> QED BY <1>1, <5>1
      <4>3. \A c \in ToSet(head) : \E i \in 1 .. Chunk : f[i] = c
        BY <2>6
      <4> HIDE DEF f
      <4> QED BY <4>1, <4>2, <4>3 DEF Injection, IsInjective, Surjection
    <3>2. IsFiniteSet(1 .. Chunk) /\ Cardinality(1 .. Chunk) = Chunk
      <4>1. ~(1 > Chunk) /\ Chunk - 1 + 1 = Chunk /\ Chunk \in Int
        BY <1>1
      <4> QED BY <4>1, FS_Interval
    <3> HIDE DEF f
    <3> QED BY <3>1, <3>2, FS_Surjection
  <2>11. most \in Nat /\ most >= stub.count - Chunk
    <3>1. Len(tail) \in Nat /\ stub.count - Chunk \in Int
      BY <1>1, <2>4, <2>5
    <3>2. PICK a \in Int, b \in Nat : a = stub.count - Chunk /\ b = Len(tail)
      BY <3>1
    <3>3. Max({a, b}) = IF a >= b THEN a ELSE b
      BY <3>2 DEF Max
    <3> QED BY <3>2, <3>3
  <2>12. honest => most >= Cardinality(Behind(ToSet(tail)))
    <3>1. PICK A, B : A = ToSet(head) /\ B = ToSet(tail)
      OBVIOUS
    <3>2. A \in SUBSET Comments /\ B \in SUBSET Comments /\ A \cup B = ToSet(kids) /\ A \cap B = {}
      <4>1. ToSet(head) \cup ToSet(tail) = ToSet(kids)
        BY <2>6, <2>7
      <4> QED BY <1>6, <2>8, <3>1, <4>1
    <3>3. \A c \in A \cup B : ReplyTo[c] = stub.parent
      BY <1>6, <3>2
    <3>4. /\ Cardinality(Behind(A \cup B)) = Cardinality(Behind(A)) + Cardinality(Behind(B))
          /\ Cardinality(A) <= Cardinality(Behind(A))
          /\ Cardinality(A) \in Nat /\ Cardinality(Behind(A)) \in Nat /\ Cardinality(Behind(B)) \in Nat
      BY <3>2, <3>3, BehindSiblings
    <3>5. honest => stub.count >= Cardinality(Behind(A \cup B))
      BY <3>2 DEF Fits
    <3>6. Cardinality(A) = Chunk
      BY <2>10, <3>1
    <3> HIDE DEF most
    <3> QED BY <1>1, <2>11, <3>1, <3>4, <3>5, <3>6
  <2> HIDE DEF most
  <2>13. r.parent = stub.parent /\ r.count = most /\ r.kids = tail
    BY <1>2
  <2>14. r \in Stubs
    BY <1>1, <1>2, <2>4, <2>11
  <2>15. tail # <<>>
    BY <2>4, <2>5
  <2>16. Fits(r)
    BY <1>1, <1>3, <2>6, <2>9, <2>12, <2>13, <2>15 DEF Fits
  <2>17. Remainder(stub) \in Seq(Stubs) /\ ToSet(Remainder(stub)) = {r}
    <3> HIDE DEF r
    <3> QED BY <2>1, <2>14 DEF ToSet
  <2>18. \A c \in ToSet(kids) \ Asked(stub) : Holds(r, c)
    BY <2>2, <2>7, <2>13, <2>15 DEF Holds
  <2>19. Asked(stub) \in SUBSET Comments /\ \A c \in Asked(stub) : ReplyTo[c] = stub.parent
    BY <1>6, <2>2, <2>6
  <2>20. r.parent = stub.parent
    BY <2>13
  <2> HIDE DEF r
  <2> QED BY <2>16, <2>17, <2>18, <2>19, <2>20
<1> QED BY <1>1, <1>4, <1>5

\* An answer is taken beside the rest of the queue: what is left out is below it, or held by
\* the rest.
Takes(things, rest, shown, parents) ==
  /\ phase # "order" /\ phase' = "expand" /\ UNCHANGED <<walkVars, limit, honest>>
  /\ expansions' \in 0 .. limit /\ gone' \in SUBSET Comments
  /\ things \in SUBSET Comments /\ Absorb(things)
  /\ rest \in Seq(Stubs) /\ parents \in SUBSET (names \cup things \cup {0})
  /\ pending' = rest \o Answer(shown, parents).stubs
  /\ \A stub \in ToSet(rest) : stub.parent \in Roots /\ Fits(stub)
  /\ \A c \in Comments \ (names \cup things \cup gone') :
       ReplyTo[c] \in names \cup things \cup {0} =>
         \/ ReplyTo[c] \in parents /\ c \notin shown \cup gone
         \/ \E stub \in ToSet(rest) : Holds(stub, c)

\* Its things are indexed, and its stubs queued.
LEMMA TakenStub ==
  ASSUME TreeInv, NEW things, NEW rest, NEW shown, NEW parents, Takes(things, rest, shown, parents)
  PROVE  TreeInv'
<1>0. /\ phase # "order" /\ phase' = "expand" /\ UNCHANGED <<walkVars, limit, honest>>
      /\ expansions' \in 0 .. limit /\ gone' \in SUBSET Comments
      /\ things \in SUBSET Comments /\ Absorb(things)
      /\ rest \in Seq(Stubs) /\ parents \in SUBSET (names \cup things \cup {0})
      /\ pending' = rest \o Answer(shown, parents).stubs
      /\ \A stub \in ToSet(rest) : stub.parent \in Roots /\ Fits(stub)
      /\ \A c \in Comments \ (names \cup things \cup gone') :
           ReplyTo[c] \in names \cup things \cup {0} =>
             \/ ReplyTo[c] \in parents /\ c \notin shown \cup gone
             \/ \E stub \in ToSet(rest) : Holds(stub, c)
  BY DEF Takes
<1>1. TreeTypes /\ Indexed
  BY DEF TreeInv
<1>2. /\ names' = names \cup things /\ Indexed'
      /\ byParent' \in [Comments \cup {0} -> Seq(Comments)]
  BY <1>0, <1>1, AbsorbIndexes
<1> DEFINE stubs == Answer(shown, parents).stubs
<1>3. parents \in SUBSET (Comments \cup {0})
  BY <1>0, <1>1 DEF TreeTypes
<1>4. /\ stubs \in Seq(Stubs)
      /\ \A stub \in ToSet(stubs) : stub.parent \in parents /\ Fits(stub)
      /\ \A c \in Comments \ (shown \cup gone) :
           ReplyTo[c] \in parents => \E stub \in ToSet(stubs) : Holds(stub, c)
  BY <1>1, <1>3, AnswersFit
<1> HIDE DEF stubs
<1>5. pending' \in Seq(Stubs) /\ ToSet(pending') = ToSet(rest) \cup ToSet(stubs)
  <2>1. pending' = rest \o stubs
    BY <1>0 DEF stubs
  <2> HIDE DEF Stubs
  <2> QED BY <1>0, <1>4, <2>1, Joined
<1>6. TreeTypes'
  BY <1>0, <1>1, <1>2, <1>5 DEF TreeTypes, walkVars, Entries, Stubs
<1>8. Stubbed'
  <2>1. \A stub : Fits(stub)' <=> Fits(stub)
    BY <1>0 DEF Fits
  <2>2. \A stub \in ToSet(pending)' : stub.parent \in Roots' /\ Fits(stub)
    BY <1>0, <1>2, <1>4, <1>5 DEF Roots, ToSet
  <2> QED BY <2>1, <2>2 DEF Stubbed
<1>9. Frontier'
  <2> SUFFICES ASSUME NEW c \in Comments \ (names' \cup gone'), ReplyTo[c] \in Roots'
               PROVE  \E stub \in ToSet(pending') : Holds(stub, c)
    BY DEF Frontier, Holds, ToSet
  <2>1. c \in Comments \ (names \cup things \cup gone') /\ ReplyTo[c] \in names \cup things \cup {0}
    BY <1>2 DEF Roots
  <2>2. \/ ReplyTo[c] \in parents /\ c \notin shown \cup gone
        \/ \E stub \in ToSet(rest) : Holds(stub, c)
    BY <1>0, <2>1
  <2>3. CASE ReplyTo[c] \in parents /\ c \notin shown \cup gone
    <3>1. \E stub \in ToSet(stubs) : Holds(stub, c)
      BY <1>4, <2>3
    <3> QED BY <1>5, <3>1
  <2> QED BY <1>5, <2>2, <2>3
<1>10. Walked'
  BY <1>0 DEF Walked
<1> QED BY <1>2, <1>6, <1>8, <1>9, <1>10 DEF TreeInv

\* The first answer.
LEMMA BaseStep ==
  ASSUME TreeInv, Base PROVE TreeInv'
<1>1. PICK shown \in SUBSET Comments :
        /\ Rooted(shown, {0}) /\ Absorb(Answer(shown, shown \cup {0}).things)
        /\ pending' = Answer(shown, shown \cup {0}).stubs
  BY DEF Base
<1>2. /\ phase = "base" /\ phase' = "expand" /\ UNCHANGED <<walkVars, expansions, limit, honest, gone>>
      /\ TreeTypes /\ names = {} /\ gone = {} /\ expansions \in 0 .. limit
  BY DEF Base, TreeInv, TreeTypes
<1>3. shown \cup {0} \in SUBSET (Comments \cup {0})
  OBVIOUS
<1>4. Answer(shown, shown \cup {0}).things = shown /\ Answer(shown, shown \cup {0}).stubs \in Seq(Stubs)
  BY <1>2, <1>3, AnswersFit
<1>5. <<>> \in Seq(Stubs) /\ ToSet(<<>>) = {}
  BY DEF ToSet
<1>6. pending' = <<>> \o Answer(shown, shown \cup {0}).stubs
  <2> HIDE DEF Stubs
  <2> QED BY <1>1, <1>4, ConcatEmptySeq
<1>8. phase # "order" /\ gone' \in SUBSET Comments /\ gone' = {} /\ expansions' \in 0 .. limit
  BY <1>2
<1>9. shown \cup {0} \in SUBSET (names \cup shown \cup {0})
  OBVIOUS
<1>10. \A c \in Comments \ (names \cup shown \cup gone') :
         ReplyTo[c] \in names \cup shown \cup {0} =>
           \/ ReplyTo[c] \in shown \cup {0} /\ c \notin shown \cup gone
           \/ \E stub \in ToSet(<<>>) : Holds(stub, c)
  BY <1>2
<1>11. UNCHANGED <<walkVars, limit, honest>>
  BY <1>2
<1>13. \A stub \in ToSet(<<>>) : stub.parent \in Roots /\ Fits(stub)
  BY <1>5
<1>15. Absorb(shown) /\ phase' = "expand"
  BY <1>1, <1>2, <1>4
<1>16. Takes(shown, <<>>, shown, shown \cup {0})
  BY <1>5, <1>6, <1>8, <1>9, <1>10, <1>11, <1>13, <1>15 DEF Takes
<1> QED BY <1>16, TakenStub

\* The ids of a stub, and what is below them.
LEMMA ExpandStep ==
  ASSUME TreeInv, Expand PROVE TreeInv'
<1> DEFINE stub == pending[Largest]
           kept == RemoveAt(pending, Largest)
           rest == kept \o Remainder(stub)
           asked == Asked(stub)
<1>0. /\ TreeTypes /\ Indexed /\ Stubbed /\ Frontier
      /\ names \in SUBSET Comments /\ gone \in SUBSET Comments /\ pending \in Seq(Stubs) /\ honest \in BOOLEAN
      /\ limit \in Nat /\ expansions \in 0 .. limit /\ expansions < limit
      /\ pending # <<>> /\ stub.kids # <<>> /\ phase = "expand" /\ phase' = "expand"
      /\ expansions' = expansions + 1 /\ UNCHANGED <<walkVars, limit, honest>>
  BY DEF TreeInv, TreeTypes, Expand
<1>1. PICK lost \in SUBSET (Behind(asked) \ names) :
        /\ gone' = gone \cup lost
        /\ \E below \in SUBSET (Behind(asked) \ gone') :
             \E again \in {{}} \cup {{c} : c \in names \ ((asked \ gone') \cup below)} :
               LET shown == (asked \ gone') \cup below
                   answer == Answer(shown, shown \ names)
               IN  Absorb(answer.things \cup again) /\ pending' = rest \o answer.stubs
  BY DEF Expand
<1>2. PICK below \in SUBSET (Behind(asked) \ gone') :
        \E again \in {{}} \cup {{c} : c \in names \ ((asked \ gone') \cup below)} :
          LET shown == (asked \ gone') \cup below
              answer == Answer(shown, shown \ names)
          IN  Absorb(answer.things \cup again) /\ pending' = rest \o answer.stubs
  BY <1>1
<1> DEFINE shown == (asked \ gone') \cup below
           parents == shown \ names
<1>3. PICK again \in {{}} \cup {{c} : c \in names \ shown} :
        Absorb(Answer(shown, parents).things \cup again) /\ pending' = rest \o Answer(shown, parents).stubs
  BY <1>2
<1>18. again \in SUBSET names
  OBVIOUS
<1>4. stub \in Stubs /\ stub \in ToSet(pending) /\ Largest \in DOMAIN pending
  BY <1>0, LargestIs
<1>5. Fits(stub) /\ stub.parent \in Roots
  BY <1>0, <1>4 DEF Stubbed
<1>6. /\ kept \in Seq(Stubs) /\ ToSet(kept) \subseteq ToSet(pending)
      /\ ToSet(pending) \subseteq ToSet(kept) \cup {stub}
  <2> HIDE DEF Stubs
  <2> QED BY <1>0, <1>4, Without
<1> HIDE DEF stub, kept
<1>7. /\ asked \in SUBSET Comments /\ \A c \in asked : ReplyTo[c] = stub.parent
      /\ Remainder(stub) \in Seq(Stubs)
      /\ \A r \in ToSet(Remainder(stub)) : r.parent = stub.parent /\ Fits(r)
      /\ \A c \in ToSet(stub.kids) \ asked : \E r \in ToSet(Remainder(stub)) : Holds(r, c)
  BY <1>0, <1>4, <1>5, Split
<1>8. rest \in Seq(Stubs) /\ ToSet(rest) = ToSet(kept) \cup ToSet(Remainder(stub))
  <2> HIDE DEF Stubs
  <2> QED BY <1>6, <1>7, Joined
<1> HIDE DEF rest, asked
<1>9. shown \in SUBSET Comments /\ lost \in SUBSET Comments
  BY <1>7 DEF Behind
<1>10. Answer(shown, parents).things = shown
  <2>1. parents \in SUBSET (Comments \cup {0})
    BY <1>9
  <2> HIDE DEF shown, parents
  <2> QED BY <1>0, <2>1, AnswersFit
<1> DEFINE things == shown \cup again
<1>11. things \in SUBSET Comments /\ parents \in SUBSET (names \cup things \cup {0})
  BY <1>0, <1>9, <1>18
<1>14. \A r \in ToSet(rest) : r.parent \in Roots /\ Fits(r)
  BY <1>0, <1>5, <1>6, <1>7, <1>8 DEF Stubbed
<1>15. ASSUME NEW c \in Comments \ (names \cup things \cup gone'), ReplyTo[c] \in names \cup things \cup {0}
       PROVE  \/ ReplyTo[c] \in parents /\ c \notin shown \cup gone
              \/ \E r \in ToSet(rest) : Holds(r, c)
  <2>1. CASE ReplyTo[c] \in names \cup {0}
    <3>1. PICK s \in ToSet(pending) : Holds(s, c)
      BY <1>0, <1>1, <1>15, <2>1 DEF Frontier, Roots
    <3>2. CASE s = stub
      <4>1. c \in ToSet(stub.kids)
        BY <1>0, <3>1, <3>2 DEF Holds, stub
      <4>2. c \notin asked
        BY <1>15
      <4> QED BY <1>7, <1>8, <4>1, <4>2
    <3> QED BY <1>6, <1>8, <3>1, <3>2
  <2>2. CASE ReplyTo[c] \notin names \cup {0}
    BY <1>1, <1>15, <1>18, <2>2
  <2> QED BY <2>1, <2>2
<1>16. /\ gone' \in SUBSET Comments /\ phase # "order" /\ expansions' \in 0 .. limit
       /\ phase' = "expand" /\ UNCHANGED <<walkVars, limit, honest>>
  BY <1>0, <1>1, <1>9
<1>17. Absorb(things) /\ pending' = rest \o Answer(shown, parents).stubs
  BY <1>3, <1>10
<1> HIDE DEF shown, parents, things
<1>19. Takes(things, rest, shown, parents)
  BY <1>8, <1>11, <1>14, <1>15, <1>16, <1>17 DEF Takes
<1> QED BY <1>19, TakenStub

\* The replies of a thread of its own.
LEMMA ContinueStep ==
  ASSUME TreeInv, Continue PROVE TreeInv'
<1> DEFINE stub == pending[Largest]
           top == stub.parent
           rest == RemoveAt(pending, Largest)
<1>0. /\ TreeTypes /\ Indexed /\ Stubbed /\ Frontier
      /\ names \in SUBSET Comments /\ gone \in SUBSET Comments /\ pending \in Seq(Stubs)
      /\ limit \in Nat /\ expansions \in 0 .. limit /\ expansions < limit
      /\ pending # <<>> /\ stub.kids = <<>> /\ phase = "expand" /\ phase' = "expand"
      /\ expansions' = expansions + 1 /\ UNCHANGED <<walkVars, limit, honest, gone>>
  BY DEF TreeInv, TreeTypes, Continue
<1>1. PICK below \in SUBSET (Subtree(top) \ gone) :
        /\ Rooted(below \ {top}, {top} \cup Replies(top))
        /\ LET shown == {top} \cup Replies(top) \cup below
               answer == Answer(shown, shown \ {top})
           IN  Absorb(answer.things) /\ pending' = rest \o answer.stubs
  BY DEF Continue
<1> DEFINE shown == {top} \cup Replies(top) \cup below
           parents == shown \ {top}
<1>2. Absorb(Answer(shown, parents).things) /\ pending' = rest \o Answer(shown, parents).stubs
  BY <1>1
<1>4. stub \in Stubs /\ stub \in ToSet(pending) /\ Largest \in DOMAIN pending
  BY <1>0, LargestIs
<1>5. top \in names /\ top \in Comments
  <2>1. Fits(stub) /\ top \in Roots
    BY <1>0, <1>4 DEF Stubbed
  <2>2. top \in Deep
    BY <1>0, <2>1 DEF Fits
  <2> QED BY <2>1, <2>2, Numbers, TreeFetchAssumption DEF Roots
<1>6. /\ rest \in Seq(Stubs) /\ ToSet(rest) \subseteq ToSet(pending)
      /\ ToSet(pending) \subseteq ToSet(rest) \cup {stub}
  <2> HIDE DEF Stubs
  <2> QED BY <1>0, <1>4, Without
<1>7. top = pending[Largest].parent /\ stub = pending[Largest]
  OBVIOUS
<1> HIDE DEF rest, stub, top
<1>9. shown \in SUBSET Comments /\ parents \in SUBSET (Comments \cup {0})
  BY <1>5 DEF Replies, Subtree
<1>10. Answer(shown, parents).things = shown
  <2> HIDE DEF shown, parents
  <2> QED BY <1>0, <1>9, AnswersFit
<1>11. parents \in SUBSET (names \cup shown \cup {0})
  OBVIOUS
<1>14. \A r \in ToSet(rest) : r.parent \in Roots /\ Fits(r)
  BY <1>0, <1>6 DEF Stubbed
<1>15. ASSUME NEW c \in Comments \ (names \cup shown \cup gone'), ReplyTo[c] \in names \cup shown \cup {0}
       PROVE  \/ ReplyTo[c] \in parents /\ c \notin shown \cup gone
              \/ \E r \in ToSet(rest) : Holds(r, c)
  <2>1. CASE ReplyTo[c] \in names \cup {0}
    <3>1. PICK s \in ToSet(pending) : Holds(s, c)
      BY <1>0, <1>15, <2>1 DEF Frontier, Roots
    <3>2. CASE s = stub
      <4>1. ReplyTo[c] = top
        BY <1>0, <1>7, <3>1, <3>2 DEF Holds, stub
      <4> QED BY <1>0, <1>15, <4>1 DEF Replies
    <3> QED BY <1>6, <3>1, <3>2
  <2>2. CASE ReplyTo[c] \notin names \cup {0}
    BY <1>0, <1>5, <1>15, <2>2
  <2> QED BY <2>1, <2>2
<1>16. gone' \in SUBSET Comments /\ phase # "order" /\ expansions' \in 0 .. limit
  BY <1>0
<1>17. Absorb(shown) /\ pending' = rest \o Answer(shown, parents).stubs
  BY <1>2, <1>10
<1>18. UNCHANGED <<walkVars, limit, honest>>
  BY <1>0
<1> HIDE DEF shown, parents
<1>19. Takes(shown, rest, shown, parents)
  BY <1>0, <1>6, <1>9, <1>11, <1>14, <1>15, <1>16, <1>17, <1>18 DEF Takes
<1> QED BY <1>19, TakenStub

-----------------------------------------------------------------------------
(* The walk.                                                                *)

\* The replies pushed: each once, stamped with the depth.
LEMMA PushedIs ==
  ASSUME TreeTypes, Indexed, NEW p \in Comments \cup {0}, NEW d \in Nat
  PROVE  /\ Pushed(p, d) \in Seq(Entries) /\ Distinct(Pushed(p, d))
         /\ \A e \in ToSet(Pushed(p, d)) : e.id \in names /\ ReplyTo[e.id] = p /\ e.depth = d
         /\ \A c \in names : ReplyTo[c] = p => [id |-> c, depth |-> d] \in ToSet(Pushed(p, d))
<1> DEFINE s == byParent[p]
           n == Len(s)
           stamped == [i \in DOMAIN s |-> [id |-> s[i], depth |-> d]]
<1>1. /\ n \in Nat /\ DOMAIN s = 1 .. n /\ \A i \in 1 .. n : s[i] \in Comments
      /\ \A i, j \in 1 .. n : s[i] = s[j] => i = j
      /\ \A i \in 1 .. n : s[i] \in names /\ ReplyTo[s[i]] = p
      /\ \A c \in names : ReplyTo[c] = p => \E i \in 1 .. n : s[i] = c
  <2>1. s \in Seq(Comments) /\ Distinct(s) /\ ToSet(s) = {c \in names : ReplyTo[c] = p}
    BY DEF TreeTypes, Indexed
  <2>2. n \in Nat /\ DOMAIN s = 1 .. n /\ \A i \in 1 .. n : s[i] \in Comments
    <3> HIDE DEF s
    <3> QED BY <2>1, LenProperties, ElementOfSeq
  <2> QED BY <2>1, <2>2 DEF Distinct, ToSet
<1> HIDE DEF s
<1>2. stamped \in Seq(Entries) /\ Len(stamped) = n /\ \A i \in 1 .. n : stamped[i] = [id |-> s[i], depth |-> d]
  <2> HIDE DEF n
  <2> QED BY <1>1 DEF Entries
<1>3. Pushed(p, d) = [i \in 1 .. n |-> stamped[n - i + 1]]
  <2>1. Pushed(p, d) = Reverse(stamped)
    BY DEF Pushed, s
  <2> HIDE DEF stamped
  <2> QED BY <1>2, <2>1 DEF Reverse
<1> HIDE DEF n, stamped
<1>4. \A i \in 1 .. n : n - i + 1 \in 1 .. n /\ n - (n - i + 1) + 1 = i
  BY <1>1
<1>5. /\ Pushed(p, d) \in Seq(Entries) /\ DOMAIN Pushed(p, d) = 1 .. n
      /\ \A i \in 1 .. n : Pushed(p, d)[i] = [id |-> s[n - i + 1], depth |-> d]
  <2>1. \A i \in 1 .. n : stamped[n - i + 1] = [id |-> s[n - i + 1], depth |-> d]
    BY <1>2, <1>4
  <2>2. ASSUME NEW i \in 1 .. n PROVE stamped[n - i + 1] \in Entries
    <3>1. s[n - i + 1] \in Comments
      BY <1>1, <1>4
    <3>2. stamped[n - i + 1] = [id |-> s[n - i + 1], depth |-> d]
      BY <2>1
    <3> QED BY <3>1, <3>2 DEF Entries
  <2>3. DOMAIN Pushed(p, d) = 1 .. n /\ \A i \in 1 .. n : Pushed(p, d)[i] = stamped[n - i + 1]
    BY <1>3
  <2>4. Pushed(p, d) \in Seq(Entries)
    BY <1>1, <1>3, <2>2
  <2> QED BY <2>1, <2>3, <2>4
<1>6. Distinct(Pushed(p, d))
  <2> SUFFICES ASSUME NEW i \in 1 .. n, NEW j \in 1 .. n, Pushed(p, d)[i] = Pushed(p, d)[j] PROVE i = j
    BY <1>5 DEF Distinct
  <2>1. s[n - i + 1] = s[n - j + 1]
    BY <1>5
  <2>2. n - i + 1 = n - j + 1
    BY <1>1, <1>4, <2>1
  <2> QED BY <1>1, <2>2
<1>7. \A e \in ToSet(Pushed(p, d)) : e.id \in names /\ ReplyTo[e.id] = p /\ e.depth = d
  BY <1>1, <1>4, <1>5 DEF ToSet
<1>8. ASSUME NEW c \in names, ReplyTo[c] = p PROVE [id |-> c, depth |-> d] \in ToSet(Pushed(p, d))
  <2>1. PICK i \in 1 .. n : s[i] = c
    BY <1>1, <1>8
  <2>2. Pushed(p, d)[n - i + 1] = [id |-> c, depth |-> d] /\ n - i + 1 \in 1 .. n
    <3>1. n - i + 1 \in 1 .. n /\ n - (n - i + 1) + 1 = i
      BY <1>4
    <3> QED BY <1>5, <2>1, <3>1
  <2> QED BY <1>5, <2>2 DEF ToSet
<1> QED BY <1>5, <1>6, <1>7, <1>8

\* A sequence and its last element.
LEMMA LastIs ==
  ASSUME NEW T, NEW s \in Seq(T), s # <<>>, Distinct(s)
  PROVE  /\ Last(s) \in ToSet(s) /\ Last(s) \in T
         /\ Front(s) \in Seq(T) /\ Distinct(Front(s)) /\ ToSet(Front(s)) = ToSet(s) \ {Last(s)}
<1> DEFINE n == Len(s)
           f == Front(s)
<1>1. n \in Nat \ {0} /\ DOMAIN s = 1 .. n /\ \A i \in 1 .. n : s[i] \in T
  BY LenProperties, EmptySeq, ElementOfSeq
<1>2. Last(s) = s[n] /\ n \in 1 .. n
  BY <1>1 DEF Last
<1>3. f \in Seq(T) /\ Len(f) = n - 1 /\ \A i \in 1 .. n - 1 : f[i] = s[i]
  BY <1>1 DEF Front
<1>4. DOMAIN f = 1 .. n - 1
  <2> HIDE DEF f, n
  <2> QED BY <1>3, LenProperties
<1> HIDE DEF f, n
<1>5. \A i \in 1 .. n - 1 : i \in 1 .. n /\ i # n
  BY <1>1
<1>6. \A i, j \in 1 .. n : s[i] = s[j] => i = j
  BY <1>1 DEF Distinct
<1>7. Distinct(f)
  BY <1>3, <1>4, <1>5, <1>6 DEF Distinct
<1>8. ToSet(f) \subseteq ToSet(s) \ {s[n]}
  BY <1>1, <1>2, <1>3, <1>4, <1>5, <1>6 DEF ToSet
<1>9. ASSUME NEW i \in 1 .. n, i # n PROVE s[i] \in ToSet(f)
  <2>1. i \in 1 .. n - 1
    BY <1>1, <1>9
  <2> QED BY <1>3, <1>4, <2>1 DEF ToSet
<1>10. ToSet(s) \ {s[n]} \subseteq ToSet(f)
  BY <1>1, <1>9 DEF ToSet
<1> QED BY <1>1, <1>2, <1>3, <1>7, <1>8, <1>10 DEF f, ToSet

\* ordered begins with the top-level comments on the stack.
LEMMA DoneStep ==
  ASSUME TreeInv, Done PROVE TreeInv'
<1>1. /\ TreeTypes /\ Indexed /\ Stubbed /\ Frontier
      /\ phase = "expand" /\ phase' = "order" /\ stack' = Pushed(0, 0) /\ ordered = <<>> /\ ordered' = ordered
      /\ UNCHANGED <<byParent, pending, names, expansions, limit, honest, gone>>
  BY DEF Done, TreeInv, TreeTypes
<1>2. /\ stack' \in Seq(Entries) /\ Distinct(stack')
      /\ \A e \in ToSet(stack') : e.id \in names /\ ReplyTo[e.id] = 0 /\ e.depth = 0
      /\ \A c \in names : ReplyTo[c] = 0 => [id |-> c, depth |-> 0] \in ToSet(stack')
  <2>1. 0 \in Nat /\ 0 \in Comments \cup {0}
    OBVIOUS
  <2> QED BY <1>1, <2>1, PushedIs
<1>3. TreeTypes' /\ Indexed' /\ Stubbed' /\ Frontier'
  <2>1. TreeTypes'
    BY <1>1, <1>2 DEF TreeTypes, Stubs, Entries
  <2>2. Indexed' /\ Frontier'
    BY <1>1 DEF Indexed, Frontier, Roots, Holds, ToSet
  <2>3. Stubbed'
    BY <1>1 DEF Stubbed, Fits, Roots, ToSet
  <2> QED BY <2>1, <2>2, <2>3
<1>4. ToSet(ordered') = {} /\ Captured' = {} /\ Distinct(ordered') /\ DOMAIN ordered' = {}
  BY <1>1 DEF ToSet, Captured, Distinct
<1>5. Walked'
  <2>1. \A c \in names : ReplyTo[c] = 0 => Depth[c] = 0
    BY <1>1, DepthIs DEF TreeTypes
  <2>2. \A e \in ToSet(stack') : e.id \in names /\ e.depth = Depth[e.id]
    BY <1>2, <2>1
  <2>3. \A c \in names : Stamp(c) \in ToSet(stack') <=> ReplyTo[c] = 0
    BY <1>2, <2>1 DEF Stamp
  <2>4. ToSet(ordered)' = {} /\ ToSet(stack)' = ToSet(stack') /\ Distinct(ordered)' /\ Distinct(stack)'
        /\ \A c : Stamp(c)' = Stamp(c)
    BY <1>2, <1>4 DEF ToSet, Distinct, Stamp
  <2> QED BY <1>1, <1>4, <2>2, <2>3, <2>4 DEF Walked
<1> QED BY <1>3, <1>5 DEF TreeInv

\* The comment on top of the stack is visited: its replies are not yet on it.
LEMMA VisitStep ==
  ASSUME TreeInv, Visit PROVE TreeInv'
<1> DEFINE top == Last(stack)
           front == Front(stack)
           more == Pushed(top.id, top.depth + 1)
<1>1. /\ TreeTypes /\ Indexed /\ Stubbed /\ Frontier /\ Walked
      /\ phase = "order" /\ phase' = "order" /\ stack # <<>>
      /\ ordered' = Append(ordered, top) /\ stack' = front \o more
      /\ UNCHANGED <<byParent, pending, names, expansions, limit, honest, gone>>
      /\ stack \in Seq(Entries) /\ ordered \in Seq(Entries) /\ names \subseteq Comments
  BY DEF Visit, TreeInv, TreeTypes
<1>2. /\ \A e \in ToSet(ordered) \cup ToSet(stack) : e.id \in names /\ e.depth = Depth[e.id]
      /\ Distinct(ordered) /\ Distinct(stack) /\ ToSet(ordered) \cap ToSet(stack) = {}
      /\ \A c \in names :
           Stamp(c) \in ToSet(ordered) \cup ToSet(stack) <=> ReplyTo[c] \in Captured \cup {0}
      /\ \A i \in DOMAIN ordered :
           ReplyTo[ordered[i].id] # 0 => \E j \in 1 .. i - 1 : ordered[j].id = ReplyTo[ordered[i].id]
  BY <1>1 DEF Walked
<1>3. /\ top \in ToSet(stack) /\ top \in Entries
      /\ front \in Seq(Entries) /\ Distinct(front) /\ ToSet(front) = ToSet(stack) \ {top}
  <2> HIDE DEF Entries
  <2> QED BY <1>1, <1>2, LastIs
<1>4. top.id \in names /\ top.depth = Depth[top.id] /\ top.depth \in Nat /\ top.id \in Comments
  BY <1>1, <1>2, <1>3 DEF Entries
<1> HIDE DEF top, front
<1>5. /\ more \in Seq(Entries) /\ Distinct(more)
      /\ \A e \in ToSet(more) : e.id \in names /\ ReplyTo[e.id] = top.id /\ e.depth = top.depth + 1
      /\ \A c \in names : ReplyTo[c] = top.id => [id |-> c, depth |-> top.depth + 1] \in ToSet(more)
  <2>1. top.depth + 1 \in Nat /\ top.id \in Comments \cup {0}
    BY <1>4
  <2> QED BY <1>1, <2>1, PushedIs
<1> HIDE DEF more
<1>6. \A c \in names : ReplyTo[c] = top.id => Depth[c] = top.depth + 1
  <2> SUFFICES ASSUME NEW c \in names, ReplyTo[c] = top.id PROVE Depth[c] = top.depth + 1
    OBVIOUS
  <2>1. Depth[c] = IF ReplyTo[c] = 0 THEN 0 ELSE 1 + Depth[ReplyTo[c]]
    BY <1>1, DepthIs
  <2>2. top.id # 0
    BY <1>4, Numbers
  <2> QED BY <1>4, <2>1, <2>2
<1>7. \A e \in Entries : e.depth = Depth[e.id] => e = Stamp(e.id)
  BY DEF Entries, Stamp
<1>8. \A e \in ToSet(ordered) \cup ToSet(stack) \cup ToSet(more) : e \in Entries /\ e.id \in names /\ e = Stamp(e.id)
  <2>1. ToSet(ordered) \subseteq Entries /\ ToSet(stack) \subseteq Entries /\ ToSet(more) \subseteq Entries
    <3>1. \A s \in Seq(Entries) : ToSet(s) \subseteq Entries
      <4> SUFFICES ASSUME NEW s \in Seq(Entries), NEW i \in DOMAIN s PROVE s[i] \in Entries
        BY DEF ToSet
      <4> HIDE DEF Entries
      <4> QED BY LenProperties, ElementOfSeq
    <3> QED BY <1>1, <1>5, <3>1
  <2>2. \A e \in ToSet(ordered) \cup ToSet(stack) \cup ToSet(more) : e.id \in names /\ e.depth = Depth[e.id]
    BY <1>2, <1>5, <1>6
  <2> QED BY <1>7, <2>1, <2>2
<1>9. top.id \notin Captured
  <2>1. top \notin ToSet(ordered)
    BY <1>2, <1>3
  <2>2. ASSUME NEW e \in ToSet(ordered), e.id = top.id PROVE FALSE
    BY <1>3, <1>8, <2>1, <2>2
  <2> QED BY <2>2 DEF Captured, ToSet
<1>10. ToSet(more) \cap (ToSet(ordered) \cup ToSet(stack)) = {}
  <2> SUFFICES ASSUME NEW e \in ToSet(more), e \in ToSet(ordered) \cup ToSet(stack) PROVE FALSE
    OBVIOUS
  <2>1. ReplyTo[e.id] = top.id /\ e.id \in names /\ Stamp(e.id) \in ToSet(ordered) \cup ToSet(stack)
    BY <1>5, <1>8
  <2>2. top.id \in Captured \cup {0}
    BY <1>2, <2>1
  <2> QED BY <1>4, <1>9, <2>2, Numbers
<1>11. stack' \in Seq(Entries) /\ ToSet(stack') = ToSet(front) \cup ToSet(more) /\ Distinct(stack')
  <2>1. ToSet(front) \cap ToSet(more) = {}
    BY <1>3, <1>10
  <2> HIDE DEF Entries
  <2> QED BY <1>1, <1>3, <1>5, <2>1, Joined
<1>12. /\ ordered' \in Seq(Entries) /\ ToSet(ordered') = ToSet(ordered) \cup {top} /\ Distinct(ordered')
       /\ Len(ordered) \in Nat /\ Len(ordered') = Len(ordered) + 1 /\ DOMAIN ordered = 1 .. Len(ordered)
       /\ DOMAIN ordered' = 1 .. Len(ordered) + 1
       /\ \A i \in 1 .. Len(ordered) : ordered'[i] = ordered[i]
       /\ ordered'[Len(ordered) + 1] = top
  <2> HIDE DEF Entries
  <2> DEFINE one == <<top>>
  <2>1. ordered' = ordered \o one /\ one \in Seq(Entries)
    BY <1>1, <1>3, AppendIsConcat
  <2>2. ToSet(one) = {top} /\ Distinct(one)
    BY DEF ToSet, Distinct
  <2> HIDE DEF one
  <2>3. ToSet(ordered) \cap {top} = {}
    BY <1>2, <1>3
  <2>4. ordered' \in Seq(Entries) /\ ToSet(ordered') = ToSet(ordered) \cup {top} /\ Distinct(ordered')
    BY <1>1, <1>2, <2>1, <2>2, <2>3, Joined
  <2>5. /\ Len(ordered') = Len(ordered) + 1
        /\ \A i \in 1 .. Len(ordered) : ordered'[i] = ordered[i]
        /\ ordered'[Len(ordered) + 1] = top
    BY <1>1, <1>3, AppendProperties
  <2>6. Len(ordered) \in Nat /\ DOMAIN ordered = 1 .. Len(ordered) /\ DOMAIN ordered' = 1 .. Len(ordered')
    BY <1>1, <2>4, LenProperties
  <2> QED BY <2>4, <2>5, <2>6
<1>13. ToSet(ordered') \cup ToSet(stack') = ToSet(ordered) \cup ToSet(stack) \cup ToSet(more)
  BY <1>3, <1>11, <1>12
<1>14. Captured' = Captured \cup {top.id}
  <2>1. Captured' = {e.id : e \in ToSet(ordered')} /\ Captured = {e.id : e \in ToSet(ordered)}
    BY DEF Captured, ToSet
  <2> QED BY <1>12, <2>1
<1>15. TreeTypes' /\ Indexed' /\ Stubbed' /\ Frontier'
  <2>1. TreeTypes'
    BY <1>1, <1>11, <1>12 DEF TreeTypes, Stubs, Entries
  <2>2. Indexed' /\ Frontier'
    BY <1>1 DEF Indexed, Frontier, Roots, Holds, ToSet
  <2>3. Stubbed'
    BY <1>1 DEF Stubbed, Fits, Roots, ToSet
  <2> QED BY <2>1, <2>2, <2>3
<1>16. \A c \in names : Stamp(c) \in ToSet(ordered') \cup ToSet(stack') <=> ReplyTo[c] \in Captured' \cup {0}
  <2> SUFFICES ASSUME NEW c \in names
               PROVE  Stamp(c) \in ToSet(ordered) \cup ToSet(stack) \cup ToSet(more)
                        <=> ReplyTo[c] \in Captured \cup {top.id, 0}
    BY <1>13, <1>14
  <2>1. Stamp(c) \in ToSet(more) <=> ReplyTo[c] = top.id
    <3>1. ASSUME Stamp(c) \in ToSet(more) PROVE ReplyTo[c] = top.id
      BY <1>5, <3>1 DEF Stamp
    <3>2. ASSUME ReplyTo[c] = top.id PROVE Stamp(c) \in ToSet(more)
      BY <1>5, <1>6, <3>2 DEF Stamp
    <3> QED BY <3>1, <3>2
  <2> QED BY <1>2, <2>1
<1>17. ASSUME NEW i \in DOMAIN ordered', ReplyTo[ordered'[i].id] # 0
       PROVE  \E j \in 1 .. i - 1 : ordered'[j].id = ReplyTo[ordered'[i].id]
  <2>1. CASE i \in 1 .. Len(ordered)
    <3>1. PICK j \in 1 .. i - 1 : ordered[j].id = ReplyTo[ordered[i].id]
      BY <1>2, <1>12, <1>17, <2>1
    <3>2. j \in 1 .. Len(ordered)
      BY <1>12, <2>1
    <3> QED BY <1>12, <2>1, <3>1, <3>2
  <2>2. CASE i = Len(ordered) + 1
    <3>1. ordered'[i] = top
      BY <1>12, <2>2
    <3>2. Stamp(top.id) \in ToSet(stack)
      BY <1>3, <1>8
    <3>3. ReplyTo[top.id] \in Captured
      BY <1>2, <1>4, <1>17, <3>1, <3>2
    <3>4. PICK j \in 1 .. Len(ordered) : ordered[j].id = ReplyTo[top.id]
      BY <1>12, <3>3 DEF Captured
    <3>5. j \in 1 .. i - 1 /\ ordered'[j] = ordered[j]
      BY <1>12, <2>2
    <3> QED BY <3>1, <3>4, <3>5
  <2> QED BY <1>12, <2>1, <2>2
<1>18. Walked'
  <2>1. \A e \in ToSet(ordered') \cup ToSet(stack') : e.id \in names /\ e.depth = Depth[e.id]
    BY <1>8, <1>13 DEF Stamp
  <2>2. ToSet(ordered') \cap ToSet(stack') = {}
    BY <1>2, <1>3, <1>10, <1>11, <1>12
  <2>3. /\ ToSet(ordered)' = ToSet(ordered') /\ ToSet(stack)' = ToSet(stack')
        /\ (Distinct(ordered)' <=> Distinct(ordered')) /\ (Distinct(stack)' <=> Distinct(stack'))
    BY DEF ToSet, Distinct
  <2>4. \A c : Stamp(c)' = Stamp(c)
    BY DEF Stamp
  <2> QED BY <1>1, <1>11, <1>12, <1>16, <1>17, <2>1, <2>2, <2>3, <2>4 DEF Walked
<1> QED BY <1>15, <1>18 DEF TreeInv

\* Nothing seen, nothing hidden.
LEMMA TreeStart == TreeInit => TreeInv
<1> SUFFICES ASSUME TreeInit PROVE TreeInv
  OBVIOUS
<1>1. /\ byParent = [p \in Comments \cup {0} |-> <<>>] /\ pending = <<>> /\ names = {} /\ gone = {}
      /\ expansions = 0 /\ limit \in Nat /\ honest \in BOOLEAN /\ phase = "base" /\ stack = <<>> /\ ordered = <<>>
  BY TreeFetchAssumption DEF TreeInit
<1>2. TreeTypes
  BY <1>1 DEF TreeTypes
<1>3. Indexed
  BY <1>1 DEF Indexed, Distinct, ToSet
<1> QED BY <1>1, <1>2, <1>3 DEF TreeInv, Stubbed, Frontier, Walked, ToSet

\* Every step keeps it.
LEMMA TreeStep == TreeInv /\ [TreeNext]_treeVars => TreeInv'
<1> SUFFICES ASSUME TreeInv, [TreeNext]_treeVars PROVE TreeInv'
  OBVIOUS
<1>1. CASE UNCHANGED treeVars
  <2>1. TreeTypes'
    BY <1>1 DEF treeVars, TreeInv, TreeTypes, Stubs, Entries
  <2>2. Indexed'
    BY <1>1 DEF treeVars, TreeInv, Indexed, Roots, Distinct, ToSet
  <2>4. Stubbed'
    BY <1>1 DEF treeVars, TreeInv, Stubbed, Fits, Roots, ToSet
  <2>5. Frontier'
    BY <1>1 DEF treeVars, TreeInv, Frontier, Roots, Holds, ToSet
  <2>3. Walked'
    BY <1>1 DEF treeVars, TreeInv, Walked, Stamp, Captured, Distinct, ToSet
  <2> QED BY <2>1, <2>2, <2>3, <2>4, <2>5 DEF TreeInv
<1> QED BY <1>1, BaseStep, ExpandStep, ContinueStep, DoneStep, VisitStep DEF TreeNext

\* It holds of every walk.
LEMMA TreeInvariant == TreeSpec => []TreeInv
<1> QED BY TreeStart, TreeStep, PTL DEF TreeSpec

-----------------------------------------------------------------------------
(* What is returned.                                                        *)

\* The comments returned are those whose whole thread was seen.
LEMMA AllVisited ==
  ASSUME TreeInv, Returned PROVE Captured = {c \in names : Above[c] \subseteq names}
<1>1. /\ ToSet(stack) = {} /\ names \subseteq Comments /\ phase = "order" /\ ordered \in Seq(Entries)
      /\ \A e \in ToSet(ordered) : e.id \in names /\ e.depth = Depth[e.id]
      /\ \A c \in names : Stamp(c) \in ToSet(ordered) <=> ReplyTo[c] \in Captured \cup {0}
  BY DEF TreeInv, TreeTypes, Walked, Returned, ToSet
<1>2. Captured = {e.id : e \in ToSet(ordered)}
  BY DEF Captured, ToSet
<1>3. \A c \in names : c \in Captured <=> Stamp(c) \in ToSet(ordered)
  <2> SUFFICES ASSUME NEW c \in names PROVE c \in Captured <=> Stamp(c) \in ToSet(ordered)
    OBVIOUS
  <2>1. Stamp(c) \in ToSet(ordered) => c \in Captured
    <3>1. Stamp(c).id = c
      BY DEF Stamp
    <3> QED BY <1>2, <3>1
  <2>2. ASSUME NEW e \in ToSet(ordered), e.id = c PROVE Stamp(c) = e
    <3>1. e \in Entries
      <4> HIDE DEF Entries
      <4> QED BY <1>1, LenProperties, ElementOfSeq DEF ToSet
    <3> QED BY <1>1, <2>2, <3>1 DEF Stamp, Entries
  <2> QED BY <1>2, <2>1, <2>2
<1>4. Captured \subseteq names
  BY <1>1, <1>2
<1> DEFINE S == {c \in Comments : c \in Captured <=> Above[c] \subseteq names}
<1>5. ASSUME NEW c \in Comments, ReplyTo[c] = 0 \/ ReplyTo[c] \in S PROVE c \in S
  <2>1. Above[c] = {c} \cup (IF ReplyTo[c] = 0 THEN {} ELSE Above[ReplyTo[c]])
    BY AboveIs
  <2>2. CASE ReplyTo[c] = 0
    BY <1>1, <1>3, <1>4, <2>1, <2>2
  <2>3. CASE ReplyTo[c] # 0 /\ ReplyTo[c] \in S
    BY <1>1, <1>3, <1>4, <2>1, <2>3
  <2> QED BY <1>5, <2>2, <2>3
<1>6. Comments \subseteq S
  <2> HIDE DEF S
  <2> QED BY <1>5, ThreadInduction
<1> QED BY <1>1, <1>4, <1>6

\* A comment whose thread was not all seen, with nothing of it lost, is behind a stub that is
\* pending.
LEMMA RestIsHidden ==
  ASSUME TreeInv, phase # "base", NEW c \in Comments, Above[c] \cap gone = {}, ~(Above[c] \subseteq names)
  PROVE  c \in StillHidden
<1> DEFINE Hides(d) == \E stub \in ToSet(pending) :
                         IF stub.kids = <<>> THEN stub.parent \in Above[d]
                         ELSE Above[d] \cap ToSet(stub.kids) # {}
           S == {d \in Comments : Above[d] \subseteq names \/ Above[d] \cap gone # {} \/ Hides(d)}
<1>1. Frontier /\ Stubbed
  BY DEF TreeInv
<1>2. ASSUME NEW d \in Comments, ReplyTo[d] = 0 \/ ReplyTo[d] \in S PROVE d \in S
  <2> SUFFICES ASSUME ~(Above[d] \subseteq names), Above[d] \cap gone = {} PROVE Hides(d)
    OBVIOUS
  <2>0. /\ d \in Above[d] /\ (ReplyTo[d] # 0 => Above[d] = {d} \cup Above[ReplyTo[d]])
        /\ (ReplyTo[d] = 0 => Above[d] = {d})
    BY AboveIs
  <2>1. CASE ReplyTo[d] # 0 /\ Hides(ReplyTo[d])
    BY <2>0, <2>1
  <2>2. CASE ReplyTo[d] = 0 \/ Above[ReplyTo[d]] \subseteq names
    <3>1. d \notin names /\ d \notin gone
      BY <2>0, <2>2
    <3>2. ReplyTo[d] \in Roots
      <4>1. CASE ReplyTo[d] # 0
        <5>1. ReplyTo[d] \in Comments
          BY <4>1, Numbers
        <5>2. ReplyTo[d] \in Above[ReplyTo[d]]
          BY <5>1, Lines
        <5> QED BY <2>2, <4>1, <5>2 DEF Roots
      <4> QED BY <4>1 DEF Roots
    <3>3. PICK stub \in ToSet(pending) : Holds(stub, d)
      BY <1>1, <3>1, <3>2 DEF Frontier
    <3>4. CASE stub.kids # <<>>
      BY <2>0, <3>3, <3>4 DEF Holds
    <3>5. CASE stub.kids = <<>>
      <4>1. stub.parent = ReplyTo[d] /\ stub.parent \in Deep
        BY <1>1, <3>3, <3>5 DEF Holds, Stubbed, Fits
      <4>2. ReplyTo[d] # 0 /\ ReplyTo[d] \in Comments
        BY <4>1, Numbers, TreeFetchAssumption
      <4>3. ReplyTo[d] \in Above[ReplyTo[d]]
        BY <4>2, Lines
      <4> QED BY <2>0, <3>3, <3>5, <4>1, <4>2, <4>3
    <3> QED BY <3>4, <3>5
  <2>3. ReplyTo[d] # 0 => Above[ReplyTo[d]] \cap gone = {}
    BY <2>0
  <2> HIDE DEF Hides
  <2> QED BY <1>2, <2>1, <2>2, <2>3
<1>3. Comments \subseteq S
  <2> HIDE DEF S
  <2> QED BY <1>2, ThreadInduction
<1>4. PICK i \in DOMAIN pending :
        IF pending[i].kids = <<>> THEN pending[i].parent \in Above[c]
        ELSE Above[c] \cap ToSet(pending[i].kids) # {}
  BY <1>3 DEF ToSet
<1> QED BY <1>4 DEF StillHidden, Subtree, Behind

\* Sets are not larger together than the numbers they are counted by.
LEMMA SumIs ==
  ASSUME NEW s \in Seq(Nat), NEW B,
         \A i \in DOMAIN s : B[i] \in SUBSET Comments /\ Cardinality(B[i]) <= s[i]
  PROVE  Total(s) \in Nat /\ Cardinality(UNION {B[i] : i \in DOMAIN s}) <= Total(s)
<1> DEFINE D == DOMAIN s
           All(S) == UNION {B[i] : i \in S}
<1>1. IsFiniteSet(D) /\ \A i \in D : s[i] \in Nat
  BY Terms
<1>2. PICK f : Sums(f, s) /\ Total(s) = f[D]
  BY Totals
<1>3. \A i \in D : B[i] \in SUBSET Comments /\ Cardinality(B[i]) <= s[i]
  OBVIOUS
<1>4. f \in [SUBSET D -> Nat] /\ f[{}] = 0 /\ \A S \in SUBSET D : \A x \in S : f[S] = s[x] + f[S \ {x}]
  BY <1>2 DEF Sums
<1> HIDE DEF D
<1> DEFINE M == {n \in Nat : \A S \in SUBSET D : Cardinality(S) <= n => Cardinality(All(S)) <= f[S]}
<1>5. 0 \in M
  <2> SUFFICES ASSUME NEW S \in SUBSET D, Cardinality(S) <= 0 PROVE Cardinality(All(S)) <= f[S]
    OBVIOUS
  <2>1. S = {}
    BY <1>1, FS_Subset, FS_CardinalityType, FS_EmptySet
  <2>2. f[S] = 0 /\ All(S) = {}
    BY <1>4, <2>1
  <2>3. Cardinality(All(S)) = 0
    BY <2>2, FS_EmptySet
  <2> HIDE DEF All
  <2> QED BY <2>2, <2>3
<1>6. ASSUME NEW n \in Nat, n \in M PROVE n + 1 \in M
  <2> HIDE DEF All
  <2> SUFFICES ASSUME NEW S \in SUBSET D, Cardinality(S) <= n + 1 PROVE Cardinality(All(S)) <= f[S]
    OBVIOUS
  <2>1. CASE Cardinality(S) <= n
    BY <1>6, <2>1
  <2>2. CASE S # {}
    <3>1. PICK x : x \in S
      BY <2>2
    <3> DEFINE R == S \ {x}
    <3>2. R \in SUBSET D /\ Cardinality(R) <= n /\ s[x] \in Nat /\ x \in D
      <4>1. IsFiniteSet(S)
        BY <1>1, FS_Subset
      <4>2. Cardinality(S) \in Nat /\ Cardinality(R) = Cardinality(S) - 1
        BY <3>1, <4>1, FS_RemoveElement, FS_CardinalityType
      <4>3. R \in SUBSET D /\ s[x] \in Nat /\ x \in D
        BY <1>1, <3>1
      <4> HIDE DEF R
      <4> QED BY <4>2, <4>3
    <3>3. Cardinality(All(R)) <= f[R] /\ f[R] \in Nat /\ f[S] = s[x] + f[R]
      <4>1. Cardinality(All(R)) <= f[R] /\ f[R] \in Nat
        <5> HIDE DEF R
        <5> QED BY <1>4, <1>6, <3>2
      <4>2. f[S] = s[x] + f[R]
        BY <1>4, <3>1
      <4> QED BY <4>1, <4>2
    <3>4. All(S) = B[x] \cup All(R)
      BY <3>1 DEF All
    <3>5. /\ B[x] \in SUBSET Comments /\ All(R) \in SUBSET Comments
          /\ Cardinality(B[x]) <= s[x]
      <4>1. All(R) \in SUBSET Comments
        BY <1>3, <3>2 DEF All
      <4> HIDE DEF R
      <4> QED BY <1>3, <3>2, <4>1
    <3> HIDE DEF R
    <3>6. PICK U \in SUBSET Comments, V \in SUBSET Comments : U = B[x] /\ V = All(R)
      BY <3>5
    <3>7. /\ Cardinality(U) \in Nat /\ Cardinality(V) \in Nat /\ Cardinality(U \cup V) \in Nat
          /\ Cardinality(U \cup V) <= Cardinality(U) + Cardinality(V)
      <4>1. IsFiniteSet(U) /\ IsFiniteSet(V) /\ Cardinality(U) \in Nat /\ Cardinality(V) \in Nat
        BY Numbers
      <4>2. Cardinality(U \cup V) = Cardinality(U) + Cardinality(V) - Cardinality(U \cap V)
        BY <4>1, FS_Union
      <4>3. IsFiniteSet(U \cap V) /\ Cardinality(U \cap V) \in Nat
        <5>1. IsFiniteSet(U \cap V)
          BY <4>1, FS_Subset
        <5> QED BY <5>1, FS_CardinalityType
      <4>4. Cardinality(U \cup V) \in Nat
        <5>1. U \cup V \in SUBSET Comments
          OBVIOUS
        <5> QED BY <5>1, Numbers
      <4> QED BY <4>1, <4>2, <4>3, <4>4
    <3>8. PICK a \in Nat, b \in Nat : a = s[x] /\ b = f[R]
      BY <3>2, <3>3
    <3>9. /\ All(S) = U \cup V /\ Cardinality(U) <= a /\ Cardinality(V) <= b /\ f[S] = a + b
      BY <3>3, <3>4, <3>5, <3>6, <3>8
    <3> QED BY <3>7, <3>9
  <2>3. S = {} => Cardinality(S) <= n
    BY FS_EmptySet
  <2> QED BY <2>1, <2>2, <2>3
<1>7. Nat \subseteq M
  <2> HIDE DEF M
  <2> QED BY <1>5, <1>6, Induction
<1>8. Cardinality(All(D)) <= f[D]
  <2>1. Cardinality(D) \in Nat
    BY <1>1, FS_CardinalityType
  <2>2. Cardinality(D) \in M
    <3> HIDE DEF M
    <3> QED BY <1>7, <2>1
  <2> HIDE DEF All
  <2> QED BY <2>1, <2>2
<1>9. f[D] \in Nat
  BY <1>4
<1> QED BY <1>2, <1>8, <1>9 DEF D

-----------------------------------------------------------------------------
(* The theorem.                                                             *)

\* A fetched tree hides nothing but what hangs from a comment Reddit lost: each comment once, at
\* its depth, after its parent; whatever else is not returned lies behind a stub that is
\* reported, and is counted.
THEOREM TreeIsWhole == TreeSpec => []NothingSlipsAway
<1>1. ASSUME TreeInv PROVE ResultIsWhole
  <2> SUFFICES ASSUME Returned PROVE ResultIsWhole
    BY DEF ResultIsWhole
  <2>1. /\ ordered \in Seq(Entries) /\ Distinct(ordered) /\ names \subseteq Comments /\ phase = "order"
        /\ \A e \in ToSet(ordered) : e.id \in names /\ e.depth = Depth[e.id]
        /\ \A i \in DOMAIN ordered :
             ReplyTo[ordered[i].id] # 0 => \E j \in 1 .. i - 1 : ordered[j].id = ReplyTo[ordered[i].id]
        /\ expansions <= limit
    BY <1>1 DEF TreeInv, TreeTypes, Walked, Returned
  <2>2. Len(ordered) = Cardinality(Captured)
    <3> DEFINE n == Len(ordered)
               f == [i \in 1 .. n |-> ordered[i].id]
    <3>1. n \in Nat /\ DOMAIN ordered = 1 .. n /\ \A i \in 1 .. n : ordered[i] \in Entries
      <4> HIDE DEF Entries
      <4> QED BY <2>1, LenProperties, ElementOfSeq
    <3> HIDE DEF n
    <3>2. ASSUME NEW i \in 1 .. n, NEW j \in 1 .. n, f[i] = f[j] PROVE i = j
      <4>1. ordered[i].id = ordered[j].id /\ ordered[i].depth = ordered[j].depth
        BY <2>1, <3>1, <3>2 DEF ToSet
      <4>2. ordered[i] = ordered[j]
        BY <3>1, <4>1 DEF Entries
      <4> QED BY <2>1, <3>1, <4>2 DEF Distinct
    <3>3. f \in [1 .. n -> Captured] /\ \A c \in Captured : \E i \in 1 .. n : f[i] = c
      BY <3>1 DEF Captured
    <3> HIDE DEF f
    <3>4. f \in Injection(1 .. n, Captured) /\ f \in Surjection(1 .. n, Captured)
      BY <3>2, <3>3 DEF Injection, IsInjective, Surjection
    <3>5. IsFiniteSet(1 .. n) /\ Cardinality(1 .. n) = n
      <4>1. (1 > n => n = 0) /\ n - 1 + 1 = n /\ n \in Int
        BY <3>1
      <4> QED BY <4>1, FS_Interval
    <3>6. Cardinality(Captured) = Cardinality(1 .. n)
      BY <3>4, <3>5, FS_Surjection
    <3> QED BY <3>5, <3>6 DEF n
  <2>3. \A i \in DOMAIN ordered : ordered[i].depth = Depth[ordered[i].id]
    BY <2>1 DEF ToSet
  <2>4. \A c \in Comments : Above[c] \subseteq names => c \in Captured
    <3>1. \A c \in Comments : c \in Above[c]
      BY AboveIs
    <3> QED BY <1>1, <3>1, AllVisited
  <2>5. Comments \ (Captured \cup Behind(gone)) \subseteq StillHidden
    BY <1>1, <2>1, <2>4, RestIsHidden DEF Behind
  <2>6. Complete => Comments \ Behind(gone) \subseteq Captured
    <3>1. pending = <<>> => StillHidden = {}
      BY DEF StillHidden
    <3> QED BY <2>5, <3>1 DEF Complete
  <2> QED BY <2>1, <2>2, <2>3, <2>5, <2>6 DEF ResultIsWhole
<1>2. ASSUME TreeInv PROVE HiddenAreCounted
  <2> SUFFICES ASSUME Returned, honest, \A i \in DOMAIN pending : pending[i].count > 0
               PROVE  Cardinality(Comments \ (Captured \cup Behind(gone)))
                        <= Total([i \in DOMAIN pending |-> pending[i].count])
    BY DEF HiddenAreCounted, Total
  <2>1. /\ pending \in Seq(Stubs) /\ phase # "base"
        /\ \A c \in Comments : Above[c] \subseteq names => c \in Captured
    <3>1. \A c \in Comments : c \in Above[c]
      BY AboveIs
    <3> QED BY <1>2, <3>1, AllVisited DEF TreeInv, TreeTypes, Returned
  <2>2. \A i \in DOMAIN pending : pending[i].kids # <<>> /\ pending[i].count >= Cardinality(Behind(ToSet(pending[i].kids)))
    <3> SUFFICES ASSUME NEW i \in DOMAIN pending
                 PROVE  pending[i].kids # <<>> /\ pending[i].count >= Cardinality(Behind(ToSet(pending[i].kids)))
      OBVIOUS
    <3>1. Fits(pending[i]) /\ pending[i].count > 0
      BY <1>2 DEF TreeInv, Stubbed, ToSet
    <3>2. pending[i].kids # <<>>
      BY <3>1 DEF Fits
    <3> QED BY <3>1, <3>2 DEF Fits
  <2> DEFINE B == [i \in DOMAIN pending |-> Behind(ToSet(pending[i].kids))]
  <2>3. \A i \in DOMAIN pending : B[i] \in SUBSET Comments /\ pending[i].count >= Cardinality(B[i])
    BY <2>2 DEF Behind
  <2>4. StillHidden = UNION {B[i] : i \in DOMAIN pending}
    BY <2>2 DEF StillHidden
  <2> DEFINE left == Comments \ (Captured \cup Behind(gone))
             counts == [i \in DOMAIN pending |-> pending[i].count]
             most == Total(counts)
  <2>5. most \in Nat /\ Cardinality(StillHidden) <= most
    <3>1. counts \in Seq(Nat)
      <4>1. Len(pending) \in Nat /\ DOMAIN pending = 1 .. Len(pending)
            /\ \A i \in DOMAIN pending : pending[i] \in Stubs
        <5> HIDE DEF Stubs
        <5> QED BY <2>1, LenProperties, ElementOfSeq
      <4>2. counts \in [1 .. Len(pending) -> Nat]
        BY <4>1 DEF Stubs
      <4> QED BY <4>1, <4>2, IsASeq
    <3>2. DOMAIN counts = DOMAIN pending
          /\ \A i \in DOMAIN pending : B[i] \in SUBSET Comments /\ Cardinality(B[i]) <= counts[i]
      <4> HIDE DEF B
      <4> QED BY <2>1, <2>3, Numbers
    <3> HIDE DEF B, counts
    <3> QED BY <2>4, <3>1, <3>2, SumIs
  <2>6. Cardinality(left) <= Cardinality(StillHidden)
    <3>1. left \subseteq StillHidden /\ StillHidden \in SUBSET Comments
      BY <1>2, <2>1, <2>3, <2>4, RestIsHidden DEF Behind
    <3>2. IsFiniteSet(StillHidden)
      BY <3>1, Numbers
    <3> HIDE DEF left
    <3> QED BY <3>1, <3>2, FS_Subset
  <2>7. Cardinality(left) \in Nat /\ Cardinality(StillHidden) \in Nat
    BY <2>3, <2>4, Numbers
  <2>8. Cardinality(left) <= most
    <3> HIDE DEF left, most, counts
    <3> QED BY <2>5, <2>6, <2>7
  <2> QED BY <2>8
<1> QED BY <1>1, <1>2, TreeInvariant, PTL DEF NothingSlipsAway

-----------------------------------------------------------------------------
(* An item of the fake Reddit.                                              *)

Payloads == [body : Bodies, named : BOOLEAN, category : Categories]

\* What a payload of this sort can look like: a comment has no category, a link post no
\* marker, and a post's marker comes with its category.
Fitting(w) ==
  /\ w \in Payloads
  /\ sort = "comment" => w.category = Null /\ w.body \in Texts \cup {DeletedMarker, RemovedMarker}
  /\ sort = "link" => w.body \in Texts \cup {EmptyText}
  /\ sort = "self" =>
       /\ w.body \in Texts \cup {DeletedMarker, RemovedMarker}
       /\ w.body = DeletedMarker => w.category = "deleted"
       /\ w.body = RemovedMarker => w.category \in Removers

\* What the world remembers of the item agrees with what its payload shows.
Remembers ==
  /\ state \in {"live", "hidden", "deleted", "removed"}
  /\ state = "hidden" => sort # "comment"
  /\ sort \in {"self", "link", "comment"}
  /\ Fitting(wire) /\ (original # Null => Fitting(original))
  /\ ~inherited => StateOf(Remembered) = "live"
  /\ state = "removed" => removedBy \in Removers
  /\ Plain /\ state = "removed" /\ sort # "comment" => wire.category = removedBy

WorldInv == Remembers /\ FakeIsUnderstood

\* What the state of a payload is: of a post, its category, of a comment, its marker.
LEMMA StateIs ==
  ASSUME NEW w, Fitting(w), sort \in {"self", "link", "comment"}
  PROVE  /\ sort # "comment" =>
              StateOf(w) = IF w.category = "deleted" THEN "deleted"
                           ELSE IF w.category # Null THEN "removed" ELSE "live"
         /\ sort = "comment" =>
              StateOf(w) = IF w.body = DeletedMarker THEN "deleted"
                           ELSE IF w.body = RemovedMarker THEN "removed" ELSE "live"
<1>1. /\ Null \notin {EmptyText, DeletedMarker, RemovedMarker, "deleted", "moderator", "reddit", "author"}
      /\ Texts \cap {EmptyText, DeletedMarker, RemovedMarker, Null} = {}
      /\ EmptyText # DeletedMarker /\ EmptyText # RemovedMarker /\ DeletedMarker # RemovedMarker
  BY DeletionAssumption DEF EmptyText, DeletedMarker, RemovedMarker
<1> HIDE DEF EmptyText, DeletedMarker, RemovedMarker
<1> QED BY <1>1 DEF Fitting, StateOf, Removers

\* It holds of a new item,
LEMMA WorldStart == WorldInit => WorldInv
<1> SUFFICES ASSUME WorldInit PROVE WorldInv
  OBVIOUS
<1>1. PICK t \in IF sort = "link" THEN {EmptyText} ELSE Bodytexts : wire = Payload(t, TRUE, Null)
  BY DEF WorldInit, Untouched
<1>2. t \in Bodies /\ t \notin {DeletedMarker, RemovedMarker}
  BY DeletionAssumption, WorldAssumption DEF Bodies, EmptyText, DeletedMarker, RemovedMarker
<1>3. Fitting(wire)
  BY <1>1, <1>2, WorldAssumption DEF WorldInit, Fitting, Payloads, Payload, Categories
<1>4. StateOf(wire) = "live"
  BY <1>1, <1>2, DeletionAssumption DEF StateOf, Payload
<1> QED BY <1>3, <1>4 DEF WorldInit, WorldInv, Remembers, FakeIsUnderstood, PayloadTells, LooksTell,
          TombstonesAreHidden, Remembered, Plain

\* What changes the payload: the first payload is remembered, and the new one shows the
\* state, or is excepted.
LEMMA ChangeStep ==
  ASSUME WorldInv, NEW w, NEW s, NEW by, NEW over, Becomes(w, s, by, over),
         Fitting(w), s \in {"live", "hidden", "deleted", "removed"},
         s = "hidden" => sort # "comment",
         s = "removed" => by \in Removers,
         Plain' => StateOf(w) = IF s = "hidden" THEN "live" ELSE s,
         Plain' /\ s = "removed" /\ sort # "comment" => w.category = by
  PROVE  WorldInv'
<1>1. Fitting(original') /\ original' # Null /\ Remembered' = Remembered
  BY WorldAssumption DEF Becomes, Remembered, WorldInv, Remembers, Fitting, Payloads
<1>2. Fitting(wire)' /\ (original # Null => Fitting(original))'
  BY <1>1 DEF Becomes, Fitting
<1>3. (~inherited => StateOf(Remembered) = "live")'
  BY <1>1 DEF Becomes, WorldInv, Remembers, StateOf
<1>4. PayloadTells'
  BY DEF Becomes, PayloadTells, StateOf
<1>5. LooksTell' /\ TombstonesAreHidden'
  BY DEF Becomes, Unseen, LooksTell, TombstonesAreHidden
<1> QED BY <1>2, <1>3, <1>4, <1>5 DEF Becomes, WorldInv, Remembers, FakeIsUnderstood

\* A look makes of the row what was done to the item.
LEMMA LookStep ==
  ASSUME WorldInv, NEW what \in {"listing", "tree", "info", "omission"}, Judged(what),
         what = "listing" => state = "live",
         what = "tree" /\ sort = "comment" /\ leaf => state # "deleted"
  PROVE  WorldInv'
<1> DEFINE o == Observation(FALSE)
<1>1. ASSUME what # "omission", Plain
      PROVE  row'.content \in IF row.content = "deleted_by_author" THEN {"deleted_by_author"} ELSE Told
  <2>1. row'.content = Decide(row.content, row.author, o, row.misses).content
    BY <1>1 DEF Judged
  <2>2. /\ o.body = wire.body /\ o.named = wire.named /\ o.category = wire.category
        /\ o.link = (sort = "link") /\ o.omitted = FALSE
    BY DEF Observation
  <2>3. Fitting(wire) /\ sort \in {"self", "link", "comment"}
        /\ StateOf(wire) = IF state = "hidden" THEN "live" ELSE state
    BY <1>1 DEF WorldInv, Remembers, FakeIsUnderstood, PayloadTells
  <2>4. CASE row.content = "deleted_by_author"
    BY <2>1, <2>4 DEF Decide
  <2>5. CASE row.content # "deleted_by_author"
    <3>1. row'.content = Judge(row.content, row.author, o, row.misses).content
      BY <2>1, <2>5 DEF Decide
    <3>2. CASE o.category = "deleted" \/ o.body = DeletedMarker
      <4>1. row'.content = "deleted_by_author"
        BY <3>1, <3>2, <2>2 DEF Judge, Settle
      <4>2. StateOf(wire) = "deleted"
        BY <3>2, <2>2, <2>3, StateIs DEF StateOf
      <4> QED BY <4>1, <4>2, <2>3, <2>5 DEF Told
    <3>3. CASE ~(o.category = "deleted" \/ o.body = DeletedMarker) /\ o.category # Null
      <4>1. row'.content = Classify(wire.category)
        BY <3>1, <3>3, <2>2 DEF Judge, Settle
      <4>2. sort # "comment" /\ state = "removed"
        BY <2>3, <2>2, <3>3, StateIs DEF Fitting
      <4> QED BY <4>1, <4>2, <1>1, <2>5 DEF WorldInv, Remembers, Told
    <3>4. CASE ~(o.category = "deleted" \/ o.body = DeletedMarker) /\ o.category = Null
      <4>1. o.body # Null
        BY <2>2, <2>3, DeletionAssumption DEF Fitting, EmptyText, DeletedMarker, RemovedMarker
      <4>2. CASE o.body = RemovedMarker
        <5>1. row'.content = "removed_by_moderator"
          BY <3>1, <3>4, <4>1, <4>2, <2>2 DEF Judge, Settle
        <5>2. sort = "comment"
          BY <4>2, <2>2, <2>3, <3>4, DeletionAssumption DEF Fitting, Removers, EmptyText, RemovedMarker
        <5>3. StateOf(wire) = "removed"
          BY <5>2, <2>2, <2>3, <3>4, <4>2, StateIs
        <5>4. state = "removed"
          BY <5>3, <2>3
        <5> QED BY <5>1, <5>2, <5>4, <2>5 DEF Told
      <4>3. CASE o.body # RemovedMarker
        <5>1. StateOf(wire) = "live"
          BY <4>3, <2>2, <2>3, <3>4, StateIs
        <5>2. state \in {"live", "hidden"}
          BY <5>1, <2>3
        <5>3. CASE PendingDeletion(o)
          <6>1. row'.content = Hold(row.content, row.author, row.misses, FALSE).content
            BY <3>1, <3>4, <4>1, <4>3, <5>3, <2>2 DEF Judge
          <6>2. row'.content \in {"gone", "gone_unconfirmed"}
            BY <6>1 DEF Hold
          <6> QED BY <6>2, <5>2, <5>3, <2>2, <2>5 DEF PendingDeletion, Told
        <5>4. CASE ~PendingDeletion(o)
          <6>1. row'.content = "live"
            BY <3>1, <3>4, <4>1, <4>3, <5>4, <2>2 DEF Judge, Settle
          <6> QED BY <6>1, <5>2, <5>4, <2>2, <2>5 DEF PendingDeletion, Told
        <5> QED BY <5>3, <5>4
      <4> QED BY <4>2, <4>3
    <3> QED BY <3>2, <3>3, <3>4
  <2> QED BY <2>4, <2>5
<1>2. Remembers' /\ PayloadTells' /\ Plain' = Plain /\ Told' = Told
  BY DEF Judged, WorldInv, Remembers, FakeIsUnderstood, PayloadTells, Plain, StateOf, Fitting, Remembered, Told
<1>3. LooksTell'
  BY <1>1, <1>2 DEF LooksTell, Judged
<1>4. TombstonesAreHidden'
  <2>1. Plain /\ what = "listing" => StateOf(wire) = "live"
    BY DEF WorldInv, FakeIsUnderstood, PayloadTells
  <2> QED BY <2>1, <1>2 DEF Judged, TombstonesAreHidden, StateOf
<1> QED BY <1>2, <1>3, <1>4 DEF WorldInv, FakeIsUnderstood

\* and every change and every look keeps it.
LEMMA WorldStep == WorldInv /\ [WorldNext]_worldVars => WorldInv'
<1> SUFFICES ASSUME WorldInv, [WorldNext]_worldVars PROVE WorldInv'
  OBVIOUS
<1>0. /\ Null \notin {EmptyText, DeletedMarker, RemovedMarker, "deleted", "moderator", "reddit", "author"}
      /\ Texts \cap {EmptyText, DeletedMarker, RemovedMarker, Null} = {}
      /\ EmptyText # DeletedMarker /\ EmptyText # RemovedMarker /\ DeletedMarker # RemovedMarker
  BY DeletionAssumption DEF EmptyText, DeletedMarker, RemovedMarker
<1>i. /\ Fitting(wire) /\ sort \in {"self", "link", "comment"} /\ wire \in Payloads
      /\ state \in {"live", "hidden", "deleted", "removed"} /\ (state = "hidden" => sort # "comment")
      /\ state = "removed" => removedBy \in Removers
  BY DEF WorldInv, Remembers, Fitting
<1> HIDE DEF EmptyText, DeletedMarker, RemovedMarker
<1>1. CASE Delete
  <2>1. /\ Tombstone(wire) \in Payloads /\ Tombstone(wire).named = FALSE
        /\ Tombstone(wire).body = IF sort = "link" THEN wire.body ELSE DeletedMarker
        /\ Tombstone(wire).category = IF sort = "comment" THEN wire.category ELSE "deleted"
    BY <1>i DEF Tombstone, Payloads, Bodies, Categories
  <2>2. Fitting(Tombstone(wire))
    BY <2>1, <1>i, <1>0 DEF Fitting
  <2>3. StateOf(Tombstone(wire)) = "deleted"
    BY <2>1, <2>2, <1>i, StateIs
  <2> QED BY <1>1, <2>2, <2>3, ChangeStep DEF Delete
<1>2. ASSUME NEW by \in Removers, RemoveItem(by) PROVE WorldInv'
  <2>1. /\ RemovedBy(wire, by) \in Payloads
        /\ RemovedBy(wire, by).body = IF sort = "link" THEN wire.body ELSE RemovedMarker
        /\ RemovedBy(wire, by).category = IF sort = "comment" THEN wire.category ELSE by
    BY <1>i DEF RemovedBy, Payloads, Bodies, Categories, Removers
  <2>2. Fitting(RemovedBy(wire, by))
    BY <2>1, <1>i, <1>0 DEF Fitting
  <2>3. StateOf(RemovedBy(wire, by)) = "removed"
    BY <2>1, <2>2, <1>i, <1>0, StateIs DEF Removers
  <2> QED BY <1>2, <2>1, <2>2, <2>3, ChangeStep DEF RemoveItem
<1>3. ASSUME NEW text \in Bodytexts, Edit(text) PROVE WorldInv'
  <2> DEFINE w == [wire EXCEPT !.body = text]
  <2>0. text \in Texts /\ text \notin {DeletedMarker, RemovedMarker}
    BY <1>0, WorldAssumption
  <2>1. w \in Payloads /\ w.body = text /\ w.category = wire.category
    BY <1>i, <2>0 DEF Payloads, Bodies
  <2> HIDE DEF w
  <2>2. Fitting(w)
    BY <2>0, <2>1, <1>i DEF Fitting
  <2>3. Becomes(w, state, removedBy,
                overwritten \/ (sort = "comment" /\ state \in {"deleted", "removed"}))
    BY <1>3 DEF Edit, w
  <2>4. ASSUME Plain' PROVE /\ StateOf(w) = IF state = "hidden" THEN "live" ELSE state
                            /\ state = "removed" /\ sort # "comment" => w.category = removedBy
    <3>1. Plain /\ ~(sort = "comment" /\ state \in {"deleted", "removed"})
      BY <2>3, <2>4 DEF Becomes, Plain
    <3>2. StateOf(wire) = IF state = "hidden" THEN "live" ELSE state
      BY <3>1 DEF WorldInv, FakeIsUnderstood, PayloadTells
    <3>3. StateOf(w) = StateOf(wire)
      BY <3>1, <3>2, <2>0, <2>1, <2>2, <1>i, StateIs
    <3> QED BY <3>1, <3>2, <3>3, <2>1 DEF WorldInv, Remembers
  <2> QED BY <2>2, <2>3, <2>4, <1>i, ChangeStep
<1>4. CASE DeleteAccount
  <2> DEFINE w == [wire EXCEPT !.named = FALSE]
  <2>1. w \in Payloads /\ w.body = wire.body /\ w.category = wire.category
    BY <1>i DEF Payloads
  <2> HIDE DEF w
  <2>2. Fitting(w) /\ StateOf(w) = StateOf(wire)
    BY <2>1, <1>i DEF Fitting, StateOf
  <2>3. Becomes(w, state, removedBy, overwritten)
    BY <1>4 DEF DeleteAccount, w
  <2>4. ASSUME Plain' PROVE /\ StateOf(w) = IF state = "hidden" THEN "live" ELSE state
                            /\ state = "removed" /\ sort # "comment" => w.category = removedBy
    <3>1. Plain
      BY <2>3, <2>4 DEF Becomes, Plain
    <3> QED BY <3>1, <2>1, <2>2 DEF WorldInv, Remembers, FakeIsUnderstood, PayloadTells
  <2> QED BY <2>2, <2>3, <2>4, <1>i, ChangeStep
<1>5. CASE Restore
  <2>1. wire' = Remembered /\ Remembered' = wire' /\ Fitting(wire)'
    BY <1>5 DEF Restore, Remembered, WorldInv, Remembers, Fitting
  <2>2. (~inherited => StateOf(wire) = "live")'
    BY <2>1, <1>5 DEF Restore, WorldInv, Remembers, StateOf
  <2>3. PayloadTells' /\ LooksTell' /\ TombstonesAreHidden'
    BY <2>2, <1>5 DEF Restore, Unseen, PayloadTells, Plain, LooksTell, TombstonesAreHidden
  <2> QED BY <2>1, <2>2, <2>3, <1>5, <1>i DEF Restore, WorldInv, Remembers, FakeIsUnderstood
<1>6. CASE Reload
  <2>1. wire' = wire /\ sort' = sort /\ original' = Null /\ state' = StateOf(wire) /\ Fitting(wire)'
        /\ StateOf(wire)' = StateOf(wire) /\ Remembered' = wire
        /\ StateOf(wire) \in {"live", "deleted", "removed"}
    BY <1>6, <1>i DEF Reload, Fitting, StateOf, Remembered
  <2>2. (~inherited => StateOf(Remembered) = "live")'
    BY <2>1, <1>6 DEF Reload, StateOf
  <2>3. /\ (state = "removed" => removedBy \in Removers)'
        /\ (state = "removed" /\ sort # "comment" => wire.category = removedBy)'
    <3> SUFFICES ASSUME StateOf(wire) = "removed"
                 PROVE  removedBy' \in Removers /\ (sort # "comment" => wire.category = removedBy')
      BY <2>1
    <3>1. removedBy' = IF wire.category = Null THEN "moderator" ELSE wire.category
      BY <1>6 DEF Reload, RemoverOf
    <3>2. wire.category # "deleted" /\ wire.category \in Categories
      BY <1>i, StateIs DEF Payloads, StateOf
    <3>3. sort # "comment" => wire.category # Null
      BY <1>i, <1>0, StateIs
    <3> QED BY <3>1, <3>2, <3>3 DEF Categories, Removers
  <2>4. PayloadTells' /\ LooksTell' /\ TombstonesAreHidden'
    BY <2>1, <1>6 DEF Reload, Unseen, PayloadTells, LooksTell, TombstonesAreHidden
  <2> QED BY <2>1, <2>2, <2>3, <2>4, <1>i DEF WorldInv, Remembers, FakeIsUnderstood
<1>7. CASE Visibility
  <2>1. /\ wire' = wire /\ sort' = sort /\ original' = original /\ removedBy' = removedBy
        /\ overwritten' = overwritten /\ inherited' = inherited /\ looked' = "nothing"
        /\ (state' = state \/ (state = "hidden" /\ state' = "live"))
    BY <1>7 DEF Visibility, Unseen
  <2>2. Plain' = Plain /\ Remembered' = Remembered /\ StateOf(wire)' = StateOf(wire)
        /\ StateOf(Remembered)' = StateOf(Remembered)
    BY <2>1 DEF Plain, Remembered, StateOf
  <2>3. Fitting(wire)' /\ (original # Null => Fitting(original))'
    BY <2>1 DEF WorldInv, Remembers, Fitting
  <2>4. PayloadTells' /\ LooksTell' /\ TombstonesAreHidden'
    BY <2>1, <2>2 DEF WorldInv, FakeIsUnderstood, PayloadTells, LooksTell, TombstonesAreHidden
  <2> QED BY <2>1, <2>2, <2>3, <2>4, <1>i DEF WorldInv, Remembers, FakeIsUnderstood
<1>8. CASE LookAtListing
  BY <1>8, LookStep DEF LookAtListing, Listed
<1>9. CASE LookAtTree
  BY <1>9, LookStep DEF LookAtTree, InTree
<1>10. CASE LookUp
  BY <1>10, LookStep DEF LookUp
<1>11. CASE UNCHANGED worldVars
  BY <1>11 DEF worldVars, itemVars, WorldInv, Remembers, FakeIsUnderstood, PayloadTells, LooksTell,
        TombstonesAreHidden, Plain, StateOf, Fitting, Remembered, Told
<1> QED BY <1>1, <1>2, <1>3, <1>4, <1>5, <1>6, <1>7, <1>8, <1>9, <1>10, <1>11 DEF WorldNext, Changes

\* The fake Reddit's payloads, listings and trees tell what was done to an item, and one look
\* makes of its row just that (adapters/reddit_fake, core/deletion.py), for any texts and any
\* sequence of changes, fixtures and looks.
THEOREM FakeTells == WorldSpec => []FakeIsUnderstood
<1>1. WorldInit => WorldInv
  BY WorldStart
<1>2. WorldInv /\ [WorldNext]_worldVars => WorldInv'
  BY WorldStep
<1>3. WorldInv => FakeIsUnderstood
  BY DEF WorldInv
<1> QED BY <1>1, <1>2, <1>3, PTL DEF WorldSpec

-----------------------------------------------------------------------------
(* The failures a scenario plants.                                          *)

Queues == {"next", "page", "block", "crash"}
Wheres == [queue : Queues, page : Nat]
Plantings == [where : Wheres, times : Nat \cup {Null}, off : BOOLEAN]

\* How often r raises l; what of f, planted as plan says, is left after r.
FiredIn(r, l) == Cardinality({i \in DOMAIN r : r[i] = l})
Placed(f, where, plan, r) ==
  /\ f \in Failures /\ f.label \in DOMAIN plan
  /\ plan[f.label].where = where /\ ~plan[f.label].off
  /\ IF f.times = Null THEN plan[f.label].times = Null
     ELSE plan[f.label].times = f.times + FiredIn(r, f.label)
  /\ f.fired <=> FiredIn(r, f.label) > 0

\* A queue holds what was planted for it in order, and no failure twice.
Waiting(q, where, plan, r) ==
  /\ q \in Seq(Failures)
  /\ \A i \in DOMAIN q : Placed(q[i], where, plan, r)
  /\ \A i, j \in DOMAIN q : i < j => q[i].label < q[j].label

Labels(q) == {q[i].label : i \in DOMAIN q}

\* Nothing is left of l.
Spent(l, plan, r) == plan[l].off \/ plan[l].times = FiredIn(r, l)

CrashWaits(c, plan, r) ==
  /\ c \in Crashes /\ c.label \in DOMAIN plan
  /\ plan[c.label].where = At("crash", 0) /\ ~plan[c.label].off
  /\ plan[c.label].times = 1 /\ FiredIn(r, c.label) = 0

\* A label raised once more fired once more, the others as often as before.
LEMMA FiredIs ==
  ASSUME NEW r \in Seq(Nat), NEW l \in Nat
  PROVE  /\ Append(r, l) \in Seq(Nat) /\ FiredIn(r, l) \in Nat
         /\ FiredIn(Append(r, l), l) = FiredIn(r, l) + 1
         /\ \A m : m # l => FiredIn(Append(r, l), m) = FiredIn(r, m)
<1> DEFINE s == Append(r, l)
<1>1. /\ s \in Seq(Nat) /\ Len(r) \in Nat /\ DOMAIN r = 1 .. Len(r) /\ DOMAIN s = 1 .. Len(r) + 1
      /\ s[Len(r) + 1] = l /\ \A i \in 1 .. Len(r) : s[i] = r[i]
  BY AppendProperties, LenProperties
<1> HIDE DEF s
<1> DEFINE I == {i \in DOMAIN r : r[i] = l}
           J == {i \in DOMAIN s : s[i] = l}
<1>2. IsFiniteSet(I) /\ J = I \cup {Len(r) + 1} /\ Len(r) + 1 \notin I
  <2>1. IsFiniteSet(I)
    BY Terms, FS_Subset
  <2> QED BY <1>1, <2>1
<1>3. Cardinality(I) \in Nat /\ Cardinality(J) = Cardinality(I) + 1
  <2> HIDE DEF I, J
  <2> QED BY <1>2, FS_AddElement, FS_CardinalityType
<1>4. ASSUME NEW m, m # l PROVE FiredIn(s, m) = FiredIn(r, m)
  <2>1. {i \in DOMAIN s : s[i] = m} = {i \in DOMAIN r : r[i] = m}
    BY <1>1, <1>4
  <2> QED BY <2>1 DEF FiredIn
<1>5. FiredIn(r, l) = Cardinality(I) /\ FiredIn(s, l) = Cardinality(J)
  BY DEF FiredIn
<1> HIDE DEF I, J
<1> QED BY <1>1, <1>3, <1>4, <1>5 DEF s

\* Never raised, of what nobody knows.
LEMMA NeverFired ==
  ASSUME NEW r, NEW l, \A i \in DOMAIN r : r[i] # l
  PROVE  FiredIn(r, l) = 0
<1>1. {i \in DOMAIN r : r[i] = l} = {}
  OBVIOUS
<1> QED BY <1>1, FS_EmptySet DEF FiredIn

\* What was planted before stays as it was planted when something else is.
LEMMA PlantStays ==
  ASSUME NEW plan, NEW plan2, NEW r, NEW l, l \in DOMAIN plan2, plan2[l] = plan[l]
  PROVE  /\ \A f, w : f.label = l /\ Placed(f, w, plan, r) => Placed(f, w, plan2, r)
         /\ \A c : c.label = l /\ CrashWaits(c, plan, r) => CrashWaits(c, plan2, r)
         /\ Spent(l, plan, r) <=> Spent(l, plan2, r)
BY DEF Placed, CrashWaits, Spent

\* A raise leaves alone what it is not of.
LEMMA RaiseStays ==
  ASSUME NEW plan, NEW r \in Seq(Nat), NEW l \in Nat, NEW m, m # l
  PROVE  /\ \A f, w : f.label = m /\ Placed(f, w, plan, r) => Placed(f, w, plan, Append(r, l))
         /\ \A c : c.label = m /\ CrashWaits(c, plan, r) => CrashWaits(c, plan, Append(r, l))
         /\ Spent(m, plan, r) <=> Spent(m, plan, Append(r, l))
<1>1. FiredIn(Append(r, l), m) = FiredIn(r, m)
  BY FiredIs
<1> QED BY <1>1 DEF Placed, CrashWaits, Spent

\* Taking leaves one time less, unless there was no end to them.
LEMMA TakenFailure ==
  ASSUME NEW f \in Failures, Armed(f)
  PROVE  /\ Taken(f) \in Failures /\ Taken(f).label = f.label /\ Taken(f).fired = TRUE
         /\ Taken(f).times = IF f.times = Null THEN Null ELSE f.times - 1
         /\ f.times # Null => f.times - 1 \in Nat
<1>1. f.label \in Nat /\ f.times \in Nat \cup {Null} /\ f.fired \in BOOLEAN /\ Null \notin Nat
  BY RequestsAssumption DEF Failures
<1>2. /\ Taken(f).label = f.label /\ Taken(f).fired = TRUE
      /\ Taken(f).times = IF f.times \in {0, Null} THEN f.times ELSE f.times - 1
      /\ DOMAIN Taken(f) = DOMAIN f
  BY DEF Taken, Failures
<1>3. f.times # Null => f.times > 0 /\ f.times \in Nat
  BY <1>1 DEF Armed
<1>4. Taken(f).times = IF f.times = Null THEN Null ELSE f.times - 1
  BY <1>2, <1>3
<1>5. f.times # Null => f.times - 1 \in Nat
  BY <1>3
<1>6. Taken(f) \in Failures
  BY <1>1, <1>4, <1>5 DEF Taken, Failures
<1> QED BY <1>2, <1>4, <1>5, <1>6

\* A failure that is armed is raised: it stays in its place, one time less is left of it.
LEMMA TakenIs ==
  ASSUME NEW plan, NEW r \in Seq(Nat), NEW w, NEW f, Placed(f, w, plan, r), Armed(f)
  PROVE  /\ Placed(Taken(f), w, plan, Append(r, f.label)) /\ Taken(f).label = f.label
         /\ f.label \in Nat /\ ~Spent(f.label, plan, r)
         /\ plan[f.label].times # Null =>
              FiredIn(Append(r, f.label), f.label) <= plan[f.label].times
<1>1. f \in Failures /\ f.label \in Nat /\ f.times \in Nat \cup {Null} /\ f.fired \in BOOLEAN
  BY DEF Placed, Failures
<1>2. Null \notin Nat
  BY RequestsAssumption
<1>3. /\ FiredIn(r, f.label) \in Nat
      /\ FiredIn(Append(r, f.label), f.label) = FiredIn(r, f.label) + 1
  BY <1>1, FiredIs
<1>4. /\ Taken(f) \in Failures /\ Taken(f).label = f.label /\ Taken(f).fired = TRUE
      /\ Taken(f).times = IF f.times = Null THEN Null ELSE f.times - 1
      /\ f.times # Null => f.times - 1 \in Nat
  BY <1>1, TakenFailure
<1> HIDE DEF Failures
<1>5. CASE f.times = Null
  BY <1>1, <1>2, <1>3, <1>4, <1>5 DEF Placed, Spent
<1>6. CASE f.times # Null
  <2>1. f.times \in Nat /\ f.times > 0 /\ plan[f.label].times = f.times + FiredIn(r, f.label)
    BY <1>1, <1>6 DEF Placed, Armed
  <2>2. PICK a \in Nat, b \in Nat : a = f.times /\ b = FiredIn(r, f.label)
    BY <1>3, <2>1
  <2>3. plan[f.label].times # Null /\ plan[f.label].times = (f.times - 1) + (FiredIn(r, f.label) + 1)
    BY <1>2, <2>1, <2>2
  <2>4. plan[f.label].times # FiredIn(r, f.label) /\ FiredIn(r, f.label) + 1 <= plan[f.label].times
    BY <2>1, <2>2
  <2>5. FiredIn(r, f.label) + 1 > 0
    BY <1>3
  <2> QED BY <1>1, <1>3, <1>4, <1>6, <2>1, <2>3, <2>4, <2>5, <1>2 DEF Placed, Spent
<1> QED BY <1>5, <1>6

\* One that is not armed is used up.
LEMMA UsedUp ==
  ASSUME NEW plan, NEW r \in Seq(Nat), NEW w, NEW f, Placed(f, w, plan, r), ~Armed(f)
  PROVE  Spent(f.label, plan, r)
<1>1. f.label \in Nat /\ f.times \in Nat
  BY DEF Placed, Failures, Armed
<1>2. f.times = 0 /\ Null \notin Nat /\ FiredIn(r, f.label) \in Nat
  <2>1. f.times = 0
    BY <1>1 DEF Armed
  <2> QED BY <1>1, <2>1, RequestsAssumption, FiredIs
<1> QED BY <1>1, <1>2 DEF Placed, Spent

\* The first armed failure of a queue.
LEMMA FirstIs ==
  ASSUME NEW q \in Seq(Failures)
  PROVE  /\ FirstArmed(q) = 0 => \A i \in DOMAIN q : ~Armed(q[i])
         /\ FirstArmed(q) # 0 => /\ FirstArmed(q) \in DOMAIN q /\ Armed(q[FirstArmed(q)])
                                 /\ \A i \in 1 .. FirstArmed(q) - 1 : ~Armed(q[i])
<1> DEFINE I == {i \in 1 .. Len(q) : Armed(q[i])}
<1>1. Len(q) \in Nat /\ DOMAIN q = 1 .. Len(q)
  BY LenProperties
<1>2. FirstArmed(q) = IF I # {} THEN CHOOSE x \in I : \A y \in I : x <= y ELSE 0
  BY DEF FirstArmed, SelectInSeq, Min
<1>3. I \subseteq Nat /\ IsFiniteSet(I)
  BY <1>1, Indices, FS_Subset
<1>4. ASSUME I # {} PROVE \E x \in I : \A y \in I : x <= y
  <2> DEFINE Below(n) == {i \in I : i <= n}
  <2>1. IsWellFoundedOn(OpToRel(<, Nat), Nat)
    BY NatLessThanWellFounded
  <2>2. PICK x \in I : \A y \in I : <<y, x>> \notin OpToRel(<, Nat)
    <3> HIDE DEF I
    <3> QED BY <1>3, <1>4, <2>1, WFMin
  <2>3. \A y \in I : ~(y < x)
    BY <1>3, <2>2 DEF OpToRel
  <2> HIDE DEF I
  <2> QED BY <1>3, <2>3
<1>5. CASE I = {}
  BY <1>1, <1>2, <1>5
<1>6. CASE I # {}
  <2>1. FirstArmed(q) \in I /\ \A y \in I : FirstArmed(q) <= y
    <3> HIDE DEF I
    <3> QED BY <1>2, <1>4, <1>6
  <2> QED BY <1>1, <2>1
<1> QED BY <1>5, <1>6

\* A queue keeps its order when a planting is added at its end.
LEMMA QueueJoined ==
  ASSUME NEW q, NEW w, NEW plan, NEW r, Waiting(q, w, plan, r),
         NEW f, Placed(f, w, plan, r), \A i \in DOMAIN q : q[i].label < f.label
  PROVE  Waiting(Append(q, f), w, plan, r) /\ Labels(Append(q, f)) = Labels(q) \cup {f.label}
<1> DEFINE s == Append(q, f)
<1>1. /\ q \in Seq(Failures) /\ f \in Failures /\ s \in Seq(Failures) /\ Len(q) \in Nat
      /\ DOMAIN q = 1 .. Len(q) /\ DOMAIN s = 1 .. Len(q) + 1
      /\ s[Len(q) + 1] = f /\ \A i \in 1 .. Len(q) : s[i] = q[i]
  <2>1. q \in Seq(Failures) /\ f \in Failures
    BY DEF Waiting, Placed
  <2> HIDE DEF Failures
  <2> QED BY <2>1, AppendProperties, LenProperties
<1> HIDE DEF s
<1>2. \A i \in DOMAIN s : Placed(s[i], w, plan, r)
  <2> SUFFICES ASSUME NEW i \in DOMAIN s PROVE Placed(s[i], w, plan, r)
    OBVIOUS
  <2>1. CASE i = Len(q) + 1
    BY <1>1, <2>1
  <2>2. CASE i \in 1 .. Len(q)
    BY <1>1, <2>2 DEF Waiting
  <2> QED BY <1>1, <2>1, <2>2
<1>3. \A i, j \in DOMAIN s : i < j => s[i].label < s[j].label
  <2> SUFFICES ASSUME NEW i \in DOMAIN s, NEW j \in DOMAIN s, i < j PROVE s[i].label < s[j].label
    OBVIOUS
  <2>1. i \in 1 .. Len(q) /\ s[i] = q[i]
    BY <1>1
  <2>2. CASE j = Len(q) + 1
    BY <1>1, <2>1, <2>2
  <2>3. CASE j \in 1 .. Len(q)
    BY <1>1, <2>1, <2>3 DEF Waiting
  <2> QED BY <1>1, <2>2, <2>3
<1>4. Labels(s) = Labels(q) \cup {f.label}
  BY <1>1 DEF Labels
<1> QED BY <1>1, <1>2, <1>3, <1>4 DEF Waiting, s

\* A queue stays when nothing of it is raised.
LEMMA QueueStays ==
  ASSUME NEW q, NEW w, NEW plan, NEW r \in Seq(Nat), Waiting(q, w, plan, r),
         NEW l \in Nat, l \notin Labels(q)
  PROVE  Waiting(q, w, plan, Append(r, l))
<1>1. \A i \in DOMAIN q : q[i].label # l
  BY DEF Labels
<1> QED BY <1>1, RaiseStays DEF Waiting

\* What is popped.
LEMMA PoppedIs ==
  ASSUME NEW q \in Seq(Failures), FirstArmed(q) # 0
  PROVE  LET k == FirstArmed(q)
         IN  /\ Popped(q) \in Seq(Failures) /\ k \in 1 .. Len(q) /\ Len(q) \in Nat
             /\ DOMAIN Popped(q) = 1 .. Len(q) - k + 1
             /\ Popped(q)[1] = Taken(q[k])
             /\ \A i \in 2 .. Len(q) - k + 1 : Popped(q)[i] = q[i + k - 1]
<1> DEFINE k == FirstArmed(q)
           t == <<Taken(q[k])>>
           u == SubSeq(q, k + 1, Len(q))
<1>1. k \in 1 .. Len(q) /\ Len(q) \in Nat /\ DOMAIN q = 1 .. Len(q) /\ q[k] \in Failures /\ Armed(q[k])
  <2>1. Len(q) \in Nat /\ DOMAIN q = 1 .. Len(q)
    BY LenProperties
  <2>2. k \in DOMAIN q /\ Armed(q[k])
    BY FirstIs
  <2> HIDE DEF Failures
  <2> QED BY <2>1, <2>2, ElementOfSeq
<1>2. Popped(q) = t \o u
  BY DEF Popped
<1>3. Taken(q[k]) \in Failures
  BY <1>1, TakenFailure
<1> HIDE DEF k, Failures
<1>4. /\ t \in Seq(Failures) /\ Len(t) = 1 /\ t[1] = Taken(q[k])
  BY <1>3
<1>5. /\ u \in Seq(Failures) /\ Len(u) = Len(q) - k
      /\ \A i \in 1 .. Len(q) - k : u[i] = q[i + k]
  <2>2. u \in Seq(Failures) /\ Len(u) = IF k + 1 <= Len(q) THEN Len(q) - (k + 1) + 1 ELSE 0
    BY <1>1, SubSeqProperties
  <2>3. \A i \in 1 .. Len(q) - (k + 1) + 1 : u[i] = q[(k + 1) + i - 1]
    BY <1>1, SubSeqProperties
  <2>4. \A i \in 1 .. Len(q) - k : (k + 1) + i - 1 = i + k /\ i \in 1 .. Len(q) - (k + 1) + 1
    BY <1>1
  <2>5. Len(u) = Len(q) - k
    <3> HIDE DEF u
    <3>0. k \in Nat /\ Len(q) \in Nat /\ k <= Len(q)
      BY <1>1
    <3>1. PICK m \in Nat, n \in Nat : m = k /\ n = Len(q) /\ m <= n
      BY <3>0
    <3>2. Len(u) = IF m + 1 <= n THEN n - (m + 1) + 1 ELSE 0
      BY <2>2, <3>1
    <3>3. Len(u) = n - m
      BY <3>1, <3>2
    <3> QED BY <3>1, <3>3
  <2> QED BY <2>2, <2>3, <2>4, <2>5
<1> HIDE DEF t, u
<1>6. /\ t \o u \in Seq(Failures) /\ Len(t \o u) = 1 + (Len(q) - k)
      /\ \A i \in 1 .. 1 + (Len(q) - k) : (t \o u)[i] = IF i <= 1 THEN t[i] ELSE u[i - 1]
  <2>1. /\ t \o u \in Seq(Failures) /\ Len(t \o u) = Len(t) + Len(u)
        /\ \A i \in 1 .. Len(t) + Len(u) : (t \o u)[i] = IF i <= Len(t) THEN t[i] ELSE u[i - Len(t)]
    BY <1>4, <1>5, ConcatProperties
  <2> QED BY <1>4, <1>5, <2>1
<1>7. DOMAIN (t \o u) = 1 .. Len(q) - k + 1
  BY <1>1, <1>6, LenProperties
<1>8. (t \o u)[1] = Taken(q[k])
  BY <1>1, <1>4, <1>6
<1>9. \A i \in 2 .. Len(q) - k + 1 : (t \o u)[i] = q[i + k - 1]
  <2> SUFFICES ASSUME NEW i \in 2 .. Len(q) - k + 1 PROVE (t \o u)[i] = q[i + k - 1]
    OBVIOUS
  <2>1. i \in 1 .. 1 + (Len(q) - k) /\ ~(i <= 1) /\ i - 1 \in 1 .. Len(q) - k /\ (i - 1) + k = i + k - 1
    BY <1>1
  <2> QED BY <1>5, <1>6, <2>1
<1> QED BY <1>1, <1>2, <1>6, <1>7, <1>8, <1>9 DEF k

\* A queue whose first armed failure is raised: what comes before it is spent, it stays at the
\* head, and what is raised of this queue comes in order.
LEMMA QueuePops ==
  ASSUME NEW q, NEW w, NEW plan, NEW r \in Seq(Nat), Waiting(q, w, plan, r), FirstArmed(q) # 0,
         NEW l, l = q[FirstArmed(q)].label
  PROVE  /\ l \in Nat /\ l \in DOMAIN plan /\ plan[l].where = w /\ ~Spent(l, plan, r)
         /\ plan[l].times # Null => FiredIn(Append(r, l), l) <= plan[l].times
         /\ Waiting(Popped(q), w, plan, Append(r, l))
         /\ Labels(Popped(q)) \subseteq Labels(q) /\ l \in Labels(Popped(q))
         /\ \A m \in Labels(q) : m \in Labels(Popped(q)) \/ Spent(m, plan, r)
         /\ \A m \in Labels(Popped(q)) : l <= m
<1> DEFINE k == FirstArmed(q)
           p == Popped(q)
           s == Append(r, l)
<1>0. q \in Seq(Failures)
  BY DEF Waiting
<1>1. /\ p \in Seq(Failures) /\ k \in 1 .. Len(q) /\ Len(q) \in Nat
      /\ DOMAIN p = 1 .. Len(q) - k + 1 /\ p[1] = Taken(q[k])
      /\ \A i \in 2 .. Len(q) - k + 1 : p[i] = q[i + k - 1]
  <2> HIDE DEF Failures
  <2> QED BY <1>0, PoppedIs
<1>2. DOMAIN q = 1 .. Len(q) /\ Armed(q[k]) /\ \A i \in 1 .. k - 1 : ~Armed(q[i])
  <2>1. DOMAIN q = 1 .. Len(q)
    BY <1>0, LenProperties
  <2> HIDE DEF Failures
  <2> QED BY <1>0, <2>1, FirstIs
<1> HIDE DEF k, p
<1>3. /\ \A i \in 1 .. Len(q) : Placed(q[i], w, plan, r) /\ q[i].label \in Nat
      /\ \A i, j \in 1 .. Len(q) : i < j => q[i].label < q[j].label
  BY <1>2 DEF Waiting, Placed, Failures
<1>4. l = q[k].label
  BY DEF k
<1>5. /\ Placed(p[1], w, plan, s) /\ p[1].label = l
      /\ l \in Nat /\ ~Spent(l, plan, r)
      /\ plan[l].times # Null => FiredIn(s, l) <= plan[l].times
  <2>1. Placed(q[k], w, plan, r) /\ Armed(q[k])
    BY <1>1, <1>2, <1>3
  <2> QED BY <1>1, <1>4, <2>1, TakenIs
<1>6. l \in DOMAIN plan /\ plan[l].where = w
  BY <1>1, <1>3, <1>4 DEF Placed
<1> HIDE DEF s
<1>7. ASSUME NEW i \in 2 .. Len(q) - k + 1
      PROVE  i + k - 1 \in 1 .. Len(q) /\ k < i + k - 1 /\ p[i] = q[i + k - 1] /\ l < p[i].label
  <2>1. i + k - 1 \in 1 .. Len(q) /\ k < i + k - 1 /\ k \in 1 .. Len(q)
    BY <1>1
  <2>2. p[i] = q[i + k - 1]
    BY <1>1
  <2> QED BY <1>3, <1>4, <2>1, <2>2
<1>8. \A i \in DOMAIN p : Placed(p[i], w, plan, s)
  <2> SUFFICES ASSUME NEW i \in DOMAIN p PROVE Placed(p[i], w, plan, s)
    OBVIOUS
  <2>1. CASE i = 1
    BY <1>5, <2>1
  <2>2. CASE i \in 2 .. Len(q) - k + 1
    <3>1. Placed(p[i], w, plan, r) /\ p[i].label # l
      <4>1. p[i].label \in Nat /\ l < p[i].label /\ l \in Nat /\ Placed(p[i], w, plan, r)
        BY <1>3, <1>5, <1>7, <2>2
      <4> QED BY <4>1
    <3> QED BY <3>1, <1>5, RaiseStays DEF s
  <2> QED BY <1>1, <2>1, <2>2
<1>9. \A i, j \in DOMAIN p : i < j => p[i].label < p[j].label
  <2> SUFFICES ASSUME NEW i \in DOMAIN p, NEW j \in DOMAIN p, i < j PROVE p[i].label < p[j].label
    OBVIOUS
  <2>1. j \in 2 .. Len(q) - k + 1
    BY <1>1
  <2>2. CASE i = 1
    BY <1>5, <1>7, <2>1, <2>2
  <2>3. CASE i \in 2 .. Len(q) - k + 1
    <3>1. i + k - 1 < j + k - 1
      BY <1>1
    <3> QED BY <1>3, <1>7, <2>1, <2>3, <3>1
  <2> QED BY <1>1, <2>2, <2>3
<1>10. Labels(p) \subseteq Labels(q) /\ l \in Labels(p)
  <2>1. l \in Labels(p)
    <3>1. 1 \in DOMAIN p
      BY <1>1
    <3> QED BY <1>5, <3>1 DEF Labels
  <2>2. l \in Labels(q)
    BY <1>1, <1>2, <1>4 DEF Labels
  <2>3. ASSUME NEW i \in DOMAIN p PROVE p[i].label \in Labels(q)
    <3>1. CASE i = 1
      BY <1>5, <2>2, <3>1
    <3>2. CASE i \in 2 .. Len(q) - k + 1
      BY <1>2, <1>7, <3>2 DEF Labels
    <3> QED BY <1>1, <3>1, <3>2
  <2> QED BY <2>1, <2>3 DEF Labels
<1>11. ASSUME NEW i \in DOMAIN q PROVE q[i].label \in Labels(p) \/ Spent(q[i].label, plan, r)
  <2>1. CASE i < k
    <3>1. ~Armed(q[i]) /\ Placed(q[i], w, plan, r)
      BY <1>1, <1>2, <1>3, <2>1
    <3> QED BY <3>1, UsedUp
  <2>2. CASE i = k
    BY <1>4, <1>10, <2>2
  <2>3. CASE i > k
    <3>i. k \in Nat /\ Len(q) \in Nat
      BY <1>1
    <3>0. PICK m \in Nat, n \in Nat : m = k /\ n = Len(q)
      BY <3>i
    <3>1. i - k + 1 \in 2 .. Len(q) - k + 1 /\ (i - k + 1) + k - 1 = i /\ i - k + 1 \in DOMAIN p
      <4>1. i \in 1 .. n /\ i > m
        BY <1>2, <2>3, <3>0
      <4>2. i - m + 1 \in 2 .. n - m + 1 /\ (i - m + 1) + m - 1 = i /\ i - m + 1 \in 1 .. n - m + 1
        BY <4>1
      <4> QED BY <1>1, <3>0, <4>2
    <3>2. p[i - k + 1] = q[i]
      BY <1>1, <3>1
    <3> QED BY <3>1, <3>2 DEF Labels
  <2> QED BY <1>1, <1>2, <2>1, <2>2, <2>3
<1>12. \A m \in Labels(p) : l <= m
  <2> SUFFICES ASSUME NEW i \in DOMAIN p PROVE l <= p[i].label
    BY DEF Labels
  <2>1. CASE i = 1
    BY <1>5, <2>1
  <2>2. CASE i \in 2 .. Len(q) - k + 1
    <3>1. l < p[i].label /\ p[i].label \in Nat
      BY <1>3, <1>7, <2>2
    <3> QED BY <1>5, <3>1
  <2> QED BY <1>1, <2>1, <2>2
<1>13. Waiting(p, w, plan, s)
  BY <1>1, <1>8, <1>9 DEF Waiting
<1>14. \A m \in Labels(q) : m \in Labels(p) \/ Spent(m, plan, r)
  BY <1>11 DEF Labels
<1> QED BY <1>5, <1>6, <1>10, <1>12, <1>13, <1>14 DEF p, s

\* A queue without an armed failure is dropped, and was spent.
LEMMA QueueEmpties ==
  ASSUME NEW q, NEW w, NEW plan, NEW r \in Seq(Nat), Waiting(q, w, plan, r), FirstArmed(q) = 0
  PROVE  /\ Popped(q) = <<>> /\ \A r2 : Waiting(Popped(q), w, plan, r2)
         /\ Labels(Popped(q)) = {} /\ \A m \in Labels(q) : Spent(m, plan, r)
<1>1. Popped(q) = <<>>
  BY DEF Popped
<1>2. \A i \in DOMAIN q : ~Armed(q[i])
  BY FirstIs DEF Waiting
<1>3. \A i \in DOMAIN q : Spent(q[i].label, plan, r)
  BY <1>2, UsedUp DEF Waiting
<1>4. Labels(<<>>) = {} /\ \A r2 : Waiting(<<>>, w, plan, r2)
  BY DEF Labels, Waiting
<1>5. \A m \in Labels(q) : Spent(m, plan, r)
  BY <1>3 DEF Labels
<1> QED BY <1>1, <1>4, <1>5

-----------------------------------------------------------------------------
(* Where what is planted waits, and that it is raised in its turn.          *)

\* Where a failure waits: in the queue it was planted for.
Places(plan, r, fs, bl, pg, cr) ==
  /\ Waiting(fs, At("next", 0), plan, r)
  /\ \A p \in 1 .. LastPage : Waiting(pg[p], At("page", p), plan, r)
  /\ bl # Null => Placed(bl, At("block", 0), plan, r)
  /\ \A k \in CrashKinds : cr[k] # Null => CrashWaits(cr[k], plan, r)
  /\ \A j, k \in CrashKinds : j # k /\ cr[j] # Null /\ cr[k] # Null => cr[j].label # cr[k].label

Standing(fs, bl, pg, cr) ==
  {l \in Nat : \/ l \in Labels(fs)
               \/ \E p \in 1 .. LastPage : l \in Labels(pg[p])
               \/ bl # Null /\ l = bl.label
               \/ \E k \in CrashKinds : cr[k] # Null /\ l = cr[k].label}

\* Whatever is not spent waits somewhere.
AllWait(plan, r, waiting) == \A l \in DOMAIN plan : l \in waiting \/ Spent(l, plan, r)

WithinTimes(plan, r) ==
  \A l \in DOMAIN plan : plan[l].times # Null => FiredIn(r, l) <= plan[l].times

\* What was raised for the next request is in order, and older than what waits.
InTurn(plan, r, fs) ==
  /\ \A i \in DOMAIN r : plan[r[i]].where = At("next", 0) => \A m \in Labels(fs) : r[i] <= m
  /\ \A i, j \in DOMAIN r :
       i < j /\ plan[r[i]].where = At("next", 0) /\ plan[r[j]].where = At("next", 0) => r[i] <= r[j]

RequestTypes ==
  /\ planted \in Seq(Plantings) /\ raised \in Seq(Nat)
  /\ \A i \in DOMAIN raised : raised[i] \in DOMAIN planted
  /\ DOMAIN crash = CrashKinds /\ DOMAIN paged = 1 .. LastPage

PlantedInv ==
  /\ RequestTypes
  /\ Places(planted, raised, failures, block, paged, crash)
  /\ AllWait(planted, raised, Standing(failures, block, paged, crash))
  /\ WithinTimes(planted, raised) /\ InTurn(planted, raised, failures)
  /\ overlooked = FALSE

\* The queues are told apart.
LEMMA AtIs ==
  /\ At("next", 0) # At("block", 0) /\ At("next", 0) # At("crash", 0) /\ At("block", 0) # At("crash", 0)
  /\ \A p : At("page", p) \notin {At("next", 0), At("block", 0), At("crash", 0)}
  /\ \A p, q : At("page", p) = At("page", q) => p = q
<1> SUFFICES ASSUME NEW p, NEW q, NEW v, NEW w
             PROVE  At(v, p) = At(w, q) => v = w /\ p = q
  BY Zenon
<1>1. At(v, p).queue = v /\ At(w, q).queue = w /\ At(v, p).page = p /\ At(w, q).page = q
  BY DEF At
<1> QED BY <1>1

\* What waits in a queue was planted for it.
LEMMA LabelsAre ==
  ASSUME NEW q, NEW w, NEW plan, NEW r, Waiting(q, w, plan, r), NEW m \in Labels(q)
  PROVE  m \in Nat /\ m \in DOMAIN plan /\ plan[m].where = w /\ ~plan[m].off
BY DEF Labels, Waiting, Placed, Failures

\* What waits is planted, and waits where it was planted.
LEMMA StandsWhere ==
  ASSUME NEW plan, NEW r, NEW fs, NEW bl, NEW pg, NEW cr, Places(plan, r, fs, bl, pg, cr),
         NEW l \in Standing(fs, bl, pg, cr)
  PROVE  /\ l \in DOMAIN plan /\ ~plan[l].off
         /\ plan[l].where = At("next", 0) => l \in Labels(fs)
         /\ \A p : plan[l].where = At("page", p) => p \in 1 .. LastPage /\ l \in Labels(pg[p])
         /\ plan[l].where = At("block", 0) => bl # Null /\ bl.label = l
         /\ plan[l].where = At("crash", 0) => \E k \in CrashKinds : cr[k] # Null /\ cr[k].label = l
<1>1. CASE l \in Labels(fs)
  <2>1. plan[l].where = At("next", 0) /\ l \in DOMAIN plan /\ ~plan[l].off
    BY <1>1, LabelsAre DEF Places
  <2> QED BY <1>1, <2>1, AtIs
<1>2. CASE \E p \in 1 .. LastPage : l \in Labels(pg[p])
  <2>1. PICK p \in 1 .. LastPage : l \in Labels(pg[p])
    BY <1>2
  <2>2. plan[l].where = At("page", p) /\ l \in DOMAIN plan /\ ~plan[l].off
    <3>1. Waiting(pg[p], At("page", p), plan, r)
      BY DEF Places
    <3> QED BY <2>1, <3>1, LabelsAre
  <2> QED BY <2>1, <2>2, AtIs
<1>3. CASE bl # Null /\ l = bl.label
  <2>1. plan[l].where = At("block", 0) /\ l \in DOMAIN plan /\ ~plan[l].off
    BY <1>3 DEF Places, Placed
  <2> QED BY <1>3, <2>1, AtIs
<1>4. CASE \E k \in CrashKinds : cr[k] # Null /\ l = cr[k].label
  <2>1. plan[l].where = At("crash", 0) /\ l \in DOMAIN plan /\ ~plan[l].off
    BY <1>4 DEF Places, CrashWaits
  <2> QED BY <1>4, <2>1, AtIs
<1> QED BY <1>1, <1>2, <1>3, <1>4 DEF Standing

\* What still owes a raise waits.
LEMMA OwedWaits ==
  ASSUME NEW plan, NEW r \in Seq(Nat), NEW waiting, AllWait(plan, r, waiting),
         NEW l \in Nat, l \in DOMAIN plan, ~plan[l].off,
         plan[l].times = Null \/ FiredIn(r, l) < plan[l].times
  PROVE  l \in waiting /\ ~Spent(l, plan, r)
<1>1. FiredIn(r, l) \in Nat /\ Null \notin Nat
  BY FiredIs, RequestsAssumption
<1>2. plan[l].times # FiredIn(r, l)
  <2>1. CASE plan[l].times = Null
    BY <1>1, <2>1
  <2>2. CASE FiredIn(r, l) < plan[l].times
    <3>1. ~(FiredIn(r, l) < FiredIn(r, l))
      BY <1>1
    <3> QED BY <2>2, <3>1
  <2> QED BY <2>1, <2>2
<1> QED BY <1>2 DEF AllWait, Spent

\* After a raise of l, whatever stops waiting is spent, and l waits or is.
LEMMA RaiseTold ==
  ASSUME NEW plan, NEW r \in Seq(Nat), NEW l \in Nat, NEW old, NEW new,
         AllWait(plan, r, old), \A m \in old : m \in new \/ m = l \/ Spent(m, plan, r),
         l \in new \/ Spent(l, plan, Append(r, l)),
         WithinTimes(plan, r), plan[l].times # Null => FiredIn(Append(r, l), l) <= plan[l].times
  PROVE  AllWait(plan, Append(r, l), new) /\ WithinTimes(plan, Append(r, l))
<1>1. ASSUME NEW m \in DOMAIN plan, m # l PROVE m \in new \/ Spent(m, plan, Append(r, l))
  <2>1. m \in new \/ Spent(m, plan, r)
    BY <1>1 DEF AllWait
  <2> QED BY <1>1, <2>1, RaiseStays
<1>2. ASSUME NEW m \in DOMAIN plan, m # l
      PROVE  plan[m].times # Null => FiredIn(Append(r, l), m) <= plan[m].times
  BY <1>2, FiredIs DEF WithinTimes
<1> QED BY <1>1, <1>2 DEF AllWait, WithinTimes

\* Raising the first in turn keeps the order.
LEMMA RaiseInTurn ==
  ASSUME NEW plan, NEW r \in Seq(Nat), NEW l \in Nat, NEW fs, NEW fs2, InTurn(plan, r, fs),
         Labels(fs2) \subseteq Labels(fs),
         plan[l].where = At("next", 0) => l \in Labels(fs) /\ \A m \in Labels(fs2) : l <= m
  PROVE  InTurn(plan, Append(r, l), fs2)
<1> DEFINE s == Append(r, l)
<1>1. /\ Len(r) \in Nat /\ DOMAIN r = 1 .. Len(r) /\ DOMAIN s = 1 .. Len(r) + 1
      /\ s[Len(r) + 1] = l /\ \A i \in 1 .. Len(r) : s[i] = r[i]
  BY AppendProperties, LenProperties
<1> HIDE DEF s
<1>2. ASSUME NEW i \in DOMAIN s, plan[s[i]].where = At("next", 0), NEW m \in Labels(fs2)
      PROVE  s[i] <= m
  <2>1. CASE i = Len(r) + 1
    BY <1>1, <1>2, <2>1
  <2>2. CASE i \in DOMAIN r
    BY <1>1, <1>2, <2>2 DEF InTurn
  <2> QED BY <1>1, <2>1, <2>2
<1>3. ASSUME NEW i \in DOMAIN s, NEW j \in DOMAIN s, i < j,
             plan[s[i]].where = At("next", 0), plan[s[j]].where = At("next", 0)
      PROVE  s[i] <= s[j]
  <2>1. i \in DOMAIN r /\ s[i] = r[i]
    BY <1>1, <1>3
  <2>2. CASE j = Len(r) + 1
    BY <1>1, <1>3, <2>1, <2>2 DEF InTurn
  <2>3. CASE j \in DOMAIN r
    BY <1>1, <1>3, <2>1, <2>3 DEF InTurn
  <2> QED BY <1>1, <2>2, <2>3
<1> QED BY <1>2, <1>3 DEF InTurn, s

\* A label that is raised was planted.
LEMMA RaisedWithin ==
  ASSUME RequestTypes, NEW l \in DOMAIN planted
  PROVE  /\ l \in Nat /\ Append(raised, l) \in Seq(Nat)
         /\ \A i \in DOMAIN Append(raised, l) : Append(raised, l)[i] \in DOMAIN planted
<1>1. l \in Nat /\ raised \in Seq(Nat) /\ DOMAIN planted = 1 .. Len(planted)
  BY LenProperties DEF RequestTypes
<1>2. /\ Append(raised, l) \in Seq(Nat) /\ Len(raised) \in Nat /\ DOMAIN raised = 1 .. Len(raised)
      /\ DOMAIN Append(raised, l) = 1 .. Len(raised) + 1
      /\ Append(raised, l)[Len(raised) + 1] = l
      /\ \A i \in 1 .. Len(raised) : Append(raised, l)[i] = raised[i]
  BY <1>1, AppendProperties, LenProperties
<1> QED BY <1>1, <1>2 DEF RequestTypes

\* Whatever is not blocking is spent.
LEMMA BlockSpent ==
  ASSUME PlantedInv, ~Blocking, block # Null
  PROVE  Spent(block.label, planted, raised)
BY UsedUp DEF PlantedInv, RequestTypes, Blocking, Places

\* No failure is passed over that had its turn.
LEMMA NobodyOwed ==
  ASSUME PlantedInv, NEW where, Owed(where)
  PROVE  \E l \in Standing(failures, block, paged, crash) :
           planted[l].where \in where /\ ~Spent(l, planted, raised)
<1>1. PICK l \in DOMAIN planted :
        /\ planted[l].where \in where /\ ~planted[l].off
        /\ planted[l].times = Null \/ Fired(l) < planted[l].times
  BY DEF Owed
<1>2. l \in Nat /\ raised \in Seq(Nat) /\ Fired(l) = FiredIn(raised, l)
  BY LenProperties DEF PlantedInv, RequestTypes, Fired, FiredIn
<1>3. AllWait(planted, raised, Standing(failures, block, paged, crash))
  BY DEF PlantedInv
<1>4. l \in Standing(failures, block, paged, crash) /\ ~Spent(l, planted, raised)
  <2> HIDE DEF Standing
  <2> QED BY <1>1, <1>2, <1>3, OwedWaits
<1> QED BY <1>1, <1>4

\* No failure is owed by the queues an operation has found empty.
LEMMA NoneBefore ==
  ASSUME PlantedInv
  PROVE  /\ ~Owed({})
         /\ ~Blocking => ~Owed({At("block", 0)})
         /\ ~Blocking /\ FirstArmed(failures) = 0 => ~Owed({At("block", 0), At("next", 0)})
         /\ \A page : /\ ~Blocking /\ FirstArmed(failures) = 0
                      /\ page = 0 \/ (page \in 1 .. LastPage /\ FirstArmed(paged[page]) = 0)
                      => ~Owed({At("block", 0), At("next", 0), At("page", page)})
<1>1. Places(planted, raised, failures, block, paged, crash) /\ raised \in Seq(Nat)
  BY DEF PlantedInv, RequestTypes
<1> DEFINE St == Standing(failures, block, paged, crash)
<1> HIDE DEF St
<1>2. ASSUME NEW l \in St, planted[l].where = At("block", 0), ~Spent(l, planted, raised) PROVE Blocking
  <2>1. block # Null /\ block.label = l
    BY <1>1, <1>2, StandsWhere DEF St
  <2> QED BY <2>1, <1>2, BlockSpent
<1>3. ASSUME NEW l \in St, planted[l].where = At("next", 0), ~Spent(l, planted, raised)
      PROVE  FirstArmed(failures) # 0
  <2>1. l \in Labels(failures) /\ Waiting(failures, At("next", 0), planted, raised)
    BY <1>1, <1>3, StandsWhere DEF St, Places
  <2> QED BY <2>1, <1>1, <1>3, QueueEmpties
<1>4. ASSUME NEW l \in St, NEW page, planted[l].where = At("page", page), ~Spent(l, planted, raised)
      PROVE  page \in 1 .. LastPage /\ FirstArmed(paged[page]) # 0
  <2>1. page \in 1 .. LastPage /\ l \in Labels(paged[page])
    BY <1>1, <1>4, StandsWhere DEF St
  <2>2. Waiting(paged[page], At("page", page), planted, raised)
    BY <1>1, <2>1 DEF Places
  <2> QED BY <2>1, <2>2, <1>1, <1>4, QueueEmpties
<1>5. ASSUME NEW where, Owed(where)
      PROVE  \E l \in St : planted[l].where \in where /\ ~Spent(l, planted, raised)
  BY <1>5, NobodyOwed DEF St
<1>6. ASSUME NEW page, page = 0 PROVE page \notin 1 .. LastPage
  BY <1>6
<1> HIDE DEF Blocking
<1>7. ~Owed({})
  BY <1>5
<1>8. ~Blocking => ~Owed({At("block", 0)})
  BY <1>2, <1>5
<1>9. ~Blocking /\ FirstArmed(failures) = 0 => ~Owed({At("block", 0), At("next", 0)})
  BY <1>2, <1>3, <1>5
<1>10. ASSUME NEW page, ~Blocking, FirstArmed(failures) = 0,
              page = 0 \/ (page \in 1 .. LastPage /\ FirstArmed(paged[page]) = 0),
              Owed({At("block", 0), At("next", 0), At("page", page)})
       PROVE  FALSE
  <2>1. PICK l \in St : planted[l].where \in {At("block", 0), At("next", 0), At("page", page)}
                        /\ ~Spent(l, planted, raised)
    BY <1>5, <1>10
  <2>2. planted[l].where = At("page", page)
    BY <1>2, <1>3, <1>10, <2>1
  <2>3. page \in 1 .. LastPage /\ FirstArmed(paged[page]) # 0
    BY <1>4, <2>1, <2>2
  <2> QED BY <1>6, <1>10, <2>3
<1> QED BY <1>7, <1>8, <1>9, <1>10

-----------------------------------------------------------------------------
(* An operation.                                                            *)

\* What waits elsewhere than the failure raised stays as it is.
LEMMA Elsewhere ==
  ASSUME PlantedInv, NEW l \in DOMAIN planted
  PROVE  /\ planted[l].where # At("next", 0) =>
              Waiting(failures, At("next", 0), planted, Append(raised, l))
         /\ \A p \in 1 .. LastPage : planted[l].where # At("page", p) =>
              Waiting(paged[p], At("page", p), planted, Append(raised, l))
         /\ block # Null /\ planted[l].where # At("block", 0) =>
              Placed(block, At("block", 0), planted, Append(raised, l))
         /\ \A k \in CrashKinds : crash[k] # Null /\ crash[k].label # l =>
              CrashWaits(crash[k], planted, Append(raised, l))
<1>1. Places(planted, raised, failures, block, paged, crash) /\ raised \in Seq(Nat) /\ l \in Nat
  BY RaisedWithin DEF PlantedInv, RequestTypes
<1>2. ASSUME NEW q, NEW w, Waiting(q, w, planted, raised), planted[l].where # w
      PROVE  Waiting(q, w, planted, Append(raised, l))
  <2>1. l \notin Labels(q)
    BY <1>2, LabelsAre
  <2> QED BY <2>1, <1>1, <1>2, QueueStays
<1>3. ASSUME block # Null, planted[l].where # At("block", 0)
      PROVE  Placed(block, At("block", 0), planted, Append(raised, l))
  <2>1. Placed(block, At("block", 0), planted, raised) /\ block.label # l
    BY <1>1, <1>3 DEF Places, Placed
  <2> QED BY <2>1, <1>1, RaiseStays
<1>4. ASSUME NEW k \in CrashKinds, crash[k] # Null, crash[k].label # l
      PROVE  CrashWaits(crash[k], planted, Append(raised, l))
  <2>1. CrashWaits(crash[k], planted, raised)
    BY <1>1, <1>4 DEF Places
  <2> QED BY <2>1, <1>1, <1>4, RaiseStays
<1> QED BY <1>1, <1>2, <1>3, <1>4 DEF Places

\* The next request finds nothing of the block page or the queue that it passes over.
LEMMA CrashedStep ==
  ASSUME PlantedInv, NEW kinds \in SUBSET CrashKinds, Crashed(kinds), planted' = planted
  PROVE  PlantedInv' /\ made' = made
<1>1. PICK k \in CrashKinds : /\ crash[k] # Null /\ raised' = Append(raised, crash[k].label)
                              /\ crash' = [crash EXCEPT ![k] = Null] /\ overlooked' = (overlooked \/ Owed({}))
                              /\ UNCHANGED <<made, block, failures, paged, completed>>
  BY DEF Crashed, Due, Raises, Passes, CrashKinds
<1> DEFINE l == crash[k].label
           s == Append(raised, l)
<1>2. CrashWaits(crash[k], planted, raised) /\ DOMAIN crash = CrashKinds /\ raised \in Seq(Nat)
      /\ Places(planted, raised, failures, block, paged, crash)
  BY <1>1 DEF PlantedInv, Places, RequestTypes
<1>3. l \in DOMAIN planted /\ planted[l].where = At("crash", 0) /\ planted[l].times = 1
      /\ FiredIn(raised, l) = 0
  BY <1>2 DEF CrashWaits
<1>4. l \in Nat /\ s \in Seq(Nat) /\ \A i \in DOMAIN s : s[i] \in DOMAIN planted
  BY <1>3, RaisedWithin DEF PlantedInv
<1>5. FiredIn(s, l) = 1
  <2>1. FiredIn(s, l) = FiredIn(raised, l) + 1
    BY <1>2, <1>4, FiredIs
  <2> QED BY <1>3, <2>1
<1> HIDE DEF l, s
<1>6. \A j \in CrashKinds : crash'[j] = IF j = k THEN Null ELSE crash[j]
  BY <1>1, <1>2
<1>7. Places(planted, s, failures, block, paged, crash')
  <2>1. \A j \in CrashKinds : j # k /\ crash[j] # Null => crash[j].label # l
    BY <1>1, <1>2 DEF Places, l
  <2>2. /\ Waiting(failures, At("next", 0), planted, s)
        /\ \A p \in 1 .. LastPage : Waiting(paged[p], At("page", p), planted, s)
        /\ block # Null => Placed(block, At("block", 0), planted, s)
        /\ \A j \in CrashKinds : crash[j] # Null /\ crash[j].label # l => CrashWaits(crash[j], planted, s)
    BY <1>3, AtIs, Elsewhere DEF s
  <2>3. \A i, j \in CrashKinds : i # j /\ crash[i] # Null /\ crash[j] # Null => crash[i].label # crash[j].label
    BY <1>2 DEF Places
  <2> QED BY <1>6, <2>1, <2>2, <2>3 DEF Places
<1>8. \A m \in Standing(failures, block, paged, crash) : m \in Standing(failures, block, paged, crash') \/ m = l
  BY <1>6 DEF Standing, l
<1>9. AllWait(planted, s, Standing(failures, block, paged, crash')) /\ WithinTimes(planted, s)
  <2>1. /\ AllWait(planted, raised, Standing(failures, block, paged, crash)) /\ WithinTimes(planted, raised)
        /\ Spent(l, planted, s) /\ FiredIn(s, l) <= planted[l].times
    BY <1>3, <1>5 DEF PlantedInv, Spent
  <2> HIDE DEF Standing
  <2> QED BY <2>1, <1>2, <1>4, <1>8, RaiseTold DEF s
<1>10. InTurn(planted, s, failures)
  <2>1. InTurn(planted, raised, failures) /\ planted[l].where # At("next", 0)
    BY <1>3, AtIs DEF PlantedInv
  <2> QED BY <2>1, <1>2, <1>4, RaiseInTurn DEF s
<1>11. overlooked' = FALSE
  BY <1>1, NoneBefore DEF PlantedInv
<1> QED BY <1>1, <1>2, <1>4, <1>7, <1>9, <1>10, <1>11 DEF PlantedInv, RequestTypes, l, s

\* The block page answers,
LEMMA BlockedStep ==
  ASSUME PlantedInv, NEW kinds, Blocked(kinds), planted' = planted
  PROVE  PlantedInv' /\ made' = made + 1
<1> DEFINE l == block.label
           s == Append(raised, l)
<1>1. /\ block # Null /\ Armed(block) /\ raised' = s /\ block' = Taken(block)
      /\ overlooked' = (overlooked \/ Owed({})) /\ made' = made + 1 /\ crash' = crash
      /\ failures' = failures /\ paged' = paged
  BY DEF Blocked, Blocking, Raises, Passes, Counted
<1>2. Placed(block, At("block", 0), planted, raised) /\ raised \in Seq(Nat)
      /\ Places(planted, raised, failures, block, paged, crash)
  BY <1>1 DEF PlantedInv, Places, RequestTypes
<1>3. /\ Placed(Taken(block), At("block", 0), planted, s) /\ Taken(block).label = l
      /\ planted[l].times # Null => FiredIn(s, l) <= planted[l].times
  BY <1>1, <1>2, TakenIs
<1>4. l \in DOMAIN planted /\ planted[l].where = At("block", 0) /\ Taken(block) # Null
  <2>1. Taken(block) \in Failures /\ Null \notin Failures
    BY <1>3, RequestsAssumption DEF Placed
  <2> QED BY <1>2, <2>1 DEF Placed
<1>5. l \in Nat /\ s \in Seq(Nat) /\ \A i \in DOMAIN s : s[i] \in DOMAIN planted
  BY <1>4, RaisedWithin DEF PlantedInv
<1> HIDE DEF l, s
<1>6. Places(planted, s, failures, Taken(block), paged, crash)
  <2>1. \A j \in CrashKinds : crash[j] # Null => crash[j].label # l
    BY <1>2, <1>4, AtIs DEF Places, CrashWaits
  <2>2. /\ Waiting(failures, At("next", 0), planted, s)
        /\ \A p \in 1 .. LastPage : Waiting(paged[p], At("page", p), planted, s)
        /\ \A j \in CrashKinds : crash[j] # Null /\ crash[j].label # l => CrashWaits(crash[j], planted, s)
    BY <1>4, AtIs, Elsewhere DEF s
  <2>3. \A i, j \in CrashKinds : i # j /\ crash[i] # Null /\ crash[j] # Null => crash[i].label # crash[j].label
    BY <1>2 DEF Places
  <2> QED BY <1>3, <2>1, <2>2, <2>3 DEF Places
<1>7. /\ \A m \in Standing(failures, block, paged, crash) :
           m \in Standing(failures, Taken(block), paged, crash) \/ m = l
      /\ l \in Standing(failures, Taken(block), paged, crash)
  BY <1>3, <1>4, <1>5 DEF Standing, l
<1>8. AllWait(planted, s, Standing(failures, Taken(block), paged, crash)) /\ WithinTimes(planted, s)
  <2>1. AllWait(planted, raised, Standing(failures, block, paged, crash)) /\ WithinTimes(planted, raised)
    BY DEF PlantedInv
  <2> HIDE DEF Standing
  <2> QED BY <2>1, <1>2, <1>3, <1>5, <1>7, RaiseTold DEF s
<1>9. InTurn(planted, s, failures)
  <2>1. InTurn(planted, raised, failures) /\ planted[l].where # At("next", 0)
    BY <1>4, AtIs DEF PlantedInv
  <2> QED BY <2>1, <1>2, <1>5, RaiseInTurn DEF s
<1>10. overlooked' = FALSE
  BY <1>1, NoneBefore DEF PlantedInv
<1> QED BY <1>1, <1>5, <1>6, <1>8, <1>9, <1>10 DEF PlantedInv, RequestTypes

\* or a failure planted for the next request,
LEMMA FailedStep ==
  ASSUME PlantedInv, NEW kinds, Failed(kinds), planted' = planted
  PROVE  PlantedInv' /\ made' = made + 1
<1> DEFINE l == failures[FirstArmed(failures)].label
           s == Append(raised, l)
           fs == Popped(failures)
<1>1. /\ ~Blocking /\ FirstArmed(failures) # 0 /\ raised' = s /\ block' = Null /\ failures' = fs
      /\ overlooked' = (overlooked \/ Owed({At("block", 0)})) /\ made' = made + 1 /\ crash' = crash
      /\ paged' = paged
  BY DEF Failed, Raises, Passes, Counted
<1>2. Waiting(failures, At("next", 0), planted, raised) /\ raised \in Seq(Nat)
      /\ Places(planted, raised, failures, block, paged, crash)
  BY DEF PlantedInv, Places, RequestTypes
<1>3. /\ l \in Nat /\ l \in DOMAIN planted /\ planted[l].where = At("next", 0)
      /\ planted[l].times # Null => FiredIn(s, l) <= planted[l].times
      /\ Waiting(fs, At("next", 0), planted, s)
      /\ Labels(fs) \subseteq Labels(failures) /\ l \in Labels(fs)
      /\ \A m \in Labels(failures) : m \in Labels(fs) \/ Spent(m, planted, raised)
      /\ \A m \in Labels(fs) : l <= m
  BY <1>1, <1>2, QueuePops
<1>4. s \in Seq(Nat) /\ \A i \in DOMAIN s : s[i] \in DOMAIN planted
  BY <1>3, RaisedWithin DEF PlantedInv
<1> HIDE DEF l, s, fs
<1>5. Places(planted, s, fs, Null, paged, crash)
  <2>1. \A j \in CrashKinds : crash[j] # Null => crash[j].label # l
    BY <1>2, <1>3, AtIs DEF Places, CrashWaits
  <2>2. /\ \A p \in 1 .. LastPage : Waiting(paged[p], At("page", p), planted, s)
        /\ \A j \in CrashKinds : crash[j] # Null /\ crash[j].label # l => CrashWaits(crash[j], planted, s)
    BY <1>3, AtIs, Elsewhere DEF s
  <2>3. \A i, j \in CrashKinds : i # j /\ crash[i] # Null /\ crash[j] # Null => crash[i].label # crash[j].label
    BY <1>2 DEF Places
  <2> QED BY <1>3, <2>1, <2>2, <2>3 DEF Places
<1>6. /\ \A m \in Standing(failures, block, paged, crash) :
           m \in Standing(fs, Null, paged, crash) \/ m = l \/ Spent(m, planted, raised)
      /\ l \in Standing(fs, Null, paged, crash)
  BY <1>1, <1>3, BlockSpent DEF Standing
<1>7. AllWait(planted, s, Standing(fs, Null, paged, crash)) /\ WithinTimes(planted, s)
  <2>1. AllWait(planted, raised, Standing(failures, block, paged, crash)) /\ WithinTimes(planted, raised)
    BY DEF PlantedInv
  <2> HIDE DEF Standing
  <2> QED BY <2>1, <1>2, <1>3, <1>6, RaiseTold DEF s
<1>8. InTurn(planted, s, fs)
  <2>1. InTurn(planted, raised, failures) /\ l \in Labels(failures)
    BY <1>3 DEF PlantedInv
  <2> QED BY <2>1, <1>2, <1>3, RaiseInTurn DEF s
<1>9. overlooked' = FALSE
  BY <1>1, NoneBefore DEF PlantedInv
<1> QED BY <1>1, <1>4, <1>5, <1>7, <1>8, <1>9 DEF PlantedInv, RequestTypes

\* or the subreddit's status, which nobody planted,
LEMMA DeclinedStep ==
  ASSUME PlantedInv, NEW kinds, NEW named \in BOOLEAN, NEW page, Declined(kinds, named, page),
         planted' = planted
  PROVE  PlantedInv' /\ made' = made + 1
<1> DEFINE fs == Popped(failures)
<1>1. /\ ~Blocking /\ FirstArmed(failures) = 0 /\ raised' = raised /\ block' = Null
      /\ failures' = fs /\ paged' = paged
      /\ overlooked' = (overlooked \/ Owed({At("block", 0), At("next", 0)}))
      /\ made' = made + 1 /\ crash' = crash
  BY DEF Declined, Requested, Passes, Counted
<1>2. /\ Waiting(failures, At("next", 0), planted, raised) /\ raised \in Seq(Nat)
      /\ Places(planted, raised, failures, block, paged, crash)
  BY DEF PlantedInv, Places, RequestTypes
<1>3. /\ Waiting(fs, At("next", 0), planted, raised) /\ Labels(fs) = {}
      /\ \A m \in Labels(failures) : Spent(m, planted, raised)
  BY <1>1, <1>2, QueueEmpties
<1> HIDE DEF fs
<1>4. Places(planted, raised, fs, Null, paged, crash)
  BY <1>2, <1>3 DEF Places
<1>5. \A m \in Standing(failures, block, paged, crash) :
        m \in Standing(fs, Null, paged, crash) \/ Spent(m, planted, raised)
  BY <1>1, <1>3, BlockSpent DEF Standing
<1>6. AllWait(planted, raised, Standing(fs, Null, paged, crash))
  <2> HIDE DEF Standing
  <2> QED BY <1>5 DEF PlantedInv, AllWait
<1>7. InTurn(planted, raised, fs)
  BY <1>3 DEF PlantedInv, InTurn
<1>8. overlooked' = FALSE
  BY <1>1, NoneBefore DEF PlantedInv
<1> QED BY <1>1, <1>4, <1>6, <1>7, <1>8 DEF PlantedInv, RequestTypes

\* or one planted for the page,
LEMMA PageFailedStep ==
  ASSUME PlantedInv, NEW kinds, NEW page \in 0 .. LastPage, NEW named \in BOOLEAN, PageFailed(kinds, named, page),
         planted' = planted
  PROVE  PlantedInv' /\ made' = made + 1
<1> DEFINE q == paged[page]
           l == q[FirstArmed(q)].label
           s == Append(raised, l)
           fs == Popped(failures)
           pg == [paged EXCEPT ![page] = Popped(@)]
<1>1. /\ ~Blocking /\ FirstArmed(failures) = 0 /\ FirstArmed(q) # 0 /\ raised' = s /\ block' = Null
      /\ failures' = fs /\ paged' = pg /\ page \in 1 .. LastPage
      /\ overlooked' = (overlooked \/ Owed({At("block", 0), At("next", 0)})) /\ made' = made + 1
      /\ crash' = crash
  <2>1. page \in 1 .. LastPage
    BY RequestsAssumption DEF PageFailed
  <2> QED BY <2>1 DEF PageFailed, Requested, Refuses, Raises, Passes, Counted
<1>2. /\ Waiting(failures, At("next", 0), planted, raised) /\ raised \in Seq(Nat)
      /\ Waiting(q, At("page", page), planted, raised)
      /\ Places(planted, raised, failures, block, paged, crash) /\ DOMAIN paged = 1 .. LastPage
  BY <1>1 DEF PlantedInv, Places, RequestTypes
<1>3. /\ l \in Nat /\ l \in DOMAIN planted /\ planted[l].where = At("page", page)
      /\ planted[l].times # Null => FiredIn(s, l) <= planted[l].times
      /\ Waiting(Popped(q), At("page", page), planted, s)
      /\ l \in Labels(Popped(q))
      /\ \A m \in Labels(q) : m \in Labels(Popped(q)) \/ Spent(m, planted, raised)
  BY <1>1, <1>2, QueuePops
<1>4. s \in Seq(Nat) /\ \A i \in DOMAIN s : s[i] \in DOMAIN planted
  BY <1>3, RaisedWithin DEF PlantedInv
<1>5. /\ Waiting(fs, At("next", 0), planted, s) /\ Labels(fs) = {}
      /\ \A m \in Labels(failures) : Spent(m, planted, raised)
  BY <1>1, <1>2, QueueEmpties
<1>6. DOMAIN pg = 1 .. LastPage /\ \A p \in 1 .. LastPage : pg[p] = IF p = page THEN Popped(q) ELSE paged[p]
  BY <1>2
<1> HIDE DEF l, s, fs, pg, q
<1>7. Places(planted, s, fs, Null, pg, crash)
  <2>1. \A j \in CrashKinds : crash[j] # Null => crash[j].label # l
    BY <1>2, <1>3, AtIs DEF Places, CrashWaits
  <2>2. /\ \A p \in 1 .. LastPage : p # page => Waiting(paged[p], At("page", p), planted, s)
        /\ \A j \in CrashKinds : crash[j] # Null /\ crash[j].label # l => CrashWaits(crash[j], planted, s)
    BY <1>3, AtIs, Elsewhere DEF s
  <2>3. \A i, j \in CrashKinds : i # j /\ crash[i] # Null /\ crash[j] # Null => crash[i].label # crash[j].label
    BY <1>2 DEF Places
  <2> QED BY <1>3, <1>5, <1>6, <2>1, <2>2, <2>3 DEF Places
<1>8. /\ \A m \in Standing(failures, block, paged, crash) :
           m \in Standing(fs, Null, pg, crash) \/ m = l \/ Spent(m, planted, raised)
      /\ l \in Standing(fs, Null, pg, crash)
  <2>1. l \in Standing(fs, Null, pg, crash)
    BY <1>1, <1>3, <1>6 DEF Standing
  <2>2. ASSUME NEW m \in Nat, NEW p \in 1 .. LastPage, m \in Labels(paged[p])
        PROVE  m \in Labels(pg[p]) \/ Spent(m, planted, raised)
    BY <1>3, <1>6, <2>2 DEF q
  <2> QED BY <1>1, <1>5, <2>1, <2>2, BlockSpent DEF Standing
<1>9. AllWait(planted, s, Standing(fs, Null, pg, crash)) /\ WithinTimes(planted, s)
  <2>1. AllWait(planted, raised, Standing(failures, block, paged, crash)) /\ WithinTimes(planted, raised)
    BY DEF PlantedInv
  <2> HIDE DEF Standing
  <2> QED BY <2>1, <1>2, <1>3, <1>8, RaiseTold DEF s
<1>10. InTurn(planted, s, fs)
  <2>1. /\ InTurn(planted, raised, failures) /\ planted[l].where # At("next", 0)
        /\ Labels(fs) \subseteq Labels(failures)
    BY <1>3, <1>5, AtIs DEF PlantedInv
  <2> QED BY <2>1, <1>2, <1>3, RaiseInTurn DEF s
<1>11. overlooked' = FALSE
  BY <1>1, NoneBefore DEF PlantedInv
<1> QED BY <1>1, <1>4, <1>6, <1>7, <1>9, <1>10, <1>11 DEF PlantedInv, RequestTypes

\* or there is an answer:
LEMMA AnsweredStep ==
  ASSUME PlantedInv, NEW kinds, NEW page \in 0 .. LastPage, NEW named \in BOOLEAN, Answered(kinds, named, page),
         planted' = planted
  PROVE  PlantedInv' /\ made' = made + 1
<1> DEFINE fs == Popped(failures)
           pg == IF page = 0 THEN paged ELSE [paged EXCEPT ![page] = Popped(@)]
<1>1. /\ ~Blocking /\ FirstArmed(failures) = 0 /\ raised' = raised /\ block' = Null
      /\ failures' = fs /\ paged' = pg
      /\ overlooked' = (overlooked \/ Owed({At("block", 0), At("next", 0), At("page", page)}))
      /\ made' = made + 1 /\ crash' = crash
      /\ page = 0 \/ (page \in 1 .. LastPage /\ FirstArmed(paged[page]) = 0)
  <2>1. page = 0 \/ page \in 1 .. LastPage
    BY RequestsAssumption
  <2> QED BY <2>1 DEF Answered, Requested, Refuses, Passes, Counted
<1>2. /\ Waiting(failures, At("next", 0), planted, raised) /\ raised \in Seq(Nat)
      /\ \A p \in 1 .. LastPage : Waiting(paged[p], At("page", p), planted, raised)
      /\ Places(planted, raised, failures, block, paged, crash) /\ DOMAIN paged = 1 .. LastPage
  BY <1>1 DEF PlantedInv, Places, RequestTypes
<1>3. /\ Waiting(fs, At("next", 0), planted, raised) /\ Labels(fs) = {}
      /\ \A m \in Labels(failures) : Spent(m, planted, raised)
  BY <1>1, <1>2, QueueEmpties
<1>4. /\ DOMAIN pg = 1 .. LastPage
      /\ \A p \in 1 .. LastPage : \/ pg[p] = paged[p]
                                  \/ p = page /\ pg[p] = Popped(paged[p]) /\ FirstArmed(paged[p]) = 0
  BY <1>1, <1>2
<1>5. ASSUME NEW p \in 1 .. LastPage
      PROVE  /\ Waiting(pg[p], At("page", p), planted, raised)
             /\ \A m \in Labels(paged[p]) : m \in Labels(pg[p]) \/ Spent(m, planted, raised)
  <2> HIDE DEF pg
  <2>1. CASE pg[p] = paged[p]
    BY <1>2, <2>1
  <2>2. CASE pg[p] = Popped(paged[p]) /\ FirstArmed(paged[p]) = 0
    BY <1>2, <2>2, QueueEmpties
  <2> QED BY <1>4, <2>1, <2>2
<1> HIDE DEF fs, pg
<1>6. Places(planted, raised, fs, Null, pg, crash)
  BY <1>2, <1>3, <1>5 DEF Places
<1>7. \A m \in Standing(failures, block, paged, crash) :
        m \in Standing(fs, Null, pg, crash) \/ Spent(m, planted, raised)
  BY <1>1, <1>3, <1>5, BlockSpent DEF Standing
<1>8. AllWait(planted, raised, Standing(fs, Null, pg, crash))
  <2> HIDE DEF Standing
  <2> QED BY <1>7 DEF PlantedInv, AllWait
<1>9. InTurn(planted, raised, fs)
  BY <1>3 DEF PlantedInv, InTurn
<1>10. overlooked' = FALSE
  BY <1>1, NoneBefore DEF PlantedInv
<1> QED BY <1>1, <1>4, <1>6, <1>8, <1>9, <1>10 DEF PlantedInv, RequestTypes

\* an operation keeps what is planted waiting in its place.
LEMMA OperationStep ==
  ASSUME PlantedInv, NEW kinds \in SUBSET CrashKinds, NEW page \in 0 .. LastPage,
         NEW named \in BOOLEAN, Operation(kinds, named, page)
  PROVE  PlantedInv' /\ made' \in {made, made + 1}
BY CrashedStep, BlockedStep, FailedStep, DeclinedStep, PageFailedStep, AnsweredStep DEF Operation

-----------------------------------------------------------------------------
(* Planting.                                                                *)

\* Every place is one of the queues.
LEMMA AtType ==
  ASSUME NEW v \in Queues, NEW p \in Nat
  PROVE  At(v, p) \in Wheres
BY DEF At, Wheres

\* Planting: what was planted keeps its place and its times, and the new one was never raised.
NewPlan(w, t, off) ==
  /\ Label \in Nat /\ Label \notin DOMAIN planted /\ planted' \in Seq(Plantings)
  /\ DOMAIN planted' = DOMAIN planted \cup {Label}
  /\ planted'[Label] = [where |-> w, times |-> t, off |-> FALSE]
  /\ \A l \in DOMAIN planted :
       /\ planted'[l].where = planted[l].where /\ planted'[l].times = planted[l].times
       /\ IF l \in off THEN planted'[l].off ELSE planted'[l] = planted[l]
  /\ raised' = raised /\ raised \in Seq(Nat) /\ FiredIn(raised, Label) = 0
  /\ \A i \in DOMAIN raised :
       raised[i] \in DOMAIN planted /\ raised[i] \in DOMAIN planted' /\ raised[i] < Label

\* That is what planting does.
LEMMA PlantsIs ==
  ASSUME RequestTypes, NEW w \in Wheres, NEW t \in Nat \cup {Null}, NEW off,
         Plants(w, t, off)
  PROVE  NewPlan(w, t, off)
<1> DEFINE n == Len(planted)
           new == [where |-> w, times |-> t, off |-> FALSE]
           kept == [l \in DOMAIN planted |->
                      IF l \in off THEN [planted[l] EXCEPT !.off = TRUE] ELSE planted[l]]
<1>1. /\ n \in Nat /\ DOMAIN planted = 1 .. n /\ \A l \in 1 .. n : planted[l] \in Plantings
      /\ raised \in Seq(Nat) /\ \A i \in DOMAIN raised : raised[i] \in 1 .. n
  <2>1. planted \in Seq(Plantings) /\ raised \in Seq(Nat)
        /\ \A i \in DOMAIN raised : raised[i] \in DOMAIN planted
    BY DEF RequestTypes
  <2> HIDE DEF Plantings
  <2> QED BY <2>1, LenProperties, ElementOfSeq
<1>2. planted' = Append(kept, new) /\ raised' = raised
  BY DEF Plants
<1> HIDE DEF n
<1>3. \A l \in 1 .. n : /\ kept[l] \in Plantings
                        /\ kept[l].where = planted[l].where /\ kept[l].times = planted[l].times
                        /\ IF l \in off THEN kept[l].off ELSE kept[l] = planted[l]
  BY <1>1 DEF Plantings
<1>4. new \in Plantings
  BY DEF Plantings, Wheres
<1>5. kept \in Seq(Plantings) /\ Len(kept) = n
  <2>1. kept \in [1 .. n -> Plantings]
    BY <1>1, <1>3
  <2> HIDE DEF kept, Plantings
  <2>2. kept \in Seq(Plantings)
    BY <1>1, <2>1, IsASeq
  <2>3. 1 .. Len(kept) = 1 .. n /\ Len(kept) \in Nat
    BY <2>1, <2>2, LenProperties
  <2>4. PICK m \in Nat : m = Len(kept)
    BY <2>3
  <2>5. m = n
    <3>1. m \in 1 .. m \/ m = 0
      BY <2>4
    <3> QED BY <1>1, <2>3, <2>4
  <2> QED BY <2>2, <2>4, <2>5
<1> HIDE DEF kept, new, Plantings
<1>6. /\ Append(kept, new) \in Seq(Plantings) /\ DOMAIN Append(kept, new) = 1 .. n + 1
      /\ Append(kept, new)[n + 1] = new /\ \A l \in 1 .. n : Append(kept, new)[l] = kept[l]
  <2>1. /\ Append(kept, new) \in Seq(Plantings) /\ Len(Append(kept, new)) = n + 1
        /\ Append(kept, new)[n + 1] = new /\ \A l \in 1 .. n : Append(kept, new)[l] = kept[l]
    BY <1>4, <1>5, AppendProperties
  <2> QED BY <2>1, LenProperties
<1>7. Label = n + 1 /\ n + 1 \in Nat /\ n + 1 \notin 1 .. n /\ 1 .. n + 1 = 1 .. n \cup {n + 1}
  BY <1>1 DEF Label, n
<1>8. FiredIn(raised, Label) = 0
  <2>1. \A i \in DOMAIN raised : raised[i] # Label
    BY <1>1, <1>7
  <2> QED BY <2>1, NeverFired
<1>9. /\ DOMAIN planted' = DOMAIN planted \cup {Label} /\ planted' \in Seq(Plantings)
      /\ planted'[Label] = new /\ \A l \in 1 .. n : planted'[l] = kept[l]
  BY <1>1, <1>2, <1>6, <1>7
<1>10. \A i \in DOMAIN raised :
         raised[i] \in DOMAIN planted /\ raised[i] \in DOMAIN planted' /\ raised[i] < Label
  BY <1>1, <1>7, <1>9
<1> QED BY <1>1, <1>2, <1>3, <1>7, <1>8, <1>9, <1>10 DEF NewPlan, new

\* The failure planted waits where it was planted.
LEMMA NewWaits ==
  ASSUME RequestTypes, NEW w \in Wheres, NEW t \in Nat \cup {Null}, NEW off,
         Plants(w, t, off)
  PROVE  Placed(Failure(Label, t), w, planted', raised) /\ Failure(Label, t).label = Label
<1>0. NewPlan(w, t, off)
  BY PlantsIs
<1>1. /\ Label \in Nat /\ Label \in DOMAIN planted' /\ FiredIn(raised, Label) = 0
      /\ planted'[Label].where = w /\ planted'[Label].times = t /\ planted'[Label].off = FALSE
  BY <1>0 DEF NewPlan
<1>2. /\ Failure(Label, t) \in Failures /\ Failure(Label, t).label = Label
      /\ Failure(Label, t).times = t /\ Failure(Label, t).fired = FALSE
  BY <1>1 DEF Failure, Failures
<1>3. t # Null => t = t + 0
  OBVIOUS
<1> HIDE DEF Failures
<1> QED BY <1>1, <1>2, <1>3 DEF Placed

\* What a planting leaves as it is.
LEMMA PlantKeeps ==
  ASSUME PlantedInv, NEW w \in Wheres, NEW t \in Nat \cup {Null}, NEW off,
         Plants(w, t, off)
  PROVE  /\ \A q, v : Waiting(q, v, planted, raised) /\ Labels(q) \cap off = {} =>
                        Waiting(q, v, planted', raised)
         /\ \A f, v : Placed(f, v, planted, raised) /\ f.label \notin off => Placed(f, v, planted', raised)
         /\ \A c : CrashWaits(c, planted, raised) /\ c.label \notin off => CrashWaits(c, planted', raised)
         /\ WithinTimes(planted', raised)
<1>0. NewPlan(w, t, off) /\ WithinTimes(planted, raised)
  <2>1. RequestTypes /\ WithinTimes(planted, raised)
    BY DEF PlantedInv
  <2> QED BY <2>1, PlantsIs
<1>1. /\ DOMAIN planted' = DOMAIN planted \cup {Label} /\ FiredIn(raised, Label) = 0
      /\ planted'[Label].times = t /\ Null \notin Nat
      /\ \A l \in DOMAIN planted :
           /\ planted'[l].times = planted[l].times
           /\ l \notin off => planted'[l] = planted[l] /\ l \in DOMAIN planted'
  BY <1>0, RequestsAssumption DEF NewPlan
<1>2. ASSUME NEW f, NEW v, Placed(f, v, planted, raised), f.label \notin off
      PROVE  Placed(f, v, planted', raised)
  <2>1. f.label \in DOMAIN planted
    BY <1>2 DEF Placed
  <2> QED BY <1>1, <1>2, <2>1, PlantStays
<1>3. ASSUME NEW c, CrashWaits(c, planted, raised), c.label \notin off
      PROVE  CrashWaits(c, planted', raised)
  <2>1. c.label \in DOMAIN planted
    BY <1>3 DEF CrashWaits
  <2> QED BY <1>1, <1>3, <2>1, PlantStays
<1>4. ASSUME NEW q, NEW v, Waiting(q, v, planted, raised), Labels(q) \cap off = {}
      PROVE  Waiting(q, v, planted', raised)
  <2>1. \A i \in DOMAIN q : q[i].label \notin off
    BY <1>4 DEF Labels
  <2>2. \A i \in DOMAIN q : Placed(q[i], v, planted', raised)
    BY <1>2, <1>4, <2>1 DEF Waiting
  <2> QED BY <1>4, <2>2 DEF Waiting
<1>5. ASSUME NEW l \in DOMAIN planted', planted'[l].times # Null
      PROVE  FiredIn(raised, l) <= planted'[l].times
  <2>1. CASE l = Label
    <3>1. t \in Nat
      BY <1>1, <1>5, <2>1
    <3> QED BY <1>1, <2>1, <3>1
  <2>2. CASE l \in DOMAIN planted
    BY <1>0, <1>1, <1>5, <2>2 DEF WithinTimes
  <2> QED BY <1>1, <2>1, <2>2
<1> QED BY <1>2, <1>3, <1>4, <1>5 DEF WithinTimes

\* What waits after a planting: all that waited, but for what was replaced, and the new one.
LEMMA PlantTold ==
  ASSUME PlantedInv, NEW w \in Wheres, NEW t \in Nat \cup {Null}, NEW off,
         Plants(w, t, off), NEW old, NEW new, AllWait(planted, raised, old),
         \A m \in old : m \in new \/ m \in off, Label \in new \/ t = 0
  PROVE  AllWait(planted', raised, new)
<1>0. NewPlan(w, t, off)
  <2>1. RequestTypes
    BY DEF PlantedInv
  <2> QED BY <2>1, PlantsIs
<1>1. /\ DOMAIN planted' = DOMAIN planted \cup {Label} /\ FiredIn(raised, Label) = 0
      /\ planted'[Label].times = t
      /\ \A l \in DOMAIN planted :
           IF l \in off THEN planted'[l].off
           ELSE planted'[l] = planted[l] /\ l \in DOMAIN planted'
  BY <1>0 DEF NewPlan
<1>2. ASSUME NEW l \in DOMAIN planted PROVE l \in new \/ Spent(l, planted', raised)
  <2>1. CASE l \in off
    BY <1>1, <2>1 DEF Spent
  <2>2. CASE l \notin off
    BY <1>1, <2>2 DEF AllWait, Spent
  <2> QED BY <2>1, <2>2
<1>3. Label \in new \/ Spent(Label, planted', raised)
  BY <1>1 DEF Spent
<1> QED BY <1>1, <1>2, <1>3 DEF AllWait

\* What is planted last comes after what was raised.
LEMMA PlantInTurn ==
  ASSUME PlantedInv, NEW w \in Wheres, NEW t \in Nat \cup {Null}, NEW off,
         Plants(w, t, off), NEW fs, Labels(fs) \subseteq Labels(failures) \cup {Label}
  PROVE  InTurn(planted', raised, fs)
<1>0. NewPlan(w, t, off)
  <2>1. RequestTypes
    BY DEF PlantedInv
  <2> QED BY <2>1, PlantsIs
<1>1. /\ Label \in Nat /\ \A l \in DOMAIN planted : planted'[l].where = planted[l].where
      /\ \A i \in DOMAIN raised : raised[i] \in DOMAIN planted /\ raised[i] < Label /\ raised[i] \in Nat
  <2>1. /\ Label \in Nat /\ \A l \in DOMAIN planted : planted'[l].where = planted[l].where
        /\ \A i \in DOMAIN raised : raised[i] \in DOMAIN planted /\ raised[i] < Label
    BY <1>0 DEF NewPlan
  <2>2. \A i \in DOMAIN raised : raised[i] \in Nat
    <3>1. raised \in Seq(Nat)
      BY <1>0 DEF NewPlan
    <3> QED BY <3>1, Terms
  <2> QED BY <2>1, <2>2
<1>2. InTurn(planted, raised, failures)
  BY DEF PlantedInv
<1>3. \A i \in DOMAIN raised : raised[i] <= Label
  BY <1>1
<1> QED BY <1>1, <1>2, <1>3 DEF InTurn

\* Each kind of planting.
LEMMA FailNextStep ==
  ASSUME PlantedInv, NEW t \in Times, FailNext(t)
  PROVE  PlantedInv'
<1> DEFINE w == At("next", 0)
           f == Failure(Label, t)
           fs == Append(failures, f)
<1>1. /\ Plants(w, t, {}) /\ failures' = fs /\ block' = block /\ paged' = paged /\ crash' = crash
      /\ overlooked' = overlooked
  BY DEF FailNext, Plants
<1>2. w \in Wheres /\ t \in Nat \cup {Null} /\ RequestTypes
      /\ Places(planted, raised, failures, block, paged, crash)
      /\ AllWait(planted, raised, Standing(failures, block, paged, crash))
  <2>1. "next" \in Queues /\ 0 \in Nat /\ t \in Nat \cup {Null}
    BY RequestsAssumption DEF Queues
  <2>2. w \in Wheres
    BY <2>1, AtType
  <2>3. /\ RequestTypes
        /\ Places(planted, raised, failures, block, paged, crash)
        /\ AllWait(planted, raised, Standing(failures, block, paged, crash))
    BY DEF PlantedInv, RequestTypes
  <2> HIDE DEF w
  <2> QED BY <2>1, <2>2, <2>3
<1>3. /\ \A q, v : Waiting(q, v, planted, raised) => Waiting(q, v, planted', raised)
      /\ \A g, v : Placed(g, v, planted, raised) => Placed(g, v, planted', raised)
      /\ \A c : CrashWaits(c, planted, raised) => CrashWaits(c, planted', raised)
      /\ WithinTimes(planted', raised)
  <2> HIDE DEF w, f, fs
  <2> QED BY <1>1, <1>2, PlantKeeps
<1>4. /\ Label \in Nat /\ Label \notin DOMAIN planted /\ planted' \in Seq(Plantings) /\ raised' = raised
      /\ \A i \in DOMAIN raised : raised[i] \in DOMAIN planted'
  <2>1. NewPlan(w, t, {})
    BY <1>1, <1>2, PlantsIs
  <2> QED BY <2>1 DEF NewPlan
<1>5. Waiting(fs, w, planted', raised) /\ Labels(fs) = Labels(failures) \cup {Label}
  <2>1. Placed(f, w, planted', raised) /\ f.label = Label
    BY <1>1, <1>2, NewWaits
  <2>2. Waiting(failures, w, planted', raised)
    BY <1>2, <1>3 DEF Places
  <2>3. \A i \in DOMAIN failures : failures[i].label < Label
    <3>1. Label = Len(planted) + 1 /\ Len(planted) \in Nat /\ DOMAIN planted = 1 .. Len(planted)
      BY <1>2, LenProperties DEF Label, RequestTypes
    <3>2. \A i \in DOMAIN failures : failures[i].label \in DOMAIN planted
      BY <1>2 DEF Places, Waiting, Placed
    <3> QED BY <3>1, <3>2
  <2> HIDE DEF f
  <2> QED BY <2>1, <2>2, <2>3, QueueJoined
<1> HIDE DEF w, f, fs
<1>6. Places(planted', raised, fs, block, paged, crash)
  BY <1>2, <1>3, <1>5 DEF Places, w
<1>7. AllWait(planted', raised, Standing(fs, block, paged, crash))
  <2>1. \A m \in Standing(failures, block, paged, crash) : m \in Standing(fs, block, paged, crash)
    BY <1>5 DEF Standing
  <2>2. Label \in Standing(fs, block, paged, crash)
    BY <1>4, <1>5 DEF Standing
  <2> HIDE DEF Standing
  <2> QED BY <1>1, <1>2, <2>1, <2>2, PlantTold
<1>8. InTurn(planted', raised, fs)
  BY <1>1, <1>2, <1>5, PlantInTurn
<1> QED BY <1>1, <1>2, <1>3, <1>4, <1>6, <1>7, <1>8 DEF PlantedInv, RequestTypes

\* Planting for a page.
LEMMA FailPageStep ==
  ASSUME PlantedInv, NEW t \in Times, NEW page \in 1 .. LastPage, FailPage(page, t)
  PROVE  PlantedInv'
<1> DEFINE w == At("page", page)
           f == Failure(Label, t)
           q == Append(paged[page], f)
           pg == [paged EXCEPT ![page] = Append(@, f)]
<1>1. /\ Plants(w, t, {}) /\ failures' = failures /\ block' = block /\ paged' = pg /\ crash' = crash
      /\ overlooked' = overlooked
  BY DEF FailPage, Plants
<1>2. w \in Wheres /\ t \in Nat \cup {Null} /\ RequestTypes
      /\ Places(planted, raised, failures, block, paged, crash) /\ DOMAIN paged = 1 .. LastPage
      /\ AllWait(planted, raised, Standing(failures, block, paged, crash))
  <2>1. "page" \in Queues /\ page \in Nat /\ t \in Nat \cup {Null}
    BY RequestsAssumption DEF Queues
  <2>2. w \in Wheres
    BY <2>1, AtType
  <2>3. /\ RequestTypes /\ DOMAIN paged = 1 .. LastPage
        /\ Places(planted, raised, failures, block, paged, crash)
        /\ AllWait(planted, raised, Standing(failures, block, paged, crash))
    BY DEF PlantedInv, RequestTypes
  <2> HIDE DEF w
  <2> QED BY <2>1, <2>2, <2>3
<1>3. /\ \A u, v : Waiting(u, v, planted, raised) => Waiting(u, v, planted', raised)
      /\ \A g, v : Placed(g, v, planted, raised) => Placed(g, v, planted', raised)
      /\ \A c : CrashWaits(c, planted, raised) => CrashWaits(c, planted', raised)
      /\ WithinTimes(planted', raised)
  <2> HIDE DEF w, f, q, pg
  <2> QED BY <1>1, <1>2, PlantKeeps
<1>4. /\ Label \in Nat /\ Label \notin DOMAIN planted /\ planted' \in Seq(Plantings) /\ raised' = raised
      /\ \A i \in DOMAIN raised : raised[i] \in DOMAIN planted'
  <2>1. NewPlan(w, t, {})
    BY <1>1, <1>2, PlantsIs
  <2> QED BY <2>1 DEF NewPlan
<1>5. Waiting(q, w, planted', raised) /\ Labels(q) = Labels(paged[page]) \cup {Label}
  <2>0. Waiting(paged[page], w, planted, raised)
    BY <1>2 DEF Places
  <2>1. Placed(f, w, planted', raised) /\ f.label = Label
    BY <1>1, <1>2, NewWaits
  <2>2. Waiting(paged[page], w, planted', raised)
    BY <1>3, <2>0
  <2>3. \A i \in DOMAIN paged[page] : paged[page][i].label < Label
    <3>1. Label = Len(planted) + 1 /\ Len(planted) \in Nat /\ DOMAIN planted = 1 .. Len(planted)
      BY <1>2, LenProperties DEF Label, RequestTypes
    <3>2. \A i \in DOMAIN paged[page] : paged[page][i].label \in DOMAIN planted
      BY <2>0 DEF Waiting, Placed
    <3> QED BY <3>1, <3>2
  <2> HIDE DEF f, w
  <2> QED BY <2>1, <2>2, <2>3, QueueJoined
<1>6. DOMAIN pg = 1 .. LastPage /\ \A p \in 1 .. LastPage : pg[p] = IF p = page THEN q ELSE paged[p]
  BY <1>2
<1> HIDE DEF f, q, pg, w
<1>7. Places(planted', raised, failures, block, pg, crash)
  <2>1. \A p \in 1 .. LastPage : Waiting(pg[p], At("page", p), planted', raised)
    BY <1>2, <1>3, <1>5, <1>6 DEF Places, w
  <2> QED BY <1>2, <1>3, <2>1 DEF Places
<1>8. AllWait(planted', raised, Standing(failures, block, pg, crash))
  <2>1. \A m \in Standing(failures, block, paged, crash) : m \in Standing(failures, block, pg, crash)
    BY <1>5, <1>6 DEF Standing
  <2>2. Label \in Standing(failures, block, pg, crash)
    BY <1>4, <1>5, <1>6 DEF Standing
  <2> HIDE DEF Standing
  <2> QED BY <1>1, <1>2, <2>1, <2>2, PlantTold
<1>9. InTurn(planted', raised, failures)
  BY <1>1, <1>2, PlantInTurn
<1> QED BY <1>1, <1>2, <1>3, <1>4, <1>6, <1>7, <1>8, <1>9 DEF PlantedInv, RequestTypes

\* Planting a block page, in the place of the last.
LEMMA SetHtml403Step ==
  ASSUME PlantedInv, NEW t \in Times, SetHtml403(t)
  PROVE  PlantedInv'
<1> DEFINE w == At("block", 0)
           off == IF block = Null THEN {} ELSE {block.label}
           bl == IF t = 0 THEN Null ELSE Failure(Label, t)
<1>1. /\ Plants(w, t, off) /\ failures' = failures /\ block' = bl /\ paged' = paged /\ crash' = crash
      /\ overlooked' = overlooked
  BY DEF SetHtml403, Plants
<1>2. w \in Wheres /\ t \in Nat \cup {Null} /\ RequestTypes
      /\ Places(planted, raised, failures, block, paged, crash)
      /\ AllWait(planted, raised, Standing(failures, block, paged, crash))
  <2>1. "block" \in Queues /\ 0 \in Nat /\ t \in Nat \cup {Null}
    BY RequestsAssumption DEF Queues
  <2>2. w \in Wheres
    BY <2>1, AtType
  <2>3. /\ RequestTypes
        /\ Places(planted, raised, failures, block, paged, crash)
        /\ AllWait(planted, raised, Standing(failures, block, paged, crash))
    BY DEF PlantedInv, RequestTypes
  <2> HIDE DEF w
  <2> QED BY <2>1, <2>2, <2>3
<1>3. /\ \A u, v : Waiting(u, v, planted, raised) /\ Labels(u) \cap off = {} =>
                     Waiting(u, v, planted', raised)
      /\ \A c : CrashWaits(c, planted, raised) /\ c.label \notin off => CrashWaits(c, planted', raised)
      /\ WithinTimes(planted', raised)
  <2> HIDE DEF off
  <2> QED BY <1>1, <1>2, PlantKeeps
<1>4. /\ Label \in Nat /\ planted' \in Seq(Plantings) /\ raised' = raised
      /\ \A i \in DOMAIN raised : raised[i] \in DOMAIN planted'
  <2> HIDE DEF off
  <2>1. NewPlan(w, t, off)
    BY <1>1, <1>2, PlantsIs
  <2> QED BY <2>1 DEF NewPlan
<1>5. Placed(Failure(Label, t), w, planted', raised) /\ Failure(Label, t).label = Label
  <2> HIDE DEF off
  <2> QED BY <1>1, <1>2, NewWaits
<1>6. Failure(Label, t) # Null
  BY <1>5, RequestsAssumption DEF Placed
<1>7. \A m \in off : m \in DOMAIN planted /\ planted[m].where = At("block", 0)
  BY <1>2 DEF Places, Placed
<1>8. /\ Labels(failures) \cap off = {}
      /\ \A p \in 1 .. LastPage : Labels(paged[p]) \cap off = {}
      /\ \A k \in CrashKinds : crash[k] # Null => crash[k].label \notin off
  <2> HIDE DEF off
  <2>1. \A m \in Labels(failures) : planted[m].where = At("next", 0)
    BY <1>2, LabelsAre DEF Places
  <2>2. \A p \in 1 .. LastPage : \A m \in Labels(paged[p]) : planted[m].where = At("page", p)
    <3> SUFFICES ASSUME NEW p \in 1 .. LastPage, NEW m \in Labels(paged[p])
                 PROVE  planted[m].where = At("page", p)
      OBVIOUS
    <3>1. Waiting(paged[p], At("page", p), planted, raised)
      BY <1>2 DEF Places
    <3> QED BY <3>1, LabelsAre
  <2>3. \A k \in CrashKinds : crash[k] # Null => planted[crash[k].label].where = At("crash", 0)
    BY <1>2 DEF Places, CrashWaits
  <2> QED BY <1>7, <2>1, <2>2, <2>3, AtIs
<1>9. Places(planted', raised, failures, bl, paged, crash)
  <2>1. bl # Null => Placed(bl, At("block", 0), planted', raised)
    BY <1>5
  <2> HIDE DEF off, bl
  <2> QED BY <1>2, <1>3, <1>8, <2>1 DEF Places
<1>10. AllWait(planted', raised, Standing(failures, bl, paged, crash))
  <2>1. \A m \in Standing(failures, block, paged, crash) :
          m \in Standing(failures, bl, paged, crash) \/ m \in off
    BY DEF Standing
  <2>2. Label \in Standing(failures, bl, paged, crash) \/ t = 0
    BY <1>4, <1>5, <1>6 DEF Standing
  <2> HIDE DEF Standing, off, bl
  <2> QED BY <1>1, <1>2, <2>1, <2>2, PlantTold
<1>11. InTurn(planted', raised, failures)
  <2> HIDE DEF off
  <2> QED BY <1>1, <1>2, PlantInTurn
<1> QED BY <1>1, <1>2, <1>3, <1>4, <1>9, <1>10, <1>11 DEF PlantedInv, RequestTypes

\* Planting a crash, in the place of the last of its kind.
LEMMA CrashAfterStep ==
  ASSUME PlantedInv, NEW k \in CrashKinds, NEW n \in CrashPoints, CrashAfter(k, n)
  PROVE  PlantedInv'
<1> DEFINE w == At("crash", 0)
           off == IF crash[k] = Null THEN {} ELSE {crash[k].label}
           c == [label |-> Label, n |-> n]
           cr == [crash EXCEPT ![k] = c]
<1>1. /\ Plants(w, 1, off) /\ failures' = failures /\ block' = block /\ paged' = paged /\ crash' = cr
      /\ overlooked' = overlooked
  BY DEF CrashAfter, Plants
<1>2. w \in Wheres /\ 1 \in Nat \cup {Null} /\ RequestTypes
      /\ Places(planted, raised, failures, block, paged, crash) /\ DOMAIN crash = CrashKinds
      /\ AllWait(planted, raised, Standing(failures, block, paged, crash))
  <2>1. "crash" \in Queues /\ 0 \in Nat /\ 1 \in Nat \cup {Null}
    BY RequestsAssumption DEF Queues
  <2>2. w \in Wheres
    BY <2>1, AtType
  <2>3. /\ RequestTypes /\ DOMAIN crash = CrashKinds
        /\ Places(planted, raised, failures, block, paged, crash)
        /\ AllWait(planted, raised, Standing(failures, block, paged, crash))
    BY DEF PlantedInv, RequestTypes
  <2> HIDE DEF w
  <2> QED BY <2>1, <2>2, <2>3
<1>3. /\ \A u, v : Waiting(u, v, planted, raised) /\ Labels(u) \cap off = {} =>
                     Waiting(u, v, planted', raised)
      /\ \A f, v : Placed(f, v, planted, raised) /\ f.label \notin off => Placed(f, v, planted', raised)
      /\ \A d : CrashWaits(d, planted, raised) /\ d.label \notin off => CrashWaits(d, planted', raised)
      /\ WithinTimes(planted', raised)
  <2> HIDE DEF off
  <2> QED BY <1>1, <1>2, PlantKeeps
<1>4. /\ Label \in Nat /\ Label \notin DOMAIN planted /\ planted' \in Seq(Plantings) /\ raised' = raised
      /\ Label \in DOMAIN planted' /\ FiredIn(raised, Label) = 0
      /\ planted'[Label] = [where |-> w, times |-> 1, off |-> FALSE]
      /\ \A i \in DOMAIN raised : raised[i] \in DOMAIN planted'
  <2> HIDE DEF off
  <2>1. NewPlan(w, 1, off)
    BY <1>1, <1>2, PlantsIs
  <2> QED BY <2>1 DEF NewPlan
<1>5. c \in Crashes /\ c # Null /\ c.label = Label /\ CrashWaits(c, planted', raised)
  <2>1. c \in Crashes
    BY <1>4, RequestsAssumption DEF Crashes
  <2>2. c # Null /\ c.label = Label
    BY <2>1, RequestsAssumption
  <2> HIDE DEF c
  <2> QED BY <1>4, <2>1, <2>2 DEF CrashWaits
<1>6. \A m \in off : m \in DOMAIN planted /\ planted[m].where = At("crash", 0)
  BY <1>2 DEF Places, CrashWaits
<1>7. \A j \in CrashKinds : cr[j] = IF j = k THEN c ELSE crash[j]
  BY <1>2
<1>8. /\ \A j \in CrashKinds : j # k /\ crash[j] # Null => crash[j].label \notin off /\ crash[j].label # Label
      /\ \A i, j \in CrashKinds : i # j /\ crash[i] # Null /\ crash[j] # Null => crash[i].label # crash[j].label
  <2>1. \A i, j \in CrashKinds : i # j /\ crash[i] # Null /\ crash[j] # Null => crash[i].label # crash[j].label
    BY <1>2 DEF Places
  <2>2. \A j \in CrashKinds : crash[j] # Null => crash[j].label \in DOMAIN planted
    BY <1>2 DEF Places, CrashWaits
  <2> QED BY <1>4, <2>1, <2>2
<1>9. /\ Labels(failures) \cap off = {}
      /\ \A p \in 1 .. LastPage : Labels(paged[p]) \cap off = {}
      /\ block # Null => block.label \notin off
  <2> HIDE DEF off
  <2>1. \A m \in Labels(failures) : planted[m].where = At("next", 0)
    BY <1>2, LabelsAre DEF Places
  <2>2. \A p \in 1 .. LastPage : \A m \in Labels(paged[p]) : planted[m].where = At("page", p)
    <3> SUFFICES ASSUME NEW p \in 1 .. LastPage, NEW m \in Labels(paged[p])
                 PROVE  planted[m].where = At("page", p)
      OBVIOUS
    <3>1. Waiting(paged[p], At("page", p), planted, raised)
      BY <1>2 DEF Places
    <3> QED BY <3>1, LabelsAre
  <2>3. block # Null => planted[block.label].where = At("block", 0)
    BY <1>2 DEF Places, Placed
  <2> QED BY <1>6, <2>1, <2>2, <2>3, AtIs
<1>10. Places(planted', raised, failures, block, paged, cr)
  <2> HIDE DEF off, cr, c
  <2>1. \A j \in CrashKinds : cr[j] # Null => CrashWaits(cr[j], planted', raised)
    BY <1>2, <1>3, <1>5, <1>7, <1>8 DEF Places
  <2>2. \A i, j \in CrashKinds : i # j /\ cr[i] # Null /\ cr[j] # Null => cr[i].label # cr[j].label
    BY <1>5, <1>7, <1>8
  <2> QED BY <1>2, <1>3, <1>9, <2>1, <2>2 DEF Places
<1>11. AllWait(planted', raised, Standing(failures, block, paged, cr))
  <2>1. \A m \in Standing(failures, block, paged, crash) :
          m \in Standing(failures, block, paged, cr) \/ m \in off
    <3> HIDE DEF cr
    <3>1. ASSUME NEW j \in CrashKinds, crash[j] # Null
          PROVE  (cr[j] # Null /\ cr[j].label = crash[j].label) \/ crash[j].label \in off
      BY <1>7, <3>1
    <3> HIDE DEF off
    <3> QED BY <3>1 DEF Standing
  <2>2. Label \in Standing(failures, block, paged, cr) \/ 1 = 0
    <3>1. cr[k] # Null /\ cr[k].label = Label
      BY <1>5, <1>7
    <3> QED BY <1>4, <3>1 DEF Standing
  <2> HIDE DEF Standing, off, cr
  <2> QED BY <1>1, <1>2, <2>1, <2>2, PlantTold
<1>12. InTurn(planted', raised, failures)
  <2> HIDE DEF off
  <2> QED BY <1>1, <1>2, PlantInTurn
<1> QED BY <1>1, <1>2, <1>3, <1>4, <1>10, <1>11, <1>12 DEF PlantedInv, RequestTypes

-----------------------------------------------------------------------------
(* The requests charged.                                                    *)

Costs == [i \in DOMAIN calls |-> calls[i].cost]

ChargedInv ==
  /\ calls \in Seq([cost : Nat, page : 0 .. LastPage]) /\ sent \in Seq(Nat) /\ Len(sent) = Len(calls)
  /\ made \in Nat /\ \A i \in DOMAIN calls : calls[i].cost = sent[i]
  /\ made = Total(sent)

\* The terms charged are the requests sent.
LEMMA ChargesAre ==
  ASSUME ChargedInv
  PROVE  ChargesAreRight
<1>1. /\ DOMAIN calls = DOMAIN sent /\ sent = [i \in DOMAIN sent |-> sent[i]]
      /\ \A i \in DOMAIN calls : calls[i].cost = sent[i]
  <2>1. DOMAIN calls = 1 .. Len(calls) /\ DOMAIN sent = 1 .. Len(sent)
    BY LenProperties DEF ChargedInv
  <2>2. sent = [i \in DOMAIN sent |-> sent[i]]
    <3>1. sent \in [1 .. Len(sent) -> Nat]
      BY LenProperties DEF ChargedInv
    <3> QED BY <3>1
  <2> QED BY <2>1, <2>2 DEF ChargedInv
<1>2. [i \in DOMAIN calls |-> calls[i].cost] = sent
  BY <1>1
<1>3. made = FoldSeq(LAMBDA m, n : m + n, 0, sent)
  BY DEF ChargedInv, Total
<1> QED BY <1>1, <1>2, <1>3 DEF ChargesAreRight

\* A call of one request.
LEMMA CallAdded ==
  ASSUME ChargedInv, NEW v \in Nat, NEW p \in 0 .. LastPage,
         calls' = Append(calls, [cost |-> v, page |-> p]), sent' = Append(sent, v), made' = made + v
  PROVE  ChargedInv'
<1> DEFINE C == [cost : Nat, page : 0 .. LastPage]
           new == [cost |-> v, page |-> p]
<1>0. new \in C /\ new.cost = v
  OBVIOUS
<1> HIDE DEF new, C
<1>1. calls \in Seq(C) /\ sent \in Seq(Nat) /\ Len(sent) = Len(calls) /\ made = Total(sent)
      /\ calls' = Append(calls, new) /\ \A i \in DOMAIN calls : calls[i].cost = sent[i]
  BY DEF ChargedInv, C, new
<1>2. /\ calls' \in Seq(C) /\ Len(calls') = Len(calls) + 1 /\ calls'[Len(calls) + 1] = new
      /\ Len(calls) \in Nat /\ DOMAIN calls = 1 .. Len(calls) /\ DOMAIN calls' = 1 .. Len(calls) + 1
      /\ \A i \in 1 .. Len(calls) : calls'[i] = calls[i]
  <2>1. /\ Append(calls, new) \in Seq(C) /\ Len(Append(calls, new)) = Len(calls) + 1
        /\ Append(calls, new)[Len(calls) + 1] = new /\ Len(calls) \in Nat
        /\ \A i \in 1 .. Len(calls) : Append(calls, new)[i] = calls[i]
    BY <1>0, <1>1, AppendProperties, LenProperties
  <2>2. DOMAIN calls = 1 .. Len(calls)
    BY <1>1, LenProperties
  <2>3. DOMAIN Append(calls, new) = 1 .. Len(Append(calls, new))
    BY <2>1, LenProperties
  <2> QED BY <1>1, <2>1, <2>2, <2>3
<1>3. /\ sent' \in Seq(Nat) /\ Len(sent') = Len(sent) + 1 /\ sent'[Len(sent) + 1] = v
      /\ \A i \in 1 .. Len(sent) : sent'[i] = sent[i]
  BY <1>1, AppendProperties, LenProperties
<1>4. Total(sent') = Total(sent) + v /\ Total(sent) \in Nat
  BY <1>1, TotalAppend
<1>5. \A i \in DOMAIN calls' : calls'[i].cost = sent'[i]
  <2> SUFFICES ASSUME NEW i \in 1 .. Len(calls) + 1 PROVE calls'[i].cost = sent'[i]
    BY <1>2
  <2>1. CASE i = Len(calls) + 1
    BY <1>0, <1>1, <1>2, <1>3, <2>1
  <2>2. CASE i \in 1 .. Len(calls)
    BY <1>1, <1>2, <1>3, <2>2
  <2>3. i = Len(calls) + 1 \/ i \in 1 .. Len(calls)
    <3>1. Len(calls) \in Nat
      BY <1>2
    <3> QED BY <3>1
  <2> QED BY <2>1, <2>2, <2>3
<1>6. made' \in Nat /\ made' = Total(sent') /\ Len(sent') = Len(calls')
  BY <1>1, <1>2, <1>3, <1>4
<1> QED BY <1>2, <1>3, <1>5, <1>6 DEF ChargedInv, C

\* A page charged to the listing that reads it.
LEMMA PageCharged ==
  ASSUME ChargedInv, NEW i \in DOMAIN calls, NEW v \in Nat, NEW p \in 0 .. LastPage,
         calls' = [[calls EXCEPT ![i].cost = @ + v] EXCEPT ![i].page = p],
         sent' = [sent EXCEPT ![i] = @ + v], made' = made + v
  PROVE  ChargedInv'
<1> DEFINE C == [cost : Nat, page : 0 .. LastPage]
<1>1. /\ calls \in Seq(C) /\ sent \in Seq(Nat) /\ Len(sent) = Len(calls) /\ made = Total(sent)
      /\ \A j \in DOMAIN calls : calls[j].cost = sent[j]
  BY DEF ChargedInv
<1>2. /\ Len(calls) \in Nat /\ DOMAIN calls = 1 .. Len(calls) /\ DOMAIN sent = DOMAIN calls
      /\ \A j \in DOMAIN calls : calls[j] \in C
  <2> HIDE DEF C
  <2> QED BY <1>1, LenProperties, ElementOfSeq
<1>3. \A j \in DOMAIN calls : sent[j] \in Nat
  BY <1>1, <1>2, ElementOfSeq
<1>4. /\ DOMAIN calls' = DOMAIN calls /\ \A j \in DOMAIN calls : j # i => calls'[j] = calls[j]
      /\ calls'[i] \in C /\ calls'[i].cost = calls[i].cost + v
  <2>1. PICK a \in Nat, b \in 0 .. LastPage : calls[i] = [cost |-> a, page |-> b]
    BY <1>2
  <2>2. calls'[i] = [cost |-> a + v, page |-> p]
    <3> DEFINE charged == [calls EXCEPT ![i].cost = @ + v]
    <3>1. charged[i] = [cost |-> a + v, page |-> b] /\ i \in DOMAIN charged
      BY <2>1
    <3>2. calls' = [charged EXCEPT ![i].page = p]
      OBVIOUS
    <3> HIDE DEF charged
    <3>3. calls'[i] = [charged[i] EXCEPT !.page = p]
      BY <3>1, <3>2
    <3> QED BY <3>1, <3>3
  <2>3. DOMAIN calls' = DOMAIN calls /\ \A j \in DOMAIN calls : j # i => calls'[j] = calls[j]
    OBVIOUS
  <2> QED BY <2>1, <2>2, <2>3
<1>5. /\ DOMAIN sent' = DOMAIN sent /\ sent'[i] = sent[i] + v
      /\ \A j \in DOMAIN sent : j # i => sent'[j] = sent[j]
  BY <1>2
<1>6. calls' \in Seq(C) /\ Len(calls') = Len(calls)
  <2>1. calls' \in [1 .. Len(calls) -> C]
    <3>1. \A j \in 1 .. Len(calls) : calls'[j] \in C
      BY <1>2, <1>4
    <3>2. calls' = [j \in 1 .. Len(calls) |-> calls'[j]]
      BY <1>2
    <3> HIDE DEF C
    <3> QED BY <3>1, <3>2
  <2>2. Len(calls) \in Nat
    BY <1>2
  <2> HIDE DEF C
  <2>3. ASSUME NEW t \in [1 .. Len(calls) -> C] PROVE t \in Seq(C) /\ Len(t) = Len(calls)
    BY <2>2, SeqFrom
  <2> QED BY <2>1, <2>3
<1>7. sent' \in Seq(Nat) /\ Len(sent') = Len(calls)
  <2>1. sent' \in [1 .. Len(calls) -> Nat]
    <3>1. \A j \in 1 .. Len(calls) : sent'[j] \in Nat
      BY <1>2, <1>3, <1>5
    <3>2. sent' = [j \in 1 .. Len(calls) |-> sent'[j]]
      BY <1>2
    <3> QED BY <3>1, <3>2
  <2>2. Len(calls) \in Nat
    BY <1>2
  <2>3. ASSUME NEW t \in [1 .. Len(calls) -> Nat] PROVE t \in Seq(Nat) /\ Len(t) = Len(calls)
    BY <2>2, SeqFrom
  <2> QED BY <2>1, <2>3
<1>8. Total(sent') = Total(sent) + v /\ Total(sent) \in Nat
  <2>1. i \in DOMAIN sent
    BY <1>2
  <2>2. Total(sent) \in Nat
    BY <1>1, TotalAppend
  <2> QED BY <1>1, <2>1, <2>2, TotalGrows
<1>9. \A j \in DOMAIN calls' : calls'[j].cost = sent'[j]
  BY <1>1, <1>2, <1>4, <1>5
<1>10. made' \in Nat /\ made' = Total(sent')
  BY <1>1, <1>8
<1> QED BY <1>1, <1>6, <1>7, <1>9, <1>10 DEF ChargedInv

-----------------------------------------------------------------------------
(* The steps.                                                               *)

RequestsInv == PlantedInv /\ ChargedInv

\* It holds of a new gateway;
LEMMA RequestsStart ==
  ASSUME RequestsInit
  PROVE  RequestsInv
<1>1. /\ failures = <<>> /\ block = Null /\ paged = [p \in 1 .. LastPage |-> <<>>]
      /\ crash = [k \in CrashKinds |-> Null] /\ planted = <<>> /\ raised = <<>> /\ overlooked = FALSE
      /\ calls = <<>> /\ sent = <<>> /\ made = 0
  BY DEF RequestsInit
<1>2. RequestTypes
  BY <1>1 DEF RequestTypes
<1>3. Places(planted, raised, failures, block, paged, crash)
  BY <1>1 DEF Places, Waiting
<1>4. AllWait(planted, raised, Standing(failures, block, paged, crash)) /\ WithinTimes(planted, raised)
      /\ InTurn(planted, raised, failures)
  BY <1>1 DEF AllWait, WithinTimes, InTurn
<1>5. PlantedInv
  BY <1>1, <1>2, <1>3, <1>4 DEF PlantedInv
<1>6. Total(<<>>) = 0
  <2> DEFINE e == <<>>
  <2>1. e \in Seq(Nat) /\ DOMAIN e = {}
    OBVIOUS
  <2> HIDE DEF e
  <2>2. PICK f : Sums(f, e) /\ Total(e) = f[DOMAIN e]
    BY <2>1, Totals
  <2>3. Total(e) = 0
    BY <2>1, <2>2 DEF Sums
  <2> QED BY <2>3 DEF e
<1>7. ChargedInv
  BY <1>1, <1>6 DEF ChargedInv
<1> QED BY <1>5, <1>7 DEF RequestsInv

\* opening a listing charges nothing,
LEMMA OpenStep ==
  ASSUME RequestsInv, Open
  PROVE  RequestsInv'
<1>1. PlantedInv'
  BY DEF RequestsInv, PlantedInv, RequestTypes, Open
<1>2. ChargedInv'
  <2>1. /\ calls' = Append(calls, [cost |-> 0, page |-> 1]) /\ sent' = Append(sent, 0) /\ made' = made + 0
        /\ 1 \in 0 .. LastPage /\ ChargedInv
    BY RequestsAssumption DEF Open, RequestsInv, ChargedInv
  <2> QED BY <2>1, CallAdded
<1> QED BY <1>1, <1>2 DEF RequestsInv

\* a call of one request is charged what it sent,
LEMMA AskStep ==
  ASSUME RequestsInv, NEW named \in BOOLEAN, Ask(named)
  PROVE  RequestsInv'
<1>1. PlantedInv' /\ made' \in {made, made + 1}
  <2>1. /\ PlantedInv /\ Operation({"request"}, named, 0)
        /\ {"request"} \in SUBSET CrashKinds /\ 0 \in 0 .. LastPage
    BY RequestsAssumption DEF RequestsInv, Ask, CrashKinds
  <2> QED BY <2>1, OperationStep
<1>2. ChargedInv'
  <2>1. made' - made \in Nat /\ made' = made + (made' - made) /\ 0 \in 0 .. LastPage /\ ChargedInv
    BY <1>1, RequestsAssumption DEF RequestsInv, ChargedInv
  <2>2. /\ calls' = Append(calls, [cost |-> made' - made, page |-> 0])
        /\ sent' = Append(sent, made' - made)
    BY DEF Ask
  <2> QED BY <2>1, <2>2, CallAdded
<1> QED BY <1>1, <1>2 DEF RequestsInv

\* and a page is charged to its listing:
LEMMA ReadPageStep ==
  ASSUME RequestsInv, NEW i \in 1 .. MaxCalls, ReadPage(i)
  PROVE  RequestsInv'
<1>0. i \in DOMAIN calls /\ calls[i].page \in 0 .. LastPage /\ ChargedInv /\ PlantedInv
  <2>1. i \in DOMAIN calls /\ ChargedInv /\ PlantedInv
    BY DEF ReadPage, RequestsInv
  <2>2. calls[i] \in [cost : Nat, page : 0 .. LastPage]
    <3> DEFINE C == [cost : Nat, page : 0 .. LastPage]
    <3>1. calls \in Seq(C) /\ i \in 1 .. Len(calls)
      BY <2>1, LenProperties DEF ChargedInv
    <3> HIDE DEF C
    <3>2. calls[i] \in C
      BY <3>1, ElementOfSeq
    <3> QED BY <3>2 DEF C
  <2> QED BY <2>1, <2>2
<1>1. PlantedInv' /\ made' \in {made, made + 1}
  <2>1. Operation(CrashKinds, TRUE, calls[i].page) /\ CrashKinds \in SUBSET CrashKinds
    BY DEF ReadPage
  <2> QED BY <1>0, <2>1, OperationStep
<1>2. ChargedInv'
  <2> DEFINE next == IF completed'["page"] # completed["page"] /\ calls[i].page < LastPage
                     THEN calls[i].page + 1 ELSE 0
  <2>1. made' - made \in Nat /\ made' = made + (made' - made)
    BY <1>0, <1>1 DEF ChargedInv
  <2>2. /\ calls' = [[calls EXCEPT ![i].cost = @ + (made' - made)] EXCEPT ![i].page = next]
        /\ sent' = [sent EXCEPT ![i] = @ + (made' - made)]
    BY DEF ReadPage, Reading
  <2>3. next \in 0 .. LastPage
    BY <1>0, RequestsAssumption
  <2> HIDE DEF next
  <2> QED BY <1>0, <2>1, <2>2, <2>3, PageCharged
<1> QED BY <1>1, <1>2 DEF RequestsInv

\* Planting charges nothing.
LEMMA PlantsCharge ==
  ASSUME ChargedInv, UNCHANGED <<calls, sent, made>>
  PROVE  ChargedInv'
BY DEF ChargedInv

\* every step keeps it.
LEMMA RequestsStep ==
  ASSUME RequestsInv, Planting \/ Requesting \/ UNCHANGED requestVars
  PROVE  RequestsInv'
<1>0. PlantedInv /\ ChargedInv
  BY DEF RequestsInv
<1>1. ASSUME NEW t \in Times, FailNext(t) PROVE RequestsInv'
  <2>1. PlantedInv'
    BY <1>0, <1>1, FailNextStep
  <2>2. UNCHANGED <<calls, sent, made>>
    BY <1>1 DEF FailNext, Plants
  <2> QED BY <1>0, <2>1, <2>2, PlantsCharge DEF RequestsInv
<1>2. ASSUME NEW t \in Times, SetHtml403(t) PROVE RequestsInv'
  <2>1. PlantedInv'
    BY <1>0, <1>2, SetHtml403Step
  <2>2. UNCHANGED <<calls, sent, made>>
    BY <1>2 DEF SetHtml403, Plants
  <2> QED BY <1>0, <2>1, <2>2, PlantsCharge DEF RequestsInv
<1>3. ASSUME NEW t \in Times, NEW p \in 1 .. LastPage, FailPage(p, t) PROVE RequestsInv'
  <2>1. PlantedInv'
    BY <1>0, <1>3, FailPageStep
  <2>2. UNCHANGED <<calls, sent, made>>
    BY <1>3 DEF FailPage, Plants
  <2> QED BY <1>0, <2>1, <2>2, PlantsCharge DEF RequestsInv
<1>4. ASSUME NEW k \in CrashKinds, NEW n \in CrashPoints, CrashAfter(k, n) PROVE RequestsInv'
  <2>1. PlantedInv'
    BY <1>0, <1>4, CrashAfterStep
  <2>2. UNCHANGED <<calls, sent, made>>
    BY <1>4 DEF CrashAfter, Plants
  <2> QED BY <1>0, <2>1, <2>2, PlantsCharge DEF RequestsInv
<1>5. CASE UNCHANGED requestVars
  <2>1. PlantedInv'
    BY <1>0, <1>5 DEF PlantedInv, RequestTypes, requestVars
  <2>2. ChargedInv'
    BY <1>0, <1>5, PlantsCharge DEF requestVars
  <2> QED BY <2>1, <2>2 DEF RequestsInv
<1> QED BY <1>1, <1>2, <1>3, <1>4, <1>5, OpenStep, AskStep, ReadPageStep DEF Planting, Requesting

-----------------------------------------------------------------------------
(* What they mean.                                                          *)

\* Nothing that had its turn was passed over.
LEMMA RaisedRight ==
  ASSUME PlantedInv
  PROVE  RaisedAsPlanted
<1>1. \A l : Fired(l) = FiredIn(raised, l)
  BY DEF Fired, FiredIn
<1>2. \A l \in DOMAIN planted : planted[l].times # Null => Fired(l) <= planted[l].times
  BY <1>1 DEF PlantedInv, WithinTimes
<1>3. \A i, j \in {n \in DOMAIN raised : planted[raised[n]].where = At("next", 0)} :
        i < j => raised[i] <= raised[j]
  BY DEF PlantedInv, InTurn
<1> QED BY <1>2, <1>3 DEF PlantedInv, RaisedAsPlanted

\* What a queue has left is what it never raised.
LEMMA LeftIs ==
  ASSUME NEW r \in Seq(Nat), NEW plan, NEW w, NEW f, Placed(f, w, plan, r)
  PROVE  Unconsumed(f) <=> (plan[f.label].times # 0 /\ FiredIn(r, f.label) = 0)
<1>1. f.label \in Nat /\ f.times \in Nat \cup {Null} /\ FiredIn(r, f.label) \in Nat /\ Null \notin Nat
  <2>1. f.label \in Nat /\ f.times \in Nat \cup {Null}
    BY DEF Placed, Failures
  <2> QED BY <2>1, FiredIs, RequestsAssumption
<1>2. f.fired <=> FiredIn(r, f.label) # 0
  BY <1>1 DEF Placed
<1>3. CASE f.times = Null
  BY <1>1, <1>2, <1>3 DEF Placed, Unconsumed, Armed
<1>4. CASE f.times # Null
  <2>1. plan[f.label].times = f.times + FiredIn(r, f.label)
    BY <1>4 DEF Placed
  <2> QED BY <1>1, <1>2, <1>4, <2>1 DEF Unconsumed, Armed
<1> QED BY <1>3, <1>4

\* What still waits and never fired is what teardown names.
LEMMA TeardownRight ==
  ASSUME PlantedInv
  PROVE  TeardownIsHonest
<1> DEFINE St == Standing(failures, block, paged, crash)
           Never(l) == planted[l].times # 0 /\ FiredIn(raised, l) = 0
           one == IF block = Null THEN <<>> ELSE <<block>>
<1>1. /\ Places(planted, raised, failures, block, paged, crash) /\ raised \in Seq(Nat)
      /\ AllWait(planted, raised, St) /\ \A l : Fired(l) = FiredIn(raised, l)
      /\ DOMAIN planted \subseteq Nat
  BY LenProperties DEF PlantedInv, RequestTypes, Fired, FiredIn
<1>2. ASSUME NEW q, NEW w, Waiting(q, w, planted, raised)
      PROVE  Leftover(q) = {l \in Labels(q) : Never(l)}
  <2>1. \A i \in DOMAIN q : Unconsumed(q[i]) <=> Never(q[i].label)
    BY <1>1, <1>2, LeftIs DEF Waiting
  <2> QED BY <2>1 DEF Labels, Leftover
<1>3. Leftover(one) = {l \in Nat : block # Null /\ l = block.label /\ Never(l)}
  <2>1. CASE block = Null
    BY <2>1 DEF Leftover
  <2>2. CASE block # Null
    <3>1. Placed(block, At("block", 0), planted, raised) /\ block.label \in Nat
      BY <1>1, <2>2 DEF Places, Placed, Failures
    <3>2. Unconsumed(block) <=> Never(block.label)
      BY <1>1, <3>1, LeftIs
    <3>3. one = <<block>> /\ DOMAIN one = {1} /\ one[1] = block
      BY <2>2
    <3> HIDE DEF one, Never
    <3> QED BY <2>2, <3>1, <3>2, <3>3 DEF Leftover
  <2> QED BY <2>1, <2>2
<1>4. \A k \in CrashKinds : crash[k] # Null => crash[k].label \in Nat /\ Never(crash[k].label)
  BY <1>1 DEF Places, CrashWaits, Crashes
<1>5. Leftover(failures) = {l \in Labels(failures) : Never(l)}
  BY <1>1, <1>2 DEF Places
<1>6. \A p \in 1 .. LastPage : Leftover(paged[p]) = {l \in Labels(paged[p]) : Never(l)}
  BY <1>1, <1>2 DEF Places
<1>7. \A l \in Labels(failures) : l \in Nat
  BY <1>1, LabelsAre DEF Places
<1>8. \A p \in 1 .. LastPage : \A l \in Labels(paged[p]) : l \in Nat
  <2> SUFFICES ASSUME NEW p \in 1 .. LastPage, NEW l \in Labels(paged[p]) PROVE l \in Nat
    OBVIOUS
  <2>1. Waiting(paged[p], At("page", p), planted, raised)
    BY <1>1 DEF Places
  <2> QED BY <2>1, LabelsAre
<1> HIDE DEF Never, one
<1>10. \A l : l \in Pending <=> (l \in St /\ Never(l))
  <2> SUFFICES ASSUME NEW l PROVE l \in Pending <=> (l \in St /\ Never(l))
    OBVIOUS
  <2>1. l \in Leftover(failures) <=> l \in Nat /\ l \in Labels(failures) /\ Never(l)
    BY <1>5, <1>7
  <2>2. l \in Leftover(one) <=> l \in Nat /\ block # Null /\ l = block.label /\ Never(l)
    BY <1>3
  <2>3. l \in UNION {Leftover(paged[p]) : p \in 1 .. LastPage} <=>
          l \in Nat /\ (\E p \in 1 .. LastPage : l \in Labels(paged[p])) /\ Never(l)
    BY <1>6, <1>8
  <2>4. l \in {crash[k].label : k \in {j \in CrashKinds : crash[j] # Null}} <=>
          l \in Nat /\ (\E k \in CrashKinds : crash[k] # Null /\ l = crash[k].label) /\ Never(l)
    BY <1>4
  <2>5. l \in St <=> l \in Nat /\ (\/ l \in Labels(failures)
                                   \/ \E p \in 1 .. LastPage : l \in Labels(paged[p])
                                   \/ block # Null /\ l = block.label
                                   \/ \E k \in CrashKinds : crash[k] # Null /\ l = crash[k].label)
    BY DEF Standing
  <2>6. l \in Pending <=> \/ l \in Leftover(failures) \/ l \in Leftover(one)
                           \/ l \in UNION {Leftover(paged[p]) : p \in 1 .. LastPage}
                           \/ l \in {crash[k].label : k \in {j \in CrashKinds : crash[j] # Null}}
    BY DEF Pending, one
  <2> HIDE DEF St
  <2> QED BY <2>1, <2>2, <2>3, <2>4, <2>5, <2>6, Zenon
<1>11. \A l \in St : l \in DOMAIN planted /\ ~planted[l].off
  <2> HIDE DEF St
  <2> SUFFICES ASSUME NEW l \in St PROVE l \in DOMAIN planted /\ ~planted[l].off
    OBVIOUS
  <2> QED BY <1>1, StandsWhere DEF St
<1>12. \A l \in DOMAIN planted : ~planted[l].off /\ Never(l) => l \in St
  BY <1>1 DEF AllWait, Spent, Never
<1> HIDE DEF St
<1>13. \A l \in DOMAIN planted : Never(l) <=> planted[l].times # 0 /\ Fired(l) = 0
  BY <1>1 DEF Never
<1>14. \A l : l \in Pending <=> l \in {m \in DOMAIN planted : ~planted[m].off /\ planted[m].times # 0 /\ Fired(m) = 0}
  BY <1>10, <1>11, <1>12, <1>13
<1> QED BY <1>14 DEF TeardownIsHonest

\* Every request of the fake is charged once, to the call that sent it; failures are raised as
\* planted, in their turn and no more often; and teardown names those a scenario never reached
\* (recording.py, injection.py), for any numbers of pages, calls, failures and times.
THEOREM FakeFails == RequestsSpec => []ScenariosAreMet
<1>1. RequestsInit => RequestsInv
  BY RequestsStart
<1>2. RequestsInv /\ [RequestsNext]_<<requestVars, banned>> => RequestsInv'
  BY RequestsStep DEF RequestsNext, SetStatus
<1>3. RequestsInv => ScenariosAreMet
  BY ChargesAre, RaisedRight, TeardownRight DEF RequestsInv, ScenariosAreMet
<1> QED BY <1>1, <1>2, <1>3, PTL DEF RequestsSpec

\* The two together: a scenario can rely on the fake, whatever it does to items before, between
\* and within the requests it makes.
THEOREM FakeReliable == FakeSpec => []FakeIsReliable
<1>1. FakeInit => WorldInv /\ RequestsInv
  BY WorldStart, RequestsStart DEF FakeInit
<1>2. WorldInv /\ RequestsInv /\ [FakeNext]_<<worldVars, requestVars>> => (WorldInv /\ RequestsInv)'
  <2> SUFFICES ASSUME WorldInv, RequestsInv, [FakeNext]_<<worldVars, requestVars>>
               PROVE  (WorldInv /\ RequestsInv)'
    OBVIOUS
  <2>1. [WorldNext]_worldVars /\ (Planting \/ Requesting \/ UNCHANGED requestVars)
    BY DEF FakeNext, WorldNext, Shown, Requesting
  <2> QED BY <2>1, WorldStep, RequestsStep
<1>3. WorldInv /\ RequestsInv => FakeIsReliable
  BY ChargesAre, RaisedRight, TeardownRight
     DEF WorldInv, RequestsInv, FakeIsReliable, ScenariosAreMet
<1> QED BY <1>1, <1>2, <1>3, PTL DEF FakeSpec
=============================================================================
