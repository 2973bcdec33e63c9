-------------------------- MODULE RosserialFrameProofs --------------------------
(***************************************************************************)
(* What the operators of RosserialFrame compute, for all payloads, words   *)
(* and bytes: the recursive sum over the bytes of a body, the two tests,   *)
(* the vector handed to async_write, and the layout of a frame.  Before    *)
(* them, the facts about numbers, recursion and sequences that the proofs  *)
(* of all modules rest on.                                                 *)
(***************************************************************************)
EXTENDS RosserialFrame, SequencesExt, WellFoundedInduction, TLAPS

----------------------------------------------------------------------------
\* Induction over the natural numbers, and recursion
\* The library states induction for a predicate given as an operator, which the provers
\* cannot instantiate.  Here it is over a set, {i \in Nat : what holds of i}.

NatLessThan == {ss \in Nat \X Nat : ss[1] < ss[2]}

\* There is no infinite descent in the natural numbers.
LEMMA NatLessThanDescends == IsWellFoundedOn(NatLessThan, Nat)
  BY NatLessThanWellFounded DEF OpToRel, NatLessThan

\* A set of natural numbers that is not empty has a least element.
LEMMA LeastElement ==
  ASSUME NEW T \in SUBSET Nat, T # {}
  PROVE  \E m \in T : \A k \in T : m <= k
<1>1. PICK m \in T : \A k \in T : <<k, m>> \notin NatLessThan
  BY NatLessThanDescends, WFMin, Zenon
<1>2. \A k \in T : <<k, m>> \in Nat \X Nat
  OBVIOUS
<1>3. \A k \in T : ~(k < m)
  BY <1>1, <1>2 DEF NatLessThan
<1> QED
  BY <1>3

\* A set of numbers none of which exceeds n has a greatest element, if any.
LEMMA GreatestElement ==
  ASSUME NEW n \in Nat, NEW T \in SUBSET (0..n), T # {}
  PROVE  \E m \in T : \A k \in T : k <= m
<1> DEFINE Below == {i \in 0..n : n - i \in T}
<1>1. PICK x \in T : TRUE
  OBVIOUS
<1>2. n - x \in 0..n /\ n - (n - x) = x
  OBVIOUS
<1>3. Below \in SUBSET Nat
  BY \A i \in 0..n : i \in Nat
<1>4. Below # {}
  <2>1. n - x \in Below
    <3>1. n - x \in 0..n /\ n - (n - x) \in T
      BY <1>1, <1>2
    <3> QED
      BY <3>1
  <2> QED
    BY <2>1
<1>5. PICK m \in Below : \A k \in Below : m <= k
  BY <1>3, <1>4, LeastElement
<1>6. ASSUME NEW k \in T
      PROVE  k <= n - m
  <2>1. k \in 0..n /\ n - k \in 0..n /\ n - (n - k) = k
    OBVIOUS
  <2>2. n - k \in Below /\ m \in 0..n
    BY <2>1
  <2>3. m <= n - k
    BY <1>5, <2>2
  <2> HIDE DEF Below
  <2> QED
    BY <2>1, <2>2, <2>3
<1> QED
  BY <1>5, <1>6

\* What holds of 0, and of each number up to n if it holds of the one before, holds of
\* all numbers up to n.
THEOREM InductionUpTo ==
  ASSUME NEW n \in Nat, NEW G, 0 \in G, \A i \in 1..n : i - 1 \in G => i \in G
  PROVE  0..n \subseteq G
<1> DEFINE Wrong == {i \in 0..n : i \notin G}
<1> SUFFICES ASSUME Wrong # {} PROVE FALSE
  OBVIOUS
<1>1. PICK m \in Wrong : \A k \in Wrong : m <= k
  <2>1. Wrong \in SUBSET Nat
    OBVIOUS
  <2> QED
    BY <2>1, LeastElement
<1>2. m \in 1..n /\ m - 1 \in 0..n
  OBVIOUS
<1>3. m - 1 \notin Wrong
  BY <1>1, <1>2
<1> QED
  BY <1>2, <1>3

\* What holds beyond n, and of each number of which it holds from the next on, holds of
\* all numbers.
THEOREM InductionFromEnd ==
  ASSUME NEW n \in Nat, NEW G, \A i \in Nat : i > n => i \in G,
         \A i \in Nat : (\A j \in Nat : j > i => j \in G) => i \in G
  PROVE  Nat \subseteq G
<1> DEFINE Wrong == {i \in 0..n : i \notin G}
<1>1. \A i \in Nat : i \notin G => i \in Wrong
  OBVIOUS
<1> SUFFICES ASSUME Wrong # {} PROVE FALSE
  BY <1>1
<1>2. PICK m \in Wrong : \A k \in Wrong : k <= m
  <2>1. Wrong \in SUBSET Nat /\ \A k \in Wrong : k <= n
    OBVIOUS
  <2> QED
    BY <2>1, GreatestElement
<1>3. m \in Nat /\ m \notin G
  OBVIOUS
<1>4. \A j \in Nat : j > m => j \in G
  BY <1>1, <1>2, <1>3
<1> QED
  BY <1>3, <1>4

\* What holds of every element if it holds of those of lower rank holds of all.
THEOREM RankInduction ==
  ASSUME NEW S, NEW rank \in [S -> Nat], NEW T,
         \A x \in S : (\A y \in S : rank[y] < rank[x] => y \in T) => x \in T
  PROVE  S \subseteq T
<1> DEFINE Wrong == {x \in S : x \notin T}
           Ranks == {rank[x] : x \in Wrong}
<1> SUFFICES ASSUME Wrong # {} PROVE FALSE
  OBVIOUS
<1>1. Ranks \in SUBSET Nat /\ Ranks # {}
  OBVIOUS
<1>2. PICK n \in Ranks : \A k \in Ranks : n <= k
  <2> HIDE DEF Ranks
  <2> QED
    BY <1>1, LeastElement
<1>3. PICK x \in Wrong : n = rank[x]
  OBVIOUS
<1>4. ASSUME NEW y \in S, rank[y] < rank[x]
      PROVE  y \in T
  <2> SUFFICES ASSUME y \notin T PROVE FALSE
    OBVIOUS
  <2>1. rank[y] \in Ranks /\ rank[y] \in Nat /\ rank[x] \in Nat
    OBVIOUS
  <2>2. n <= rank[y]
    BY <1>2, <2>1
  <2> HIDE DEF Ranks, Wrong
  <2> QED
    BY <1>3, <1>4, <2>1, <2>2
<1> QED
  BY <1>3, <1>4

\* A recursion whose value at x depends only on those of lower rank, as a function from
\* a try at the whole function to the next.
Descends(S, rank, V, F) ==
  /\ rank \in [S -> Nat]
  /\ V # {}
  /\ F \in [[S -> V] -> [S -> V]]
  /\ \A f, g \in [S -> V] : \A x \in S :
       (\A y \in S : rank[y] < rank[x] => f[y] = g[y]) => F[f][x] = F[g][x]

Solution(S, V, F) == CHOOSE f \in [S -> V] : f = F[f]

\* Such a recursion has a solution.
THEOREM RecursionSolved ==
  ASSUME NEW S, NEW rank, NEW V, NEW F, Descends(S, rank, V, F)
  PROVE  Solution(S, V, F) \in [S -> V] /\ Solution(S, V, F) = F[Solution(S, V, F)]
<1> DEFINE Solves(f, n) == f \in [S -> V] /\ \A x \in S : rank[x] < n => f[x] = F[f][x]
           Good == {n \in Nat : \E f : Solves(f, n)}
<1>0. /\ rank \in [S -> Nat] /\ V # {} /\ F \in [[S -> V] -> [S -> V]]
      /\ \A f, g \in [S -> V] : \A x \in S :
           (\A y \in S : rank[y] < rank[x] => f[y] = g[y]) => F[f][x] = F[g][x]
  BY DEF Descends
<1> USE <1>0
<1>1. 0 \in Good
  <2>1. PICK v \in V : TRUE
    OBVIOUS
  <2> DEFINE f == [x \in S |-> v]
  <2>2. f \in [S -> V]
    OBVIOUS
  <2>3. \A x \in S : ~(rank[x] < 0)
    OBVIOUS
  <2>4. Solves(f, 0)
    BY <2>2, <2>3
  <2> HIDE DEF f
  <2> QED
    BY <2>4
<1>2. ASSUME NEW n \in Nat, n \in Good
      PROVE  n + 1 \in Good
  <2>1. PICK f : Solves(f, n)
    BY <1>2
  <2>2. PICK g : g = F[f]
    OBVIOUS
  <2>3. g \in [S -> V]
    BY <2>1, <2>2
  <2>4. ASSUME NEW x \in S, rank[x] < n + 1
        PROVE  g[x] = F[g][x]
    <3>1. ASSUME NEW y \in S, rank[y] < rank[x]
          PROVE  f[y] = g[y]
      <4>1. rank[y] < n
        <5>1. rank[y] \in Nat /\ rank[x] \in Nat
          OBVIOUS
        <5> QED
          BY <2>4, <3>1, <5>1
      <4> QED
        BY <2>1, <2>2, <4>1
    <3>2. F[f][x] = F[g][x]
      BY <1>0, <2>1, <2>3, <3>1
    <3> QED
      BY <2>2, <3>2
  <2>5. Solves(g, n + 1)
    BY <2>3, <2>4
  <2> QED
    BY <2>5
<1> HIDE DEF Good
<1>3. \A n \in Nat : n \in Good
  <2>1. ASSUME NEW n \in Nat
        PROVE  0..n \subseteq Good
    <3>1. ASSUME NEW i \in 1..n, i - 1 \in Good
          PROVE  i \in Good
      <4>1. i - 1 \in Nat /\ (i - 1) + 1 = i
        OBVIOUS
      <4>2. (i - 1) + 1 \in Good
        BY <1>2, <3>1, <4>1
      <4> QED
        BY <4>1, <4>2
    <3> QED
      BY <1>1, <3>1, InductionUpTo
  <2>2. \A n \in Nat : n \in 0..n
    OBVIOUS
  <2> QED
    BY <2>1, <2>2
<1> DEFINE sol == [n \in Nat |-> CHOOSE f : Solves(f, n)]
<1>4. \A n \in Nat : Solves(sol[n], n)
  BY <1>3 DEF Good
<1> HIDE DEF sol
<1>5. ASSUME NEW n \in Nat, NEW m \in Nat
      PROVE  \A x \in S : rank[x] < n /\ rank[x] < m => sol[n][x] = sol[m][x]
  <2> DEFINE T == {x \in S : rank[x] < n /\ rank[x] < m => sol[n][x] = sol[m][x]}
  <2>1. ASSUME NEW x \in S, \A y \in S : rank[y] < rank[x] => y \in T
        PROVE  x \in T
    <3> SUFFICES ASSUME rank[x] < n, rank[x] < m PROVE sol[n][x] = sol[m][x]
      OBVIOUS
    <3>1. ASSUME NEW y \in S, rank[y] < rank[x]
          PROVE  sol[n][y] = sol[m][y]
      <4>1. rank[y] < n /\ rank[y] < m
        <5>1. rank[y] \in Nat /\ rank[x] \in Nat
          OBVIOUS
        <5> QED
          BY <3>1, <5>1
      <4> QED
        BY <2>1, <3>1, <4>1
    <3>2. Solves(sol[n], n) /\ Solves(sol[m], m)
      BY <1>4
    <3>3. F[sol[n]][x] = F[sol[m]][x]
      BY <1>0, <3>1, <3>2
    <3> QED
      BY <3>2, <3>3
  <2> HIDE DEF T
  <2>2. S \subseteq T
    BY <2>1, RankInduction
  <2> QED
    BY <2>2 DEF T
<1> DEFINE h == [x \in S |-> sol[rank[x] + 1][x]]
<1>6. h \in [S -> V]
  <2> SUFFICES ASSUME NEW x \in S PROVE sol[rank[x] + 1][x] \in V
    OBVIOUS
  <2>1. rank[x] + 1 \in Nat
    OBVIOUS
  <2> QED
    BY <1>4, <2>1
<1>7. ASSUME NEW x \in S
      PROVE  h[x] = F[h][x]
  <2>1. PICK n : n = rank[x] + 1
    OBVIOUS
  <2>2. n \in Nat /\ rank[x] \in Nat /\ rank[x] < n
    BY <2>1
  <2>3. ASSUME NEW y \in S, rank[y] < rank[x]
        PROVE  h[y] = sol[n][y]
    <3>1. rank[y] \in Nat /\ rank[y] + 1 \in Nat /\ rank[y] < rank[y] + 1 /\ rank[y] < n
      BY <2>1, <2>3
    <3>2. sol[rank[y] + 1][y] = sol[n][y]
      BY <1>5, <2>2, <3>1
    <3> QED
      BY <3>2
  <2>4. Solves(sol[n], n)
    BY <1>4, <2>2
  <2>5. F[h][x] = F[sol[n]][x]
    <3> HIDE DEF h
    <3> QED
      BY <1>0, <1>6, <2>3, <2>4
  <2>6. h[x] = sol[n][x]
    BY <2>1
  <2> QED
    BY <2>2, <2>4, <2>5, <2>6
<1>8. h = F[h]
  <2>1. F[h] \in [S -> V]
    <3> HIDE DEF h
    <3> QED
      BY <1>6
  <2> QED
    BY <1>6, <1>7, <2>1
<1>9. \E f \in [S -> V] : f = F[f]
  <2> HIDE DEF h
  <2> QED
    BY <1>6, <1>8
<1> QED
  BY <1>9 DEF Solution

----------------------------------------------------------------------------
\* Sequences and what FlattenSeq makes of them

\* A function on 1..n is a sequence of length n.
LEMMA FunctionIsSeq ==
  ASSUME NEW S, NEW n \in Nat, NEW f, f = [k \in 1..n |-> f[k]], \A k \in 1..n : f[k] \in S
  PROVE  f \in Seq(S) /\ Len(f) = n /\ DOMAIN f = 1..n
<1>1. f \in [1..n -> S]
  OBVIOUS
<1> QED
  BY <1>1

\* Sequences of the same length and elements are the same.
LEMMA SameElements ==
  ASSUME NEW S, NEW a \in Seq(S), NEW b \in Seq(S), Len(a) = Len(b),
         \A i \in 1..Len(a) : a[i] = b[i]
  PROVE  a = b
  OBVIOUS

\* Concatenation is associative.
LEMMA ConcatAssociative ==
  ASSUME NEW S, NEW a \in Seq(S), NEW b \in Seq(S), NEW c \in Seq(S)
  PROVE  a \o (b \o c) = (a \o b) \o c
  OBVIOUS

\* Concatenation element by element.
LEMMA ConcatElements ==
  ASSUME NEW S, NEW a \in Seq(S), NEW b \in Seq(S)
  PROVE  /\ a \o b \in Seq(S) /\ Len(a \o b) = Len(a) + Len(b)
         /\ \A i \in 1..Len(a) : (a \o b)[i] = a[i]
         /\ \A i \in 1..Len(b) : (a \o b)[Len(a) + i] = b[i]
  OBVIOUS

\* A sequence of length 0 is the empty sequence.
LEMMA EmptyIsEmpty ==
  ASSUME NEW S, NEW s \in Seq(S), Len(s) = 0
  PROVE  s = <<>>
  OBVIOUS

\* The partial concatenations of FlattenSeq.
IsFlat(flat, s) == flat = [i \in 1..Len(s) |-> IF i = 1 THEN s[i] ELSE flat[i - 1] \o s[i]]
\* The solution of their recursion.
Flat(s) == CHOOSE flat : IsFlat(flat, s)

\* FlattenSeq is the last of the partial concatenations.
LEMMA FlattenEndsFlat ==
  ASSUME NEW s
  PROVE  FlattenSeq(s) = IF Len(s) = 0 THEN s ELSE Flat(s)[Len(s)]
  BY DEF FlattenSeq, Flat, IsFlat

\* Each partial concatenation adds one sequence to that before it.
LEMMA FlatSteps ==
  ASSUME NEW S, NEW s \in Seq(Seq(S))
  PROVE  \A i \in 1..Len(s) :
           /\ Flat(s)[i] \in Seq(S)
           /\ Flat(s)[i] = IF i = 1 THEN s[i] ELSE Flat(s)[i - 1] \o s[i]
<1> DEFINE D == 1..Len(s)
           V == Seq(S)
           rank == [i \in D |-> i]
           step(f, i) == IF i = 1 THEN s[i] ELSE f[i - 1] \o s[i]
           F == [f \in [D -> V] |-> [i \in D |-> step(f, i)]]
<1>0. Len(s) \in Nat /\ \A i \in D : s[i] \in Seq(S) /\ i \in Nat
  OBVIOUS
<1>1. ASSUME NEW f, NEW i \in D, \A j \in D : j < i => f[j] \in V
      PROVE  step(f, i) \in V
  <2>1. CASE i = 1
    BY <1>0, <2>1
  <2>2. CASE i # 1
    <3>1. i - 1 \in D /\ i - 1 < i
      BY <1>0, <2>2
    <3>2. f[i - 1] \in Seq(S) /\ s[i] \in Seq(S)
      BY <1>0, <1>1, <3>1
    <3> QED
      BY <2>2, <3>2
  <2> QED
    BY <2>1, <2>2
<1>2. ASSUME NEW f, NEW g, NEW i \in D, \A j \in D : j < i => f[j] = g[j]
      PROVE  step(f, i) = step(g, i)
  <2>1. i # 1 => i - 1 \in D /\ i - 1 < i
    BY <1>0
  <2> QED
    BY <1>2, <2>1
<1>3. F \in [[D -> V] -> [D -> V]]
  <2> SUFFICES ASSUME NEW f \in [D -> V], NEW i \in D PROVE step(f, i) \in V
    OBVIOUS
  <2>1. \A j \in D : f[j] \in V
    OBVIOUS
  <2> HIDE DEF step, D, V
  <2> QED
    BY <1>1, <2>1
<1>4. rank \in [D -> Nat] /\ V # {}
  <2>1. <<>> \in V
    OBVIOUS
  <2> QED
    BY <2>1
<1>5. Descends(D, rank, V, F)
  <2>1. ASSUME NEW f \in [D -> V], NEW g \in [D -> V], NEW i \in D,
               \A j \in D : rank[j] < rank[i] => f[j] = g[j]
        PROVE  F[f][i] = F[g][i]
    <3>1. \A j \in D : j < i => f[j] = g[j]
      BY <2>1
    <3> HIDE DEF step, D, V
    <3> QED
      BY <1>2, <3>1
  <2> HIDE DEF step, D, V, F, rank
  <2> QED
    BY <1>3, <1>4, <2>1 DEF Descends
<1>6. \E f : IsFlat(f, s)
  <2>1. PICK f : f = Solution(D, V, F)
    OBVIOUS
  <2>2. f \in [D -> V] /\ f = F[f]
    <3> HIDE DEF F, D, V, rank
    <3> QED
      BY <1>5, <2>1, RecursionSolved
  <2>3. f = [i \in D |-> step(f, i)]
    <3> HIDE DEF step, D, V
    <3> QED
      BY <2>2
  <2> QED
    BY <2>3 DEF IsFlat
<1>7. IsFlat(Flat(s), s)
  BY <1>6 DEF Flat
<1>8. \A i \in D : Flat(s)[i] = step(Flat(s), i)
  BY <1>7 DEF IsFlat
<1> DEFINE T == {i \in D : Flat(s)[i] \in V}
<1>9. ASSUME NEW i \in D, \A j \in D : rank[j] < rank[i] => j \in T
      PROVE  i \in T
  <2>1. \A j \in D : j < i => Flat(s)[j] \in V
    BY <1>9
  <2>2. step(Flat(s), i) \in V
    <3> HIDE DEF step, D, V
    <3> QED
      BY <1>1, <2>1
  <2> HIDE DEF step, D, V
  <2> QED
    BY <1>8, <2>2
<1>10. D \subseteq T
  <2> HIDE DEF T, D, V, rank
  <2> QED
    BY <1>4, <1>9, RankInduction
<1> QED
  BY <1>8, <1>10

\* Sequences of elements of S flatten to a sequence of elements of S.
LEMMA FlattenType ==
  ASSUME NEW S, NEW s \in Seq(Seq(S))
  PROVE  FlattenSeq(s) \in Seq(S)
<1>1. CASE Len(s) = 0
  <2>1. s = <<>> /\ <<>> \in Seq(S)
    BY <1>1
  <2>2. FlattenSeq(s) = s
    BY <1>1, FlattenEndsFlat
  <2> QED
    BY <2>1, <2>2
<1>2. CASE Len(s) # 0
  <2>1. Len(s) \in 1..Len(s)
    BY <1>2
  <2> QED
    BY <1>2, <2>1, FlatSteps, FlattenEndsFlat
<1> QED
  BY <1>1, <1>2

\* No sequences flatten to no elements.
LEMMA FlattenEmpty == FlattenSeq(<<>>) = <<>>
<1>1. Len(<<>>) = 0
  OBVIOUS
<1> QED
  BY <1>1, FlattenEndsFlat

\* A single sequence flattens to itself.
LEMMA FlattenOne ==
  ASSUME NEW S, NEW x \in Seq(S)
  PROVE  FlattenSeq(<<x>>) = x
<1>1. PICK s : s = <<x>>
  OBVIOUS
<1>2. s \in Seq(Seq(S)) /\ Len(s) = 1 /\ s[1] = x /\ 1 \in 1..Len(s)
  BY <1>1
<1>3. Flat(s)[1] = s[1]
  BY <1>2, FlatSteps
<1>4. FlattenSeq(s) = Flat(s)[1]
  <2>1. Len(s) = 1
    BY <1>2
  <2>2. FlattenSeq(s) = IF Len(s) = 0 THEN s ELSE Flat(s)[Len(s)]
    BY FlattenEndsFlat
  <2> QED
    BY <2>1, <2>2
<1> QED
  BY <1>1, <1>2, <1>3, <1>4

\* To flatten what was concatenated is to concatenate what was flattened.
LEMMA FlattenConcat ==
  ASSUME NEW S, NEW a \in Seq(Seq(S)), NEW b \in Seq(Seq(S))
  PROVE  FlattenSeq(a \o b) = FlattenSeq(a) \o FlattenSeq(b)
<1>1. PICK s, n, m : s = a \o b /\ n = Len(a) /\ m = Len(b)
  OBVIOUS
<1>2. /\ s \in Seq(Seq(S)) /\ n \in Nat /\ m \in Nat /\ Len(s) = n + m
      /\ \A i \in 1..n : s[i] = a[i]
      /\ \A i \in 1..m : s[n + i] = b[i]
      /\ \A i \in 1..m : b[i] \in Seq(S)
  BY <1>1
<1>3. CASE n = 0
  <2>1. a = <<>>
    BY <1>1, <1>3, EmptyIsEmpty
  <2>2. s = b
    BY <1>1, <2>1
  <2>3. FlattenSeq(b) \in Seq(S)
    BY FlattenType
  <2>4. <<>> \o FlattenSeq(b) = FlattenSeq(b)
    BY <2>3
  <2> QED
    BY <1>1, <2>1, <2>2, <2>4, FlattenEmpty
<1>4. CASE m = 0
  <2>1. b = <<>>
    BY <1>1, <1>4, EmptyIsEmpty
  <2>2. s = a
    BY <1>1, <2>1
  <2>3. FlattenSeq(a) \in Seq(S)
    BY FlattenType
  <2>4. FlattenSeq(a) \o <<>> = FlattenSeq(a)
    BY <2>3
  <2> QED
    BY <1>1, <2>1, <2>2, <2>4, FlattenEmpty
<1>5. CASE n # 0 /\ m # 0
  <2>1. PICK f, fa, fb : f = Flat(s) /\ fa = Flat(a) /\ fb = Flat(b)
    OBVIOUS
  <2>2. \A i \in 1..(n + m) : f[i] \in Seq(S) /\ f[i] = IF i = 1 THEN s[i] ELSE f[i - 1] \o s[i]
    <3>1. s \in Seq(Seq(S)) /\ 1..Len(s) = 1..(n + m)
      BY <1>2
    <3> QED
      BY <2>1, <3>1, FlatSteps
  <2>3. \A i \in 1..n : fa[i] \in Seq(S) /\ fa[i] = IF i = 1 THEN a[i] ELSE fa[i - 1] \o a[i]
    BY <1>1, <2>1, FlatSteps
  <2>4. \A i \in 1..m : fb[i] \in Seq(S) /\ fb[i] = IF i = 1 THEN b[i] ELSE fb[i - 1] \o b[i]
    BY <1>1, <2>1, FlatSteps
  <2> DEFINE G == {i \in 0..n : i # 0 => f[i] = fa[i]}
             H == {i \in 0..m : i # 0 => f[n + i] = fa[n] \o fb[i]}
  <2>5. 0..n \subseteq G
    <3>1. 0 \in G
      BY <1>2
    <3>2. ASSUME NEW i \in 1..n, i - 1 \in G
          PROVE  i \in G
      <4>1. i \in 1..(n + m) /\ s[i] = a[i] /\ i \in 0..n
        BY <1>2
      <4>2. CASE i = 1
        BY <2>2, <2>3, <4>1, <4>2
      <4>3. CASE i # 1
        <5>1. f[i - 1] = fa[i - 1]
          <6>1. i - 1 # 0
            BY <1>2, <4>3
          <6> QED
            BY <3>2, <6>1
        <5>2. f[i] = f[i - 1] \o s[i] /\ fa[i] = fa[i - 1] \o a[i]
          BY <2>2, <2>3, <4>1, <4>3
        <5> QED
          BY <4>1, <5>1, <5>2
      <4> QED
        BY <4>2, <4>3
    <3> HIDE DEF G
    <3> QED
      BY <1>2, <3>1, <3>2, InductionUpTo
  <2>6. f[n] = fa[n] /\ fa[n] \in Seq(S)
    <3>1. n \in 0..n /\ n \in 1..n
      BY <1>2, <1>5
    <3> QED
      BY <1>5, <2>3, <2>5, <3>1
  <2>7. 0..m \subseteq H
    <3>1. 0 \in H
      BY <1>2
    <3>2. ASSUME NEW i \in 1..m, i - 1 \in H
          PROVE  i \in H
      <4>1. n + i \in 1..(n + m) /\ n + i # 1 /\ (n + i) - 1 = n + (i - 1) /\ s[n + i] = b[i]
        BY <1>2, <1>5
      <4>2. f[n + i] = f[n + (i - 1)] \o b[i]
        BY <2>2, <4>1
      <4>3. CASE i = 1
        <5>1. n + (i - 1) = n /\ fb[i] = b[i]
          BY <1>2, <2>4, <4>3
        <5>2. f[n + i] = fa[n] \o fb[i]
          <6>1. f[n + i] = f[n] \o b[i]
            BY <4>2, <5>1
          <6> QED
            BY <2>6, <5>1, <6>1
        <5>3. i \in 0..m
          BY <1>2
        <5> QED
          BY <5>2, <5>3
      <4>4. CASE i # 1
        <5>0. i - 1 # 0
          BY <1>2, <4>4
        <5>1. f[n + (i - 1)] = fa[n] \o fb[i - 1]
          BY <3>2, <5>0
        <5>2. fb[i] = fb[i - 1] \o b[i]
          BY <2>4, <4>4
        <5>3. i - 1 \in 1..m
          BY <1>2, <4>4
        <5>4. fb[i - 1] \in Seq(S) /\ b[i] \in Seq(S)
          BY <1>2, <2>4, <5>3
        <5>5. fa[n] \o (fb[i - 1] \o b[i]) = (fa[n] \o fb[i - 1]) \o b[i]
          <6>1. PICK x, y, z : x = fa[n] /\ y = fb[i - 1] /\ z = b[i]
            OBVIOUS
          <6>2. x \in Seq(S) /\ y \in Seq(S) /\ z \in Seq(S)
            BY <2>6, <5>4, <6>1
          <6>3. x \o (y \o z) = (x \o y) \o z
            <7> HIDE DEF G, H
            <7> QED
              BY ONLY <6>2
          <6> QED
            BY <6>1, <6>3
        <5>6. f[n + i] = fa[n] \o fb[i] /\ i \in 0..m
          BY <1>2, <4>2, <5>1, <5>2, <5>5
        <5> QED
          BY <5>6
      <4> QED
        BY <4>3, <4>4
    <3> HIDE DEF H
    <3> QED
      BY <1>2, <3>1, <3>2, InductionUpTo
  <2>8. f[n + m] = fa[n] \o fb[m]
    <3>1. m \in 0..m
      BY <1>2
    <3> QED
      BY <1>5, <2>7, <3>1
  <2>9. FlattenSeq(s) = f[n + m] /\ FlattenSeq(a) = fa[n] /\ FlattenSeq(b) = fb[m]
    <3>1. n + m # 0
      BY <1>2, <1>5
    <3> QED
      BY <1>1, <1>2, <1>5, <2>1, <3>1, FlattenEndsFlat
  <2> QED
    BY <1>1, <2>8, <2>9
<1> QED
  BY <1>3, <1>4, <1>5

\* A prefix has the elements of the whole, as far as it goes.
LEMMA PrefixElements ==
  ASSUME NEW S, NEW s \in Seq(S), NEW t \in Seq(S)
  PROVE  IsPrefix(s, t) <=> Len(s) <= Len(t) /\ \A i \in 1..Len(s) : s[i] = t[i]
<1>1. PICK n, m : n = Len(s) /\ m = Len(t)
  OBVIOUS
<1>2. n \in Nat /\ m \in Nat
  BY <1>1
<1>3. ASSUME n <= m
      PROVE  SubSeq(s, 1, n) = SubSeq(t, 1, n) <=> \A i \in 1..n : s[i] = t[i]
  <2>1. PICK x, y : x = SubSeq(s, 1, n) /\ y = SubSeq(t, 1, n)
    OBVIOUS
  <2>2. /\ x \in Seq(S) /\ Len(x) = n /\ \A i \in 1..n : x[i] = s[i]
        /\ y \in Seq(S) /\ Len(y) = n /\ \A i \in 1..n : y[i] = t[i]
    BY <1>1, <1>2, <1>3, <2>1
  <2>3. (\A i \in 1..n : s[i] = t[i]) => x = y
    <3> SUFFICES ASSUME \A i \in 1..n : s[i] = t[i] PROVE x = y
      OBVIOUS
    <3>1. \A i \in 1..Len(x) : x[i] = y[i]
      BY <2>2
    <3> QED
      BY <2>2, <3>1, SameElements
  <2> QED
    BY <2>1, <2>2, <2>3
<1> QED
  BY <1>1, <1>3 DEF IsPrefix

\* Every sequence is a prefix of itself.
LEMMA PrefixOfItself ==
  ASSUME NEW S, NEW s \in Seq(S)
  PROVE  IsPrefix(s, s)
  BY PrefixElements

\* Nothing is a prefix of every sequence.
LEMMA NothingIsPrefix ==
  ASSUME NEW S, NEW s \in Seq(S)
  PROVE  IsPrefix(<<>>, s)
<1>1. PICK e : e = <<>>
  OBVIOUS
<1>2. e \in Seq(S) /\ Len(e) = 0
  BY <1>1
<1>3. Len(e) <= Len(s) /\ \A i \in 1..Len(e) : e[i] = s[i]
  BY <1>2
<1>4. e \in Seq(S)
  BY <1>2
<1>5. IsPrefix(e, s)
  BY <1>3, <1>4, PrefixElements
<1> QED
  BY <1>1, <1>5

\* A prefix is a prefix of anything longer.
LEMMA PrefixBefore ==
  ASSUME NEW S, NEW s \in Seq(S), NEW a \in Seq(S), NEW b \in Seq(S), IsPrefix(s, a)
  PROVE  IsPrefix(s, a \o b)
<1>1. PICK c : c = a \o b
  OBVIOUS
<1>2. c \in Seq(S) /\ Len(c) = Len(a) + Len(b) /\ \A i \in 1..Len(a) : c[i] = a[i]
  BY <1>1, ConcatElements
<1>3. Len(s) \in Nat /\ Len(a) \in Nat /\ Len(b) \in Nat
  OBVIOUS
<1>4. Len(s) <= Len(a) /\ \A i \in 1..Len(s) : s[i] = a[i]
  BY PrefixElements
<1>5. Len(s) <= Len(c) /\ \A i \in 1..Len(s) : s[i] = c[i]
  BY <1>2, <1>3, <1>4
<1> QED
  BY <1>1, <1>2, <1>5, PrefixElements

\* The same elements in front make a prefix of a prefix.
LEMMA PrefixBehind ==
  ASSUME NEW S, NEW s \in Seq(S), NEW a \in Seq(S), NEW b \in Seq(S), IsPrefix(s, b)
  PROVE  IsPrefix(a \o s, a \o b)
<1>1. PICK c, d, n : c = a \o b /\ d = a \o s /\ n = Len(a)
  OBVIOUS
<1>2. /\ c \in Seq(S) /\ Len(c) = n + Len(b) /\ \A i \in 1..n : c[i] = a[i]
      /\ \A i \in 1..Len(b) : c[n + i] = b[i]
  BY <1>1, ConcatElements
<1>3. /\ d \in Seq(S) /\ Len(d) = n + Len(s) /\ \A i \in 1..n : d[i] = a[i]
      /\ \A i \in 1..Len(s) : d[n + i] = s[i]
  BY <1>1, ConcatElements
<1>4. Len(s) \in Nat /\ n \in Nat /\ Len(b) \in Nat
  BY <1>1
<1>5. Len(s) <= Len(b) /\ \A i \in 1..Len(s) : s[i] = b[i]
  BY PrefixElements
<1>6. ASSUME NEW i \in 1..Len(d)
      PROVE  d[i] = c[i]
  <2>1. CASE i \in 1..n
    BY <1>2, <1>3, <2>1
  <2>2. CASE i \notin 1..n
    <3>1. i - n \in 1..Len(s) /\ i - n \in 1..Len(b) /\ n + (i - n) = i
      BY <1>3, <1>4, <1>5, <2>2
    <3> QED
      BY <1>2, <1>3, <1>5, <3>1
  <2> QED
    BY <2>1, <2>2
<1>7. Len(d) <= Len(c)
  BY <1>2, <1>3, <1>4, <1>5
<1> QED
  BY <1>1, <1>2, <1>3, <1>6, <1>7, PrefixElements

\* A sequence from its i-th element on.
Onward(s, i) == SubSeq(s, i, Len(s))

\* From one element to the next a sequence gets shorter by that element.
LEMMA TailSteps ==
  ASSUME NEW S, NEW s \in Seq(S)
  PROVE  /\ Onward(s, 1) = s
         /\ \A i \in Nat \ {0} : Onward(s, i) \in Seq(S)
         /\ \A i \in Nat : i > Len(s) => Onward(s, i) = <<>>
         /\ \A i \in 1..Len(s) : Onward(s, i) = <<s[i]>> \o Onward(s, i + 1)
<1>1. PICK n : n = Len(s)
  OBVIOUS
<1>2. n \in Nat
  BY <1>1
<1>3. Onward(s, 1) = s
  BY DEF Onward
<1>4. \A i \in Nat \ {0} : Onward(s, i) \in Seq(S)
  BY DEF Onward
<1>5. \A i \in Nat : i > Len(s) => Onward(s, i) = <<>>
  BY DEF Onward
<1>6. ASSUME NEW i \in 1..n
      PROVE  Onward(s, i) = <<s[i]>> \o Onward(s, i + 1)
  <2>1. PICK x, y, h : x = Onward(s, i) /\ y = Onward(s, i + 1) /\ h = <<s[i]>>
    OBVIOUS
  <2>2. /\ x \in Seq(S) /\ Len(x) = n - i + 1 /\ \A k \in 1..(n - i + 1) : x[k] = s[i + k - 1]
    BY <1>1, <1>2, <2>1 DEF Onward
  <2>3. /\ y \in Seq(S) /\ Len(y) = n - i /\ \A k \in 1..(n - i) : y[k] = s[i + k]
    <3>1. i + 1 \in Nat \ {0} /\ n - (i + 1) + 1 = n - i /\ \A k \in 1..(n - i) : (i + 1) + k - 1 = i + k
      BY <1>2
    <3>2. y = SubSeq(s, i + 1, n)
      BY <1>1, <2>1 DEF Onward
    <3>3. /\ y \in Seq(S)
      BY <1>4, <2>1, <3>1
    <3>4. Len(y) = n - i
      BY <1>1, <1>2, <3>1, <3>2
    <3>5. \A k \in 1..(n - i) : y[k] = s[(i + 1) + k - 1]
      BY <1>1, <1>2, <3>1, <3>2
    <3> QED
      BY <3>1, <3>3, <3>4, <3>5
  <2>4. h \in Seq(S) /\ Len(h) = 1 /\ h[1] = s[i]
    BY <1>1, <2>1
  <2>5. PICK z : z = h \o y
    OBVIOUS
  <2>6. z \in Seq(S) /\ Len(z) = 1 + Len(y) /\ z[1] = h[1] /\ \A k \in 1..Len(y) : z[1 + k] = y[k]
    <3>1. y \in Seq(S) /\ h \in Seq(S)
      BY <2>3, <2>4
    <3>2. /\ h \o y \in Seq(S) /\ Len(h \o y) = Len(h) + Len(y)
          /\ \A k \in 1..Len(h) : (h \o y)[k] = h[k]
          /\ \A k \in 1..Len(y) : (h \o y)[Len(h) + k] = y[k]
      BY <3>1, ConcatElements
    <3> QED
      BY <2>4, <2>5, <3>2, 1 \in 1..1
  <2>7. ASSUME NEW k \in 1..(n - i + 1)
        PROVE  x[k] = z[k]
    <3>1. CASE k = 1
      <4>1. i + 1 - 1 = i /\ x[1] = s[i + 1 - 1]
        BY <1>2, <2>2, <3>1
      <4> QED
        BY <2>4, <2>6, <3>1, <4>1
    <3>2. CASE k # 1
      <4>1. PICK j : j = k - 1
        OBVIOUS
      <4>2. j \in 1..(n - i) /\ k = 1 + j /\ i + k - 1 = i + j
        BY <1>2, <3>2, <4>1
      <4>3. z[1 + j] = y[j] /\ y[j] = s[i + j]
        BY <2>3, <2>6, <4>2
      <4>4. x[k] = s[i + k - 1]
        BY <2>2
      <4> QED
        BY <4>2, <4>3, <4>4
    <3> QED
      BY <3>1, <3>2
  <2>8. Len(x) = Len(z)
    BY <1>2, <2>2, <2>3, <2>6
  <2>9. \A k \in 1..Len(x) : x[k] = z[k]
    BY <2>2, <2>7
  <2> QED
    BY <2>1, <2>2, <2>5, <2>6, <2>8, <2>9, SameElements
<1> QED
  BY <1>1, <1>3, <1>4, <1>5, <1>6

\* To flatten from the i-th sequence on is the i-th, and then what follows it.
LEMMA FlattenTail ==
  ASSUME NEW S, NEW s \in Seq(Seq(S)), NEW i \in 1..Len(s)
  PROVE  FlattenSeq(Onward(s, i)) = s[i] \o FlattenSeq(Onward(s, i + 1))
<1>1. PICK x, h, y : x = Onward(s, i) /\ h = s[i] /\ y = Onward(s, i + 1)
  OBVIOUS
<1>2. i + 1 \in Nat \ {0} /\ h \in Seq(S)
  BY <1>1
<1>3. x = <<h>> \o y
  BY <1>1, TailSteps
<1>4. y \in Seq(Seq(S))
  BY <1>1, <1>2, TailSteps
<1>5. <<h>> \in Seq(Seq(S))
  BY <1>2
<1>6. FlattenSeq(<<h>> \o y) = FlattenSeq(<<h>>) \o FlattenSeq(y)
  BY <1>4, <1>5, FlattenConcat
<1>7. FlattenSeq(<<h>>) = h
  BY <1>2, FlattenOne
<1> QED
  BY <1>1, <1>3, <1>6, <1>7

\* A sequence several times.
Copies(L, n) == FlattenSeq([k \in 1..n |-> L])

\* One copy more is the copies so far and the sequence once more.
LEMMA CopiesSteps ==
  ASSUME NEW S, NEW L \in Seq(S)
  PROVE  /\ Copies(L, 0) = <<>>
         /\ \A n \in Nat : Copies(L, n) \in Seq(S) /\ Copies(L, n + 1) = Copies(L, n) \o L
<1>1. ASSUME NEW n \in Nat
      PROVE  [k \in 1..n |-> L] \in Seq(Seq(S)) /\ Len([k \in 1..n |-> L]) = n
  <2>1. PICK s : s = [k \in 1..n |-> L]
    OBVIOUS
  <2>2. s = [k \in 1..n |-> s[k]] /\ \A k \in 1..n : s[k] \in Seq(S)
    BY <2>1
  <2> QED
    BY <2>1, <2>2, FunctionIsSeq
<1>2. Copies(L, 0) = <<>>
  <2>1. [k \in 1..0 |-> L] = <<>>
    OBVIOUS
  <2> QED
    BY <2>1, FlattenEmpty DEF Copies
<1>3. ASSUME NEW n \in Nat
      PROVE  Copies(L, n) \in Seq(S) /\ Copies(L, n + 1) = Copies(L, n) \o L
  <2>1. PICK s, t : s = [k \in 1..n |-> L] /\ t = [k \in 1..(n + 1) |-> L]
    OBVIOUS
  <2>2. s \in Seq(Seq(S)) /\ Len(s) = n /\ \A k \in 1..n : s[k] = L
    BY <1>1, <2>1
  <2>3. t \in Seq(Seq(S)) /\ Len(t) = n + 1 /\ \A k \in 1..(n + 1) : t[k] = L
    <3>1. n + 1 \in Nat
      OBVIOUS
    <3> QED
      BY <1>1, <2>1, <3>1
  <2>4. PICK h : h = <<L>>
    OBVIOUS
  <2>5. h \in Seq(Seq(S)) /\ Len(h) = 1 /\ h[1] = L
    BY <2>4
  <2>6. PICK z, Q : z = s \o h /\ Q = Seq(S)
    OBVIOUS
  <2>7. /\ z \in Seq(Q) /\ Len(z) = n + 1
        /\ \A k \in 1..n : z[k] = s[k]
        /\ \A k \in 1..1 : z[n + k] = h[k]
    <3>1. s \in Seq(Q) /\ h \in Seq(Q)
      BY <2>2, <2>5, <2>6
    <3>2. /\ s \o h \in Seq(Q) /\ Len(s \o h) = Len(s) + Len(h)
          /\ \A k \in 1..Len(s) : (s \o h)[k] = s[k]
          /\ \A k \in 1..Len(h) : (s \o h)[Len(s) + k] = h[k]
      BY <3>1, ConcatElements
    <3> QED
      BY <2>2, <2>5, <2>6, <3>2
  <2>8. \A k \in 1..(n + 1) : t[k] = z[k]
    <3> SUFFICES ASSUME NEW k \in 1..(n + 1) PROVE z[k] = L
      BY <2>3
    <3>1. CASE k \in 1..n
      BY <2>2, <2>7, <3>1
    <3>2. CASE k \notin 1..n
      <4>1. k = n + 1 /\ 1 \in 1..1
        BY <3>2
      <4> QED
        BY <2>5, <2>7, <4>1
    <3> QED
      BY <3>1, <3>2
  <2>9. t = z
    <3>1. t \in Seq(Q)
      BY <2>3, <2>6
    <3> QED
      BY <2>3, <2>7, <2>8, <3>1, SameElements
  <2>10. FlattenSeq(s \o h) = FlattenSeq(s) \o FlattenSeq(h)
    BY <2>2, <2>5, FlattenConcat
  <2>11. FlattenSeq(h) = L /\ FlattenSeq(s) \in Seq(S)
    BY <2>2, <2>4, FlattenOne, FlattenType
  <2> QED
    BY <2>1, <2>6, <2>9, <2>10, <2>11 DEF Copies
<1> QED
  BY <1>2, <1>3

\* One copy is the sequence itself.
LEMMA CopiesOnce ==
  ASSUME NEW S, NEW L \in Seq(S)
  PROVE  Copies(L, 1) = L
<1>1. Copies(L, 0 + 1) = Copies(L, 0) \o L /\ Copies(L, 0) = <<>>
  BY CopiesSteps, 0 \in Nat
<1> QED
  BY <1>1

\* Of one element.
LEMMA CopiesOfOne ==
  ASSUME NEW S, NEW x \in S, NEW n \in Nat
  PROVE  Copies(<<x>>, n) = [k \in 1..n |-> x]
<1> DEFINE Good(k) == /\ Copies(<<x>>, k) \in Seq(S) /\ Len(Copies(<<x>>, k)) = k
                      /\ \A j \in 1..k : Copies(<<x>>, k)[j] = x
           G == {k \in Nat : Good(k)}
<1>1. PICK L : L = <<x>>
  OBVIOUS
<1>2. L \in Seq(S) /\ Len(L) = 1 /\ L[1] = x
  BY <1>1
<1>3. /\ Copies(L, 0) = <<>>
      /\ \A k \in Nat : Copies(L, k) \in Seq(S) /\ Copies(L, k + 1) = Copies(L, k) \o L
  BY <1>2, CopiesSteps
<1>4. 0 \in G
  <2>1. PICK e : e = Copies(L, 0)
    OBVIOUS
  <2>2. e \in Seq(S) /\ Len(e) = 0
    BY <1>3, <2>1
  <2> QED
    BY <1>1, <2>1, <2>2
<1>5. ASSUME NEW i \in 1..n, i - 1 \in G
      PROVE  i \in G
  <2>1. PICK k, c, d : k = i - 1 /\ c = Copies(L, k) /\ d = Copies(L, i)
    OBVIOUS
  <2>2. k \in Nat /\ i = k + 1 /\ c \in Seq(S) /\ Len(c) = k /\ \A j \in 1..k : c[j] = x
    BY <1>1, <1>5, <2>1
  <2>3. d = c \o L
    BY <1>3, <2>1, <2>2
  <2>4. /\ d \in Seq(S) /\ Len(d) = Len(c) + Len(L) /\ \A j \in 1..Len(c) : d[j] = c[j]
        /\ \A j \in 1..Len(L) : d[Len(c) + j] = L[j]
    <3>1. c \in Seq(S) /\ L \in Seq(S)
      BY <1>2, <2>2
    <3> QED
      BY <2>3, <3>1, ConcatElements
  <2>5. d[i] = x
    <3>1. 1 \in 1..Len(L)
      BY <1>2
    <3> QED
      BY <1>2, <2>2, <2>4, <3>1
  <2>6. Len(d) = i /\ \A j \in 1..i : d[j] = x
    <3>1. \A j \in 1..i : j \in 1..k \/ j = i
      BY <2>2
    <3> QED
      BY <1>2, <2>2, <2>4, <2>5, <3>1
  <2> QED
    BY <1>1, <2>1, <2>2, <2>4, <2>6
<1>6. Good(n)
  <2>1. 0..n \subseteq G /\ n \in 0..n
    <3> HIDE DEF G
    <3> QED
      BY <1>4, <1>5, InductionUpTo
  <2> QED
    BY <2>1
<1>7. PICK c, d : c = Copies(L, n) /\ d = [k \in 1..n |-> x]
  OBVIOUS
<1>8. c \in Seq(S) /\ Len(c) = n /\ \A j \in 1..n : c[j] = x
  BY <1>1, <1>6, <1>7
<1>9. d \in Seq(S) /\ Len(d) = n /\ \A j \in 1..n : d[j] = x
  <2>1. d = [k \in 1..n |-> d[k]] /\ \A k \in 1..n : d[k] \in S
    BY <1>7
  <2> QED
    BY <1>7, <2>1, FunctionIsSeq
<1> QED
  BY <1>1, <1>7, <1>8, <1>9, SameElements

----------------------------------------------------------------------------
\* The bytes of a frame

\* The partial sums of datasum_for_check over the bytes of s, from 0 on.
IsRun(run, s) == run = [i \in 0..Len(s) |-> IF i = 0 THEN 0 ELSE U8(run[i - 1] + s[i])]

\* The recursion of DatasumBytes has a solution: it is extended byte by byte.
LEMMA RunExists ==
  ASSUME NEW s \in Seq(Byte)
  PROVE  \E run : IsRun(run, s)
<1> DEFINE UpTo(run, m) ==
             run = [i \in 0..m |-> IF i = 0 THEN 0 ELSE U8(run[i - 1] + s[i])]
           Good == {m \in Nat : \E run : UpTo(run, m)}
<1>1. 0 \in Good
  <2> DEFINE zero == [i \in 0..0 |-> 0]
  <2>1. UpTo(zero, 0)
    OBVIOUS
  <2> QED
    BY <2>1
<1>2. ASSUME NEW i \in 1..Len(s), i - 1 \in Good
      PROVE  i \in Good
  <2>1. PICK run : UpTo(run, i - 1)
    BY <1>2
  <2> DEFINE next == [j \in 0..i |-> IF j = i THEN U8(run[i - 1] + s[i]) ELSE run[j]]
             from == [j \in 0..i |-> IF j = 0 THEN 0 ELSE U8(next[j - 1] + s[j])]
  <2>2. ASSUME NEW j \in 0..i
        PROVE  next[j] = from[j]
    <3>1. CASE j = i
      <4>1. next[i - 1] = run[i - 1]
        OBVIOUS
      <4> QED
        BY <3>1, <4>1
    <3>2. CASE j # i
      <4>1. j \in 0..(i - 1) /\ next[j] = run[j]
        BY <3>2
      <4>2. j # 0 => next[j - 1] = run[j - 1]
        BY <4>1
      <4>3. run[j] = IF j = 0 THEN 0 ELSE U8(run[j - 1] + s[j])
        BY <2>1, <4>1
      <4> QED
        BY <4>1, <4>2, <4>3
    <3> QED
      BY <3>1, <3>2
  <2>3. next = from
    BY <2>2
  <2>4. UpTo(next, i)
    BY <2>3
  <2>5. \E run2 : UpTo(run2, i)
    <3> HIDE DEF next
    <3> QED
      BY <2>4
  <2> QED
    BY <2>5
<1> HIDE DEF Good
<1>3. 0..Len(s) \subseteq Good
  <2>1. Len(s) \in Nat
    OBVIOUS
  <2> QED
    BY <1>1, <1>2, <2>1, InductionUpTo
<1>4. Len(s) \in Good
  BY <1>3
<1> QED
  BY <1>4 DEF IsRun, Good

\* The datasum of the bytes is the last of the partial sums.
LEMMA DatasumEndsRun ==
  ASSUME NEW s \in Seq(Byte)
  PROVE  \E run : IsRun(run, s) /\ DatasumBytes(s) = run[Len(s)]
<1> DEFINE run == CHOOSE r : IsRun(r, s)
<1>1. IsRun(run, s)
  BY RunExists
<1>2. DatasumBytes(s) = run[Len(s)]
  BY DEF DatasumBytes, IsRun
<1> QED
  BY <1>1, <1>2

\* Each partial sum adds one byte to that before it.
LEMMA RunStep ==
  ASSUME NEW s \in Seq(Byte), NEW run, IsRun(run, s), NEW i \in 1..Len(s)
  PROVE  run[i] = U8(run[i - 1] + s[i])
<1>1. i \in 0..Len(s) /\ i # 0
  OBVIOUS
<1> QED
  BY <1>1 DEF IsRun

\* A value cut to eight bits is a byte.
LEMMA U8IsByte ==
  ASSUME NEW n \in Nat
  PROVE  U8(n) \in Byte
  BY DEF U8, Byte

\* The sum of two bytes, cut to eight bits, is a byte.
LEMMA ByteSumIsByte ==
  ASSUME NEW a \in Byte, NEW b \in Byte
  PROVE  U8(a + b) \in Byte
<1>1. a + b \in Nat
  BY DEF Byte
<1> QED
  BY <1>1, U8IsByte

\* Every partial sum is a byte.
LEMMA RunOfBytes ==
  ASSUME NEW s \in Seq(Byte), NEW run, IsRun(run, s)
  PROVE  \A i \in 0..Len(s) : run[i] \in Byte
<1> DEFINE Good == {i \in Nat : i <= Len(s) => run[i] \in Byte}
<1>1. 0 \in Good
  BY DEF IsRun, Byte
<1>2. ASSUME NEW i \in 1..Len(s), i - 1 \in Good
      PROVE  i \in Good
  <2>1. run[i - 1] \in Byte /\ s[i] \in Byte
    BY <1>2
  <2>2. run[i] = U8(run[i - 1] + s[i])
    BY DEF IsRun
  <2>3. U8(run[i - 1] + s[i]) \in Byte
    BY <2>1, ByteSumIsByte
  <2> QED
    BY <2>2, <2>3
<1> HIDE DEF Good
<1>3. 0..Len(s) \subseteq Good
  <2>1. Len(s) \in Nat
    OBVIOUS
  <2> QED
    BY <1>1, <1>2, <2>1, InductionUpTo
<1> QED
  BY <1>3 DEF Good

\* datasum_for_check of a stream is a uint8_t, however long the stream is.
THEOREM DatasumBytesIsByte ==
  ASSUME NEW s \in Seq(Byte)
  PROVE  DatasumBytes(s) \in Byte
<1>1. PICK run : IsRun(run, s) /\ DatasumBytes(s) = run[Len(s)]
  BY DatasumEndsRun
<1> QED
  BY <1>1, RunOfBytes

\* The sum of two bytes wraps once at most.
LEMMA ByteSum ==
  ASSUME NEW a \in Byte, NEW b \in Byte
  PROVE  U8(a + b) = IF a + b < 256 THEN a + b ELSE a + b - 256
  BY DEF U8, Byte

\* Different bytes stay different when the same byte is added.
LEMMA AddingKeepsApart ==
  ASSUME NEW a \in Byte, NEW b \in Byte, NEW c \in Byte, a # b
  PROVE  U8(a + c) # U8(b + c) /\ U8(c + a) # U8(c + b)
<1>1. /\ U8(a + c) = IF a + c < 256 THEN a + c ELSE a + c - 256
      /\ U8(b + c) = IF b + c < 256 THEN b + c ELSE b + c - 256
  BY ByteSum
<1>2. U8(a + c) # U8(b + c)
  BY <1>1 DEF Byte
<1>3. a + c = c + a /\ b + c = c + b
  BY DEF Byte
<1> QED
  BY <1>2, <1>3

\* One byte put in the place of another always changes the sum.
THEOREM OneByteChangesDatasum ==
  ASSUME NEW s \in Seq(Byte), NEW k \in DOMAIN s, NEW b \in Byte, s[k] # b
  PROVE  DatasumBytes([s EXCEPT ![k] = b]) # DatasumBytes(s)
<1> DEFINE r == [s EXCEPT ![k] = b]
<1>0. r \in Seq(Byte) /\ Len(r) = Len(s) /\ k \in 1..Len(s)
      /\ r[k] = b /\ \A i \in 1..Len(s) : i # k => r[i] = s[i]
  OBVIOUS
<1> HIDE DEF r
<1>1. PICK f : IsRun(f, s) /\ DatasumBytes(s) = f[Len(s)]
  BY DatasumEndsRun
<1>2. PICK g : IsRun(g, r) /\ DatasumBytes(r) = g[Len(s)]
  BY <1>0, DatasumEndsRun
<1>3. \A i \in 0..Len(s) : f[i] \in Byte /\ g[i] \in Byte
  BY <1>0, <1>1, <1>2, RunOfBytes
<1>4. \A i \in 1..Len(s) : f[i] = U8(f[i - 1] + s[i]) /\ g[i] = U8(g[i - 1] + r[i])
  BY <1>0, <1>1, <1>2, RunStep
<1> DEFINE Good == {i \in Nat : i <= Len(s) => IF i < k THEN f[i] = g[i] ELSE f[i] # g[i]}
<1>5. 0 \in Good
  BY <1>0, <1>1, <1>2 DEF IsRun
<1>6. ASSUME NEW i \in 1..Len(s), i - 1 \in Good
      PROVE  i \in Good
  <2>1. f[i - 1] \in Byte /\ g[i - 1] \in Byte /\ s[i] \in Byte
    BY <1>3
  <2>2. CASE i < k
    BY <1>0, <1>4, <1>6, <2>2
  <2>3. CASE i = k
    <3>1. f[i - 1] = g[i - 1]
      BY <1>6, <2>3
    <3> QED
      BY <1>0, <1>4, <2>1, <2>3, <3>1, AddingKeepsApart
  <2>4. CASE i > k
    <3>1. f[i - 1] # g[i - 1] /\ r[i] = s[i]
      BY <1>0, <1>6, <2>4
    <3>2. f[i] # g[i]
      BY <1>4, <2>1, <3>1, AddingKeepsApart
    <3> QED
      BY <2>4, <3>2
  <2> QED
    BY <1>0, <2>2, <2>3, <2>4
<1> HIDE DEF Good
<1>7. 0..Len(s) \subseteq Good
  <2>1. Len(s) \in Nat
    OBVIOUS
  <2> QED
    BY <1>5, <1>6, <2>1, InductionUpTo
<1>8. Len(s) \in Good
  BY <1>7
<1> QED
  BY <1>0, <1>1, <1>2, <1>8 DEF Good, r

----------------------------------------------------------------------------
\* What the two tests make of the checksums

\* Storing 255 - s in a uint8_t loses nothing while s is a byte.
LEMMA ComplementIsByte ==
  ASSUME NEW s \in Byte
  PROVE  U8(255 - s) = 255 - s
  BY DEF U8, Byte

\* A word is a number up to 65535.  The provers are slow when they see the interval
\* itself: from here on Word is not expanded.
LEMMA WordFacts ==
  \A w : w \in Word <=> w \in Nat /\ w <= 65535
<1>1. MaxWord \in Nat
  BY DEF MaxWord
<1>2. \A w : w \in Word <=> w \in Nat /\ w <= MaxWord
  BY <1>1 DEF Word
<1> QED
  BY <1>2 DEF MaxWord

\* The datasum of a uint16_t is a byte.
LEMMA DatasumIsByte ==
  ASSUME NEW val \in Word
  PROVE  DatasumU16(val) \in Byte
<1>1. val \in Nat
  BY WordFacts
<1>2. (val \div 256) + val \in Nat
  BY <1>1
<1> QED
  BY <1>2, U8IsByte DEF DatasumU16

\* read_length accepts every length packaging_msg writes.
THEOREM OwnLengthVerifies ==
  ASSUME NEW data_len \in Word
  PROVE  LengthVerifies(data_len, LengthCheck(data_len))
<1>0. DatasumU16(data_len) \in Byte
  BY DatasumIsByte
<1>1. PICK d \in Byte : d = DatasumU16(data_len)
  BY <1>0
<1>2. LengthCheck(data_len) = 255 - d
  BY <1>1, ComplementIsByte DEF LengthCheck
<1> QED
  BY <1>1, <1>2 DEF LengthVerifies, Byte

\* A length that reaches read_body has the datasum of the length that was sent: a
\* damaged length is noticed unless its two bytes still add up to the same uint8_t.
THEOREM DamagedLengthRejected ==
  ASSUME NEW sent \in Word, NEW read \in Word,
         LengthVerifies(read, LengthCheck(sent))
  PROVE  DatasumU16(read) = DatasumU16(sent)
<1>0. DatasumU16(sent) \in Byte /\ DatasumU16(read) \in Byte
  BY DatasumIsByte
<1>1. PICK d \in Byte : d = DatasumU16(sent)
  BY <1>0
<1>2. PICK e \in Byte : e = DatasumU16(read)
  BY <1>0
<1>3. LengthCheck(sent) = 255 - d
  BY <1>1, ComplementIsByte DEF LengthCheck
<1>4. e + (255 - d) = 255
  BY <1>2, <1>3 DEF LengthVerifies
<1>5. e = d
  BY <1>4 DEF Byte
<1> QED
  BY <1>1, <1>2, <1>5

\* read_body accepts the frame packaging_msg built exactly when the datasum of the
\* body and that of the topic id do not carry beyond 255 when added as int.
THEOREM OwnBodyVerdict ==
  ASSUME NEW body_sum \in Byte, NEW topic_sum \in Byte
  PROVE  BodyVerifies(body_sum, topic_sum, MessageCheck(body_sum, topic_sum))
           <=> body_sum + topic_sum <= 255
<1>1. CASE body_sum + topic_sum <= 255
  <2>1. U8(255 - (body_sum + topic_sum)) = 255 - (body_sum + topic_sum)
    BY <1>1 DEF U8, Byte
  <2> QED
    BY <1>1, <2>1 DEF BodyVerifies, MessageCheck, Byte
<1>2. CASE body_sum + topic_sum > 255
  <2>1. U8(255 - (body_sum + topic_sum)) = 511 - (body_sum + topic_sum)
    BY <1>2 DEF U8, Byte
  <2> QED
    BY <1>2, <2>1 DEF BodyVerifies, MessageCheck, Byte
<1> QED
  BY <1>1, <1>2 DEF Byte

\* A frame with one of its three summands changed is not accepted: read_body lets no
\* damage through that changes the body's sum, the topic's sum or the checksum alone.
THEOREM DamagedSumRejected ==
  ASSUME NEW b \in Byte, NEW t \in Byte, NEW c \in Byte, BodyVerifies(b, t, c),
         NEW x \in Byte
  PROVE  /\ x # b => ~BodyVerifies(x, t, c)
         /\ x # t => ~BodyVerifies(b, x, c)
         /\ x # c => ~BodyVerifies(b, t, x)
  BY DEF BodyVerifies, Byte

----------------------------------------------------------------------------
\* The vector handed to async_write

Vector(written, size) == [written |-> written, size |-> size]

\* A write the vector has room for does not change its size.
LEMMA WriteThatFits ==
  ASSUME NEW w \in Nat, NEW s \in Nat, NEW n \in Nat, w + n <= s
  PROVE  buffer_write(Vector(w, s), n) = Vector(w + n, s)
  BY DEF buffer_write, Vector

\* A write that needs more room makes the vector as long as what is written.
LEMMA WriteThatGrows ==
  ASSUME NEW w \in Nat, NEW s \in Nat, NEW n \in Nat, s <= w + n
  PROVE  buffer_write(Vector(w, s), n) = Vector(w + n, w + n)
  BY DEF buffer_write, Vector

\* From the fifth byte on: topic id, body and checksum.
LEMMA VectorFromFive ==
  ASSUME NEW d \in Nat, NEW s \in Nat, s = 8 + d \/ s \in 5..7
  PROVE  buffer_write(buffer_write(buffer_write(Vector(5, s), 2), d), 1) = Vector(8 + d, 8 + d)
<1>1. CASE s = 8 + d
  <2>1. buffer_write(Vector(5, s), 2) = Vector(7, s)
    BY <1>1, WriteThatFits
  <2>2. buffer_write(Vector(7, s), d) = Vector(7 + d, s)
    BY <1>1, WriteThatFits
  <2>3. buffer_write(Vector(7 + d, s), 1) = Vector(8 + d, s)
    BY <1>1, WriteThatFits
  <2> QED
    BY <1>1, <2>1, <2>2, <2>3
<1>2. CASE s \in 5..7
  <2>1. buffer_write(Vector(5, s), 2) = Vector(7, 7)
    BY <1>2, WriteThatGrows
  <2>2. buffer_write(Vector(7, 7), d) = Vector(7 + d, 7 + d)
    BY WriteThatGrows
  <2>3. buffer_write(Vector(7 + d, 7 + d), 1) = Vector(8 + d, 8 + d)
    BY WriteThatGrows
  <2> QED
    BY <2>1, <2>2, <2>3
<1> QED
  BY <1>1, <1>2

\* Whatever size it was created with, the vector ends with the size of the frame.
LEMMA VectorOfFrame ==
  ASSUME NEW data_len \in Word
  PROVE  FrameVector(data_len) = Vector(8 + data_len, 8 + data_len)
<1>00. data_len \in Nat /\ data_len <= 65535
  BY WordFacts
<1>0. U16(8 + data_len) \in Nat /\ (U16(8 + data_len) = 8 + data_len \/ U16(8 + data_len) <= 7)
  <2>1. CASE data_len <= 65527
    <3>1. (8 + data_len) % 65536 = 8 + data_len
      BY <1>00, <2>1
    <3> QED
      BY <1>00, <3>1 DEF U16
  <2>2. CASE data_len > 65527
    <3>1. (8 + data_len) % 65536 = data_len - 65528
      BY <1>00, <2>2
    <3>2. data_len - 65528 \in 0..7
      BY <1>00, <2>2
    <3>3. U16(8 + data_len) \in 0..7
      BY <3>1, <3>2 DEF U16
    <3> QED
      BY <3>3
  <2> QED
    BY <1>00, <2>1, <2>2
<1>1. PICK r \in Nat : r = U16(8 + data_len) /\ (r = 8 + data_len \/ r <= 7)
  BY <1>0
<1>2. PICK s \in Nat :
        /\ buffer_write(buffer_write(buffer_write(Vector(0, r), 2), 2), 1) = Vector(5, s)
        /\ s = 8 + data_len \/ s \in 5..7
  <2>1. CASE r >= 5
    <3>1. buffer_write(Vector(0, r), 2) = Vector(2, r)
      BY <2>1, WriteThatFits
    <3>2. buffer_write(Vector(2, r), 2) = Vector(4, r)
      BY <2>1, WriteThatFits
    <3>3. buffer_write(Vector(4, r), 1) = Vector(5, r)
      BY <2>1, WriteThatFits
    <3> QED
      BY <1>1, <2>1, <3>1, <3>2, <3>3
  <2>2. CASE ~(r >= 5)
    <3>1. PICK a \in 0..4 : buffer_write(Vector(0, r), 2) = Vector(2, a)
      <4>1. CASE r <= 2
        <5>1. buffer_write(Vector(0, r), 2) = Vector(2, 2)
          BY <4>1, WriteThatGrows
        <5> QED
          BY <5>1
      <4>2. CASE ~(r <= 2)
        <5>1. buffer_write(Vector(0, r), 2) = Vector(2, r) /\ r \in 0..4
          BY <4>2, <2>2, WriteThatFits
        <5> QED
          BY <5>1
      <4> QED
        BY <4>1, <4>2
    <3>2. buffer_write(Vector(2, a), 2) = Vector(4, 4)
      BY WriteThatGrows
    <3>3. buffer_write(Vector(4, 4), 1) = Vector(5, 5)
      BY WriteThatGrows
    <3> QED
      BY <3>1, <3>2, <3>3
  <2> QED
    BY <1>1, <2>1, <2>2
<1>3. FrameVector(data_len) =
        buffer_write(buffer_write(buffer_write(Vector(5, s), 2), data_len), 1)
  BY <1>1, <1>2 DEF FrameVector, Vector
<1> QED
  BY <1>00, <1>2, <1>3, VectorFromFive

\* The size of a payload is its bytes and its zeros.
LEMMA SizeOfRecord ==
  ASSUME NEW q, NEW z
  PROVE  Size([bytes |-> q, zeros |-> z]) = Len(q) + z
  BY DEF Size

\* What write_to_serial may be handed.
Payload == [bytes : Seq(Byte), zeros : Nat]

\* The payload a frame carries fits the 16-bit length field.
LEMMA CarriedFits ==
  ASSUME NEW p \in Payload
  PROVE  Size(Carried(p)) \in Word /\ Carried(p).bytes \in Seq(Byte)
<1> DEFINE data_len == U16(Size(p))
           n == IF data_len < Len(p.bytes) THEN data_len ELSE Len(p.bytes)
<1>1. p.bytes \in Seq(Byte) /\ Len(p.bytes) \in Nat /\ p.zeros \in Nat
  <2>1. p.bytes \in Seq(Byte) /\ p.zeros \in Nat
    BY DEF Payload
  <2> QED
    BY <2>1
<1>2. data_len \in Word
  <2>0. Size(p) \in Nat
    BY <1>1 DEF Size
  <2>1. PICK z \in Nat : z = Size(p)
    BY <2>0
  <2>2. z % 65536 \in Word
    BY WordFacts
  <2> QED
    BY <2>1, <2>2 DEF U16
<1> HIDE DEF data_len
<1>3. n \in Nat /\ n <= Len(p.bytes) /\ n <= data_len
  BY <1>1, <1>2, WordFacts
<1> HIDE DEF n
<1>4. Len(SubSeq(p.bytes, 1, n)) = n
  BY <1>1, <1>3
<1>5. n + (data_len - n) = data_len
  BY <1>2, <1>3, WordFacts
<1>6. Carried(p) = [bytes |-> SubSeq(p.bytes, 1, n), zeros |-> data_len - n]
  BY DEF Carried, data_len, n
<1>7. Size(Carried(p)) = Len(SubSeq(p.bytes, 1, n)) + (data_len - n)
  BY <1>6, SizeOfRecord, Zenon
<1>8. Size(Carried(p)) = n + (data_len - n)
  BY <1>4, <1>7, Zenon
<1>9. SubSeq(p.bytes, 1, n) \in Seq(Byte)
  BY <1>1, <1>3
<1> QED
  BY <1>2, <1>5, <1>6, <1>8, <1>9

----------------------------------------------------------------------------
\* The frame byte by byte

\* The two bytes of a word, and the word they spell.
LEMMA WordBytes ==
  ASSUME NEW w \in Word
  PROVE  w % 256 \in Byte /\ w \div 256 \in Byte /\ FromLowHigh(w % 256, w \div 256) = w
<1>1. w \in Nat /\ w <= 65535
  BY WordFacts
<1> QED
  BY <1>1 DEF FromLowHigh, Byte

\* Two bytes spell a word, and its checksum is their sum.
LEMMA WordFromBytes ==
  ASSUME NEW low \in Byte, NEW high \in Byte
  PROVE  /\ FromLowHigh(low, high) \in Word
         /\ DatasumU16(FromLowHigh(low, high)) = U8(low + high)
<1>1. FromLowHigh(low, high) \in Word
  BY WordFacts DEF FromLowHigh, Byte
<1>2. (low + 256 * high) \div 256 = high
  BY DEF Byte
<1>3. (high + (low + 256 * high)) % 256 = (low + high) % 256
  BY DEF Byte
<1> QED
  BY <1>1, <1>2, <1>3 DEF DatasumU16, FromLowHigh, U8

\* Both checksums are bytes.
LEMMA ChecksAreBytes ==
  ASSUME NEW w \in Word, NEW b \in Byte, NEW t \in Byte
  PROVE  LengthCheck(w) \in Byte /\ MessageCheck(b, t) \in Byte
<1>1. DatasumU16(w) \in Byte
  BY DatasumIsByte
<1>2. \A d \in Byte : U8(255 - d) \in Byte
  BY DEF U8, Byte
<1>3. U8(255 - (b + t)) \in Byte
  BY DEF U8, Byte
<1> QED
  BY <1>1, <1>2, <1>3 DEF LengthCheck, MessageCheck

Joined(c, x, y, z) ==
  /\ Len(c) = Len(x) + Len(y) + Len(z)
  /\ \A i \in 1..Len(x) : c[i] = x[i]
  /\ \A i \in 1..Len(y) : c[Len(x) + i] = y[i]
  /\ \A i \in 1..Len(z) : c[Len(x) + Len(y) + i] = z[i]

\* Three sequences one behind the other, element by element.
LEMMA ThreeParts ==
  ASSUME NEW S, NEW x \in Seq(S), NEW y \in Seq(S), NEW z \in Seq(S)
  PROVE  x \o y \o z \in Seq(S) /\ Joined(x \o y \o z, x, y, z)
<1>1. PICK mid, c : mid = x \o y /\ c = mid \o z
  OBVIOUS
<1>2. /\ mid \in Seq(S) /\ Len(mid) = Len(x) + Len(y)
      /\ \A i \in 1..Len(x) : mid[i] = x[i]
      /\ \A i \in 1..Len(y) : mid[Len(x) + i] = y[i]
  BY <1>1, ConcatElements
<1>3. /\ c \in Seq(S) /\ Len(c) = Len(mid) + Len(z)
      /\ \A i \in 1..Len(mid) : c[i] = mid[i]
      /\ \A i \in 1..Len(z) : c[Len(mid) + i] = z[i]
  <2>1. mid \in Seq(S) /\ c = mid \o z
    BY <1>1, <1>2
  <2> QED
    BY <2>1, ConcatElements
<1>4. Len(x) \in Nat /\ Len(y) \in Nat
  OBVIOUS
<1>5. /\ \A i \in 1..Len(x) : i \in 1..Len(mid)
      /\ \A i \in 1..Len(y) : Len(x) + i \in 1..Len(mid)
  BY <1>2, <1>4
<1>6. Joined(c, x, y, z)
  BY <1>2, <1>3, <1>4, <1>5 DEF Joined
<1> QED
  BY <1>1, <1>3, <1>6

\* Length, its checksum and topic id.
LEMMA HeaderElements ==
  ASSUME NEW a \in Byte, NEW b \in Byte, NEW c \in Byte, NEW d \in Byte, NEW e \in Byte,
         NEW header, header = <<a, b>> \o <<c>> \o <<d, e>>
  PROVE  /\ header \in Seq(Byte) /\ Len(header) = 5
         /\ header[1] = a /\ header[2] = b /\ header[3] = c /\ header[4] = d /\ header[5] = e
<1>1. PICK x, y, z : x = <<a, b>> /\ y = <<c>> /\ z = <<d, e>>
  OBVIOUS
<1>2. x \in Seq(Byte) /\ y \in Seq(Byte) /\ z \in Seq(Byte)
  BY <1>1
<1>3. Len(x) = 2 /\ Len(y) = 1 /\ Len(z) = 2
  BY <1>1
<1>4. /\ header \in Seq(Byte) /\ Len(header) = 2 + 1 + 2
      /\ \A i \in 1..2 : header[i] = x[i]
      /\ \A i \in 1..1 : header[2 + i] = y[i]
      /\ \A i \in 1..2 : header[2 + 1 + i] = z[i]
  <2>1. header \in Seq(Byte) /\ Joined(header, x, y, z)
    BY <1>1, <1>2, ThreeParts
  <2> QED
    BY <1>3, <2>1 DEF Joined
<1>5. header[1] = x[1] /\ header[2] = x[2] /\ header[2 + 1] = y[1]
      /\ header[2 + 1 + 1] = z[1] /\ header[2 + 1 + 2] = z[2]
  BY <1>4
<1> QED
  BY <1>1, <1>4, <1>5

Parts(frame, head, body, check) ==
  /\ frame \in Seq(Byte) /\ Len(frame) = 6 + Len(body)
  /\ \A i \in 1..5 : frame[i] = head[i]
  /\ \A i \in 1..Len(body) : frame[5 + i] = body[i]
  /\ frame[Len(frame)] = check

\* A header of five bytes, a body and a checksum, one behind the other.
LEMMA HeaderBodyCheck ==
  ASSUME NEW head \in Seq(Byte), Len(head) = 5, NEW body \in Seq(Byte), NEW check \in Byte
  PROVE  Parts(head \o body \o <<check>>, head, body, check)
<1>0. PICK frame : frame = head \o body \o <<check>>
  OBVIOUS
<1>1. PICK last : last = <<check>>
  OBVIOUS
<1>2. last \in Seq(Byte) /\ Len(last) = 1 /\ last[1] = check
  BY <1>1
<1>3. frame \in Seq(Byte) /\ Joined(frame, head, body, last)
  BY <1>0, <1>1, <1>2, ThreeParts
<1>4. Len(body) \in Nat /\ Len(frame) = 6 + Len(body)
  BY <1>2, <1>3 DEF Joined
<1>5. /\ \A i \in 1..5 : frame[i] = head[i]
      /\ \A i \in 1..Len(body) : frame[5 + i] = body[i]
      /\ frame[5 + Len(body) + 1] = last[1]
  BY <1>2, <1>3 DEF Joined
<1>6. frame[Len(frame)] = check
  <2>1. 5 + Len(body) + 1 = Len(frame)
    BY <1>4
  <2> QED
    BY <1>2, <1>5, <2>1
<1> QED
  BY <1>0, <1>3, <1>4, <1>5, <1>6 DEF Parts

\* Five bytes of header, the body, and its checksum.
LEMMA FrameLayout ==
  ASSUME NEW p \in Payload, NEW topic \in Word,
         NEW frame, frame = packaging_msg(p, topic),
         NEW body, body = Carried(p).bytes,
         NEW data_len, data_len = Size(Carried(p))
  PROVE  /\ body \in Seq(Byte) /\ data_len \in Word
         /\ frame \in Seq(Byte) /\ Len(frame) = 6 + Len(body)
         /\ frame[1] = data_len % 256 /\ frame[2] = data_len \div 256
         /\ frame[3] = LengthCheck(data_len)
         /\ frame[4] = topic % 256 /\ frame[5] = topic \div 256
         /\ \A i \in 1..Len(body) : frame[5 + i] = body[i]
         /\ frame[Len(frame)] = MessageCheck(DatasumBytes(body), DatasumU16(topic))
<1> DEFINE length_check == LengthCheck(data_len)
           message_check == MessageCheck(DatasumBytes(body), DatasumU16(topic))
<1>0. PICK head : head = LowHigh(data_len) \o <<length_check>> \o LowHigh(topic)
  OBVIOUS
<1>1. body \in Seq(Byte) /\ data_len \in Word
  BY CarriedFits
<1>2. length_check \in Byte /\ message_check \in Byte
  BY <1>1, ChecksAreBytes, DatasumIsByte, DatasumBytesIsByte
<1>3. /\ data_len % 256 \in Byte /\ data_len \div 256 \in Byte
      /\ topic % 256 \in Byte /\ topic \div 256 \in Byte
  BY <1>1, WordBytes
<1>4. frame = head \o body \o <<message_check>>
  BY <1>0 DEF packaging_msg
<1> HIDE DEF length_check, message_check
<1>5. /\ head \in Seq(Byte) /\ Len(head) = 5
      /\ head[1] = data_len % 256 /\ head[2] = data_len \div 256 /\ head[3] = length_check
      /\ head[4] = topic % 256 /\ head[5] = topic \div 256
  BY <1>0, <1>2, <1>3, HeaderElements DEF LowHigh
<1>6. Parts(frame, head, body, message_check)
  <2>1. head \in Seq(Byte) /\ Len(head) = 5 /\ body \in Seq(Byte) /\ message_check \in Byte
    BY <1>1, <1>2, <1>5
  <2> QED
    BY <1>4, <2>1, HeaderBodyCheck
<1>7. /\ frame[1] = head[1] /\ frame[2] = head[2] /\ frame[3] = head[3]
      /\ frame[4] = head[4] /\ frame[5] = head[5]
  BY <1>6 DEF Parts
<1> QED
  BY <1>1, <1>5, <1>6, <1>7 DEF Parts, length_check, message_check

\* Carried leaves a body alone that fits the length field.
LEMMA BodyIsCarried ==
  ASSUME NEW body \in Seq(Byte), Len(body) \in Word,
         NEW c, c = Carried([bytes |-> body, zeros |-> 0])
  PROVE  c.bytes = body /\ Size(c) = Len(body)
<1>1. Size([bytes |-> body, zeros |-> 0]) = Len(body) + 0
  BY SizeOfRecord
<1>2. Len(body) \in Nat /\ Len(body) <= 65535
  BY WordFacts
<1>3. U16(Len(body) + 0) = Len(body)
  BY <1>2 DEF U16
<1>4. SubSeq(body, 1, Len(body)) = body
  OBVIOUS
<1>5. c = [bytes |-> body, zeros |-> Len(body) - Len(body)]
  BY <1>1, <1>2, <1>3, <1>4 DEF Carried
<1>6. c = [bytes |-> body, zeros |-> 0]
  BY <1>2, <1>5
<1> QED
  BY <1>1, <1>2, <1>6

IsEncoded(e, topic, body) ==
  /\ e \in Seq(Byte) /\ Len(e) = 8 + Len(body)
  /\ e[1] = 255 /\ e[2] = 254
  /\ e[3] = Len(body) % 256 /\ e[4] = Len(body) \div 256
  /\ e[5] = LengthCheck(Len(body))
  /\ e[6] = topic % 256 /\ e[7] = topic \div 256
  /\ \A i \in 1..Len(body) : e[7 + i] = body[i]
  /\ e[8 + Len(body)] = MessageCheck(DatasumBytes(body), DatasumU16(topic))

\* A frame with its sync flags, of a payload without zeros to be left out.
Synced(topic, body) == <<255, 254>> \o packaging_msg([bytes |-> body, zeros |-> 0], topic)

\* A frame with its sync flags, byte by byte.
LEMMA SyncedLayout ==
  ASSUME NEW id \in Word, NEW data \in Seq(Byte), Len(data) \in Word
  PROVE  IsEncoded(Synced(id, data), id, data)
<1> DEFINE payload == [bytes |-> data, zeros |-> 0]
<1>1. PICK topic, body : topic = id /\ body = data
  OBVIOUS
<1>2. PICK frame, sync : frame = packaging_msg(payload, topic) /\ sync = <<255, 254>>
  OBVIOUS
<1>3. payload \in Payload /\ topic \in Word
  BY <1>1 DEF Payload
<1>4. Carried(payload).bytes = body /\ Size(Carried(payload)) = Len(body)
  BY <1>1, BodyIsCarried
<1> HIDE DEF payload
<1>5. /\ frame \in Seq(Byte) /\ Len(frame) = 6 + Len(body)
      /\ frame[1] = Len(body) % 256 /\ frame[2] = Len(body) \div 256
      /\ frame[3] = LengthCheck(Len(body))
      /\ frame[4] = topic % 256 /\ frame[5] = topic \div 256
      /\ \A i \in 1..Len(body) : frame[5 + i] = body[i]
      /\ frame[Len(frame)] = MessageCheck(DatasumBytes(body), DatasumU16(topic))
  <2>1. PICK data_len : data_len = Len(body)
    OBVIOUS
  <2>2. PICK p : p = payload
    OBVIOUS
  <2>3. /\ p \in Payload /\ topic \in Word /\ frame = packaging_msg(p, topic)
        /\ body = Carried(p).bytes /\ data_len = Size(Carried(p))
    BY <1>2, <1>3, <1>4, <2>1, <2>2
  <2>4. /\ frame \in Seq(Byte) /\ Len(frame) = 6 + Len(body)
        /\ frame[1] = data_len % 256 /\ frame[2] = data_len \div 256
        /\ frame[3] = LengthCheck(data_len)
        /\ frame[4] = topic % 256 /\ frame[5] = topic \div 256
        /\ \A i \in 1..Len(body) : frame[5 + i] = body[i]
        /\ frame[Len(frame)] = MessageCheck(DatasumBytes(body), DatasumU16(topic))
    BY <2>3, FrameLayout, SMTT(30)
  <2> QED
    BY <2>1, <2>4
<1>6. sync \in Seq(Byte) /\ Len(sync) = 2 /\ sync[1] = 255 /\ sync[2] = 254
  BY <1>2 DEF Byte
<1>7. PICK e : e = sync \o frame
  OBVIOUS
<1>8. Synced(id, data) = e
  BY <1>1, <1>2, <1>7 DEF Synced, payload
<1>9. /\ e \in Seq(Byte) /\ Len(e) = 2 + Len(frame)
      /\ \A i \in 1..2 : e[i] = sync[i]
      /\ \A i \in 1..Len(frame) : e[2 + i] = frame[i]
  <2>1. frame \in Seq(Byte) /\ sync \in Seq(Byte)
    BY <1>5, <1>6
  <2>2. /\ sync \o frame \in Seq(Byte) /\ Len(sync \o frame) = Len(sync) + Len(frame)
        /\ \A i \in 1..Len(sync) : (sync \o frame)[i] = sync[i]
        /\ \A i \in 1..Len(frame) : (sync \o frame)[Len(sync) + i] = frame[i]
    BY <2>1, ConcatElements
  <2> QED
    BY <1>6, <1>7, <2>1, <2>2
<1>10. Len(body) \in Nat
  BY <1>1
<1>11. e[1] = sync[1] /\ e[2] = sync[2]
  BY <1>9
<1>12. /\ e[2 + 1] = frame[1] /\ e[2 + 2] = frame[2] /\ e[2 + 3] = frame[3]
       /\ e[2 + 4] = frame[4] /\ e[2 + 5] = frame[5]
  <2>1. \A i \in 1..5 : i \in 1..Len(frame)
    BY <1>5, <1>10
  <2> QED
    BY <1>9, <2>1
<1>13. ASSUME NEW i \in 1..Len(body)
       PROVE  e[7 + i] = body[i]
  <2>1. 5 + i \in 1..Len(frame) /\ 2 + (5 + i) = 7 + i
    BY <1>5, <1>10
  <2>2. e[2 + (5 + i)] = frame[5 + i] /\ frame[5 + i] = body[i]
    BY <1>5, <1>9, <2>1
  <2> QED
    BY <2>1, <2>2
<1>14. e[8 + Len(body)] = frame[Len(frame)]
  <2>1. 2 + Len(frame) = 8 + Len(body) /\ Len(frame) \in 1..Len(frame)
    BY <1>5, <1>10
  <2>2. e[2 + Len(frame)] = frame[Len(frame)]
    BY <1>9, <2>1
  <2> QED
    BY <2>1, <2>2
<1>15. Len(e) = 8 + Len(body)
  BY <1>5, <1>9, <1>10
<1>16. IsEncoded(e, topic, body)
  BY <1>5, <1>6, <1>9, <1>11, <1>12, <1>13, <1>14, <1>15 DEF IsEncoded
<1> QED
  BY <1>1, <1>8, <1>16

----------------------------------------------------------------------------
\* What a verdict tells about the summands

\* A body that verifies against the checksum of another has the same sums, when the
\* body or the topic id is the same; and the checksum is determined by the two.
LEMMA VerdictFixesSums ==
  ASSUME NEW b \in Byte, NEW t \in Byte, NEW x \in Byte
  PROVE  /\ BodyVerifies(x, t, MessageCheck(b, t)) => x = b
         /\ BodyVerifies(b, x, MessageCheck(b, t)) => x = t
         /\ BodyVerifies(b, t, x) => x = MessageCheck(b, t)
<1>1. MessageCheck(b, t) = IF b + t <= 255 THEN 255 - (b + t) ELSE 511 - (b + t)
  BY DEF MessageCheck, U8, Byte
<1> QED
  BY <1>1 DEF BodyVerifies, Byte

\* Only one checksum byte verifies a length.
LEMMA VerdictFixesLength ==
  ASSUME NEW data_len \in Word, NEW x \in Byte, LengthVerifies(data_len, x)
  PROVE  x = LengthCheck(data_len)
<1>1. PICK d \in Byte : d = DatasumU16(data_len)
  BY DatasumIsByte
<1>2. LengthCheck(data_len) = 255 - d
  BY <1>1, ComplementIsByte DEF LengthCheck
<1> QED
  BY <1>1, <1>2 DEF LengthVerifies, Byte

\* One byte of a word changed always changes its datasum.
LEMMA OneByteChangesWord ==
  ASSUME NEW low \in Byte, NEW high \in Byte, NEW b \in Byte
  PROVE  /\ b # low => DatasumU16(FromLowHigh(b, high)) # DatasumU16(FromLowHigh(low, high))
         /\ b # high => DatasumU16(FromLowHigh(low, b)) # DatasumU16(FromLowHigh(low, high))
  BY WordFromBytes, AddingKeepsApart
=================================================================================
