------------------------- MODULE LargeSegmentsProofs -------------------------
(***************************************************************************)
(* For every number of producers, reservations, route entries, sizes and   *)
(* limits: a Large reservation has one keeper and the books of the cache   *)
(* balance, a block keeps its memory until its free is complete, and a      *)
(* foreign free leaves its mark.                                           *)
(***************************************************************************)
EXTENDS LargeSegments, Folds, FiniteSetTheorems,
        FunctionTheorems, SequenceTheorems, WellFoundedInduction, TLAPS

-----------------------------------------------------------------------------
(* Least numbers                                                           *)

LEMMA NotAboveIsLeast ==
    ASSUME NEW S \in SUBSET Nat, NEW x \in S, \A y \in S : ~ (y < x)
    PROVE  \A y \in S : x =< y
OBVIOUS

LEMMA HasLeast ==
    ASSUME NEW S \in SUBSET Nat, S # {}
    PROVE  \E x \in S : \A y \in S : x =< y
<1>1. PICK R : R = OpToRel(<, Nat)
  OBVIOUS
<1>2. IsWellFoundedOn(R, Nat)
  BY <1>1, NatLessThanWellFounded, Zenon
<1>3. PICK x \in S : \A y \in S : ~ (<<y, x>> \in R)
  BY <1>2, WFMin, Zenon
<1>4. \A y \in S : <<y, x>> \notin R => ~ (y < x)
  BY <1>1, Zenon DEF OpToRel
<1>5. \A y \in S : ~ (y < x)
  BY <1>3, <1>4, Zenon
<1>6. \A y \in S : x =< y
  BY <1>5, NotAboveIsLeast, Zenon
<1> QED
  BY <1>6, Zenon

-----------------------------------------------------------------------------
(* Sums over finite sets                                                   *)

(* What a nonempty family of subsets of a finite set has: induction over   *)
(* finite sets, as a lemma without an operator parameter.                  *)
LEMMA SmallestSet ==
    ASSUME NEW S, IsFiniteSet(S), NEW F \in SUBSET SUBSET S, F # {}
    PROVE  \E T \in F : \A U \in F : U \subseteq T => U = T
<1> DEFINE sizes == {Cardinality(T) : T \in F}
<1>1. \A T \in F : IsFiniteSet(T) /\ Cardinality(T) \in Nat
  BY FS_Subset, FS_CardinalityType
<1>2. sizes \subseteq Nat /\ sizes # {}
  BY <1>1
<1>3. \E n \in sizes : \A m \in sizes : n =< m
  <2> HIDE DEF sizes
  <2> QED
    BY <1>2, HasLeast
<1>4. PICK T \in F : \A U \in F : Cardinality(T) =< Cardinality(U)
  BY <1>3
<1>6. ASSUME NEW U \in F, U \subseteq T
      PROVE  U = T
  <2>1. /\ Cardinality(U) <= Cardinality(T)
        /\ Cardinality(U) = Cardinality(T) => T = U
    BY <1>1, <1>6, FS_Subset
  <2> QED
    BY <1>1, <1>4, <2>1
<1> QED
  BY <1>6

(* The recursion that MapThenSumSet sums by.                               *)
Pick(T) == CHOOSE x \in T : TRUE
Summand(h, f, T) ==
    IF T = {} THEN 0 ELSE h[Pick(T)].size + f[T \ {Pick(T)}]
IsTotal(h, S, f) == f = [T \in SUBSET S |-> Summand(h, f, T)]
TotalFn(h, S) == CHOOSE f : IsTotal(h, S, f)
Weighs(h, S) == \A x \in S : h[x].size \in Nat

SameSizes(g, h, S) == \A x \in S : g[x].size = h[x].size

LEMMA PickIs == ASSUME NEW T, T # {} PROVE Pick(T) \in T
BY DEF Pick

LEMMA TotalIs == ASSUME NEW h, NEW S PROVE Total(h, S) = TotalFn(h, S)[S]
BY Zenon DEF Total, TotalFn, IsTotal, Summand, MapThenSumSet, MapThenFoldSet,
             Pick

LEMMA TotalsAt ==
    ASSUME NEW h, NEW S, NEW f, IsTotal(h, S, f), NEW T \in SUBSET S
    PROVE  f[T] = Summand(h, f, T)
BY Zenon DEF IsTotal

LEMMA TotalsAgree ==
    ASSUME NEW S, IsFiniteSet(S), NEW U \in SUBSET S, NEW h, NEW g, NEW f, NEW e,
           IsTotal(h, S, f), IsTotal(g, U, e), SameSizes(g, h, U)
    PROVE  \A T \in SUBSET U : e[T] = f[T]
<1> DEFINE F == {T \in SUBSET U : e[T] # f[T]}
<1> SUFFICES ASSUME F # {} PROVE FALSE
  OBVIOUS
<1>1. IsFiniteSet(U)
  BY FS_Subset
<1>2. F \in SUBSET SUBSET U
  OBVIOUS
<1>3. PICK T \in F : \A V \in F : V \subseteq T => V = T
  <2> HIDE DEF F
  <2> QED
    BY <1>1, <1>2, SmallestSet
<1>4. e[T] = Summand(g, e, T) /\ f[T] = Summand(h, f, T)
  BY TotalsAt
<1>5. T # {}
  BY <1>4 DEF Summand
<1>6. Pick(T) \in T
  BY <1>5, PickIs
<1>7. e[T \ {Pick(T)}] = f[T \ {Pick(T)}]
  BY <1>3, <1>6
<1> QED
  BY <1>4, <1>6, <1>7 DEF Summand, SameSizes

LEMMA TotalExists ==
    ASSUME NEW S, IsFiniteSet(S), NEW h
    PROVE  IsTotal(h, S, TotalFn(h, S))
<1> DEFINE F == {T \in SUBSET S : ~ \E f : IsTotal(h, T, f)}
<1>1. F = {}
  <2> SUFFICES ASSUME F # {} PROVE FALSE
    OBVIOUS
  <2>1. F \in SUBSET SUBSET S
    OBVIOUS
  <2>2. PICK T \in F : \A V \in F : V \subseteq T => V = T
    <3> HIDE DEF F
    <3> QED
      BY <2>1, SmallestSet
  <2>3. IsFiniteSet(T)
    BY FS_Subset
  <2>4. ASSUME NEW V \in SUBSET T, V # T
        PROVE  IsTotal(h, V, TotalFn(h, V))
    <3>1. \E f : IsTotal(h, V, f)
      BY <2>2, <2>4
    <3> QED
      BY <3>1 DEF TotalFn
  <2> DEFINE part(V) == TotalFn(h, V)[V]
             whole == [V \in SUBSET T |->
                         IF V # T THEN part(V)
                         ELSE IF T = {} THEN 0
                              ELSE h[Pick(T)].size + part(T \ {Pick(T)})]
  <2>5. ASSUME NEW V \in SUBSET T
        PROVE  whole[V] = Summand(h, whole, V)
    <3>1. CASE V = {}
      <4>1. V # T => whole[V] = 0
        <5>1. SUFFICES ASSUME V # T PROVE TotalFn(h, V)[V] = 0
          OBVIOUS
        <5> QED
          BY <2>4, <3>1, <5>1, TotalsAt DEF Summand
      <4> QED
        BY <3>1, <4>1 DEF Summand
    <3>2. CASE V # {}
      <4>1. Pick(V) \in V
        BY <3>2, PickIs
      <4> DEFINE W == V \ {Pick(V)}
      <4>2. W \in SUBSET V /\ W # T /\ W # V /\ IsFiniteSet(V)
        BY <2>3, <4>1, FS_Subset
      <4>3. whole[W] = part(W)
        BY <4>2
      <4>4. CASE V = T
        BY <3>2, <4>3, <4>4 DEF Summand
      <4>5. CASE V # T
        <5>1. whole[V] = TotalFn(h, V)[V]
          BY <4>5
        <5>2. IsTotal(h, V, TotalFn(h, V)) /\ IsTotal(h, W, TotalFn(h, W))
          BY <2>4, <4>2, <4>5
        <5>3. TotalFn(h, V)[V] = Summand(h, TotalFn(h, V), V)
          BY <5>2, TotalsAt
        <5>4. \A X \in SUBSET W : TotalFn(h, W)[X] = TotalFn(h, V)[X]
          <6>1. SameSizes(h, h, W)
            BY DEF SameSizes
          <6> HIDE DEF W
          <6> QED
            BY <4>2, <5>2, <6>1, TotalsAgree
        <5>5. TotalFn(h, V)[W] = part(W)
          BY <5>4
        <5> HIDE DEF whole, part
        <5> QED
          BY <3>2, <4>3, <5>1, <5>3, <5>5 DEF Summand
      <4> QED
        BY <4>4, <4>5
    <3> QED
      BY <3>1, <3>2
  <2>6. whole = [V \in SUBSET T |-> whole[V]]
    OBVIOUS
  <2>7. IsTotal(h, T, whole)
    <3> HIDE DEF whole
    <3> QED
      BY <2>5, <2>6, Zenon DEF IsTotal
  <2> QED
    BY <2>7
<1>2. \E f : IsTotal(h, S, f)
  BY <1>1
<1> QED
  BY <1>2 DEF TotalFn

LEMMA TotalsTake ==
    ASSUME NEW S, IsFiniteSet(S), NEW h, Weighs(h, S), NEW f, IsTotal(h, S, f)
    PROVE  \A T \in SUBSET S :
             /\ f[T] \in Nat
             /\ \A x \in T : f[T] = h[x].size + f[T \ {x}]
<1> DEFINE F == {T \in SUBSET S :
                   ~ (/\ f[T] \in Nat
                      /\ \A x \in T : f[T] = h[x].size + f[T \ {x}])}
<1> SUFFICES ASSUME F # {} PROVE FALSE
  OBVIOUS
<1>1. F \in SUBSET SUBSET S
  OBVIOUS
<1>2. PICK T \in F : \A V \in F : V \subseteq T => V = T
  <2> HIDE DEF F
  <2> QED
    BY <1>1, SmallestSet
<1>3. ASSUME NEW V \in SUBSET T, V # T
      PROVE  f[V] \in Nat /\ \A x \in V : f[V] = h[x].size + f[V \ {x}]
  BY <1>2, <1>3
<1>4. f[T] = Summand(h, f, T)
  BY TotalsAt
<1>5. T # {}
  BY <1>2, <1>4 DEF Summand
<1>6. Pick(T) \in T
  BY <1>5, PickIs
<1> DEFINE p == Pick(T)
<1>7. f[T] = h[p].size + f[T \ {p}]
  BY <1>4, <1>5 DEF Summand
<1> HIDE DEF p
<1>8. f[T] \in Nat
  BY <1>3, <1>6, <1>7 DEF Weighs, p
<1>9. ASSUME NEW x \in T, x # p
      PROVE  f[T] = h[x].size + f[T \ {x}]
  <2>1. p \in T
    BY <1>6 DEF p
  <2>2. f[T \ {p}] = h[x].size + f[(T \ {p}) \ {x}]
    BY <1>3, <1>9, <2>1
  <2>3. f[T \ {x}] = h[p].size + f[(T \ {x}) \ {p}]
    BY <1>3, <1>9, <2>1
  <2>4. f[T \ {x}] = h[p].size + f[(T \ {p}) \ {x}]
    <3>1. (T \ {x}) \ {p} = (T \ {p}) \ {x}
      OBVIOUS
    <3> QED
      BY <2>3, <3>1
  <2>5. f[(T \ {p}) \ {x}] \in Nat /\ h[x].size \in Nat /\ h[p].size \in Nat
    BY <1>3, <2>1 DEF Weighs
  <2> QED
    BY <1>7, <2>2, <2>4, <2>5
<1> QED
  BY <1>2, <1>7, <1>8, <1>9

(* What the proofs below use: a sum is a number, loses what is taken out,  *)
(* splits, and depends on the weights of its own members alone.            *)
LEMMA TotalEmpty ==
    ASSUME NEW h
    PROVE  Total(h, {}) = 0
<1>1. IsTotal(h, {}, TotalFn(h, {}))
  BY TotalExists, FS_EmptySet
<1>2. TotalFn(h, {})[{}] = Summand(h, TotalFn(h, {}), {})
  BY <1>1, TotalsAt
<1> QED
  BY <1>2, TotalIs DEF Summand

LEMMA TotalNat ==
    ASSUME NEW S, IsFiniteSet(S), NEW h, Weighs(h, S)
    PROVE  Total(h, S) \in Nat
BY TotalExists, TotalsTake, TotalIs

LEMMA TotalSame ==
    ASSUME NEW S, IsFiniteSet(S), NEW h, NEW g,
           SameSizes(g, h, S)
    PROVE  Total(g, S) = Total(h, S)
<1>1. IsTotal(h, S, TotalFn(h, S)) /\ IsTotal(g, S, TotalFn(g, S))
  BY TotalExists
<1>2. \A T \in SUBSET S : TotalFn(g, S)[T] = TotalFn(h, S)[T]
  BY <1>1, TotalsAgree
<1> QED
  BY <1>2, TotalIs

LEMMA TotalWithin ==
    ASSUME NEW S, IsFiniteSet(S), NEW T \in SUBSET S, NEW h
    PROVE  Total(h, T) = TotalFn(h, S)[T]
<1>1. IsTotal(h, S, TotalFn(h, S)) /\ IsTotal(h, T, TotalFn(h, T))
  BY TotalExists, FS_Subset
<1>2. SameSizes(h, h, T)
  BY DEF SameSizes
<1>3. \A V \in SUBSET T : TotalFn(h, T)[V] = TotalFn(h, S)[V]
  BY <1>1, <1>2, TotalsAgree
<1> QED
  BY <1>3, TotalIs

LEMMA TotalTake ==
    ASSUME NEW S, IsFiniteSet(S), NEW h, Weighs(h, S), NEW x \in S
    PROVE  Total(h, S) = h[x].size + Total(h, S \ {x})
<1>1. S \ {x} \in SUBSET S /\ S \in SUBSET S
  OBVIOUS
<1>2. TotalFn(h, S)[S] = h[x].size + TotalFn(h, S)[S \ {x}]
  BY <1>1, TotalExists, TotalsTake
<1> QED
  BY <1>1, <1>2, TotalWithin

LEMMA TotalSplit ==
    ASSUME NEW S, IsFiniteSet(S), NEW h, Weighs(h, S), NEW A \in SUBSET S
    PROVE  Total(h, S) = Total(h, A) + Total(h, S \ A)
<1> DEFINE G == {T \in SUBSET A :
                   Total(h, (S \ A) \cup T) # Total(h, T) + Total(h, S \ A)}
<1>1. G = {}
  <2> SUFFICES ASSUME G # {} PROVE FALSE
    OBVIOUS
  <2>1. IsFiniteSet(A) /\ G \in SUBSET SUBSET A
    BY FS_Subset
  <2>2. PICK T \in G : \A V \in G : V \subseteq T => V = T
    <3> HIDE DEF G
    <3> QED
      BY <2>1, SmallestSet
  <2>3. IsFiniteSet(S \ A) /\ Weighs(h, S \ A) /\ S \ A \in SUBSET S
    BY FS_Subset DEF Weighs
  <2>4. T # {}
    <3> SUFFICES ASSUME T = {} PROVE FALSE
      OBVIOUS
    <3>1. (S \ A) \cup T = S \ A
      OBVIOUS
    <3>2. Total(h, S \ A) \in Nat
      BY <2>3, TotalNat
    <3> QED
      BY <2>2, <3>1, <3>2, TotalEmpty
  <2>5. PICK x \in T : TRUE
    BY <2>4
  <2> DEFINE V == T \ {x}
             R == (S \ A) \cup T
  <2>6. V \in SUBSET A /\ V # T /\ V \subseteq T
    BY <2>2, <2>5
  <2>7. Total(h, (S \ A) \cup V) = Total(h, V) + Total(h, S \ A)
    BY <2>2, <2>6
  <2>8. /\ R \ {x} = (S \ A) \cup V
        /\ R \in SUBSET S /\ T \in SUBSET S /\ V \in SUBSET S
    BY <2>2
  <2>9. /\ IsFiniteSet(R) /\ IsFiniteSet(T) /\ IsFiniteSet(V)
        /\ Weighs(h, R) /\ Weighs(h, T) /\ Weighs(h, V)
    BY <2>8, FS_Subset DEF Weighs
  <2>10. /\ Total(h, R) = h[x].size + Total(h, (S \ A) \cup V)
         /\ Total(h, T) = h[x].size + Total(h, V)
    <3>1. x \in R /\ x \in T
      BY <2>5
    <3>2. /\ Total(h, R) = h[x].size + Total(h, R \ {x})
          /\ Total(h, T) = h[x].size + Total(h, T \ {x})
      <4> HIDE DEF R
      <4> QED
        BY <2>9, <3>1, TotalTake
    <3> QED
      BY <2>8, <3>2
  <2>11. /\ Total(h, V) \in Nat /\ Total(h, S \ A) \in Nat
         /\ h[x].size \in Nat
    BY <2>3, <2>8, <2>9, TotalNat DEF Weighs
  <2>12. Total(h, R) # Total(h, T) + Total(h, S \ A)
    BY <2>2
  <2> HIDE DEF V, R
  <2> QED
    BY <2>7, <2>10, <2>11, <2>12
<1>2. Total(h, (S \ A) \cup A) = Total(h, A) + Total(h, S \ A)
  BY <1>1
<1>3. (S \ A) \cup A = S
  OBVIOUS
<1> QED
  BY <1>2, <1>3

-----------------------------------------------------------------------------
(* The cache as a sequence                                                 *)

In(c, b) == \E i \in 1 .. Len(c) : c[i] = b

(* No base twice.                                                          *)
Once(c) == \A i, j \in 1 .. Len(c) : c[i] = c[j] => i = j

LEMMA EvictIs ==
    ASSUME NEW c \in Seq(Bases), NEW k \in 0 .. Len(c)
    PROVE  /\ Evict(c, k) \in Seq(Bases)
           /\ Len(Evict(c, k)) = Len(c) - k
           /\ \A i \in 1 .. Len(c) - k : Evict(c, k)[i] = c[i + k]
<1> DEFINE m == k + 1
           n == Len(c)
           e == Evict(c, k)
<1>1. n \in Nat /\ m \in Int /\ n \in Int /\ \A i \in m .. n : c[i] \in Bases
  BY LenProperties
<1>2. e = SubSeq(c, m, n)
  BY DEF Evict
<1> HIDE DEF e
<1>3. /\ e \in Seq(Bases)
      /\ Len(e) = IF m =< n THEN n - m + 1 ELSE 0
      /\ \A i \in 1 .. n - m + 1 : e[i] = c[m + i - 1]
  <2> HIDE DEF m, n
  <2> QED
    BY <1>1, <1>2, SubSeqProperties
<1>4. n - m + 1 = n - k /\ \A i \in Int : m + i - 1 = i + k
  BY <1>1
<1>5. Len(e) = n - k
  BY <1>1, <1>3
<1>6. ASSUME NEW i \in 1 .. n - k
      PROVE  e[i] = c[i + k]
  <2>1. i \in 1 .. n - m + 1 /\ m + i - 1 = i + k
    BY <1>1, <1>4
  <2>2. e[i] = c[m + i - 1]
    <3> HIDE DEF m, n
    <3> QED
      BY <1>3, <2>1
  <2> QED
    BY <2>1, <2>2
<1> QED
  BY <1>3, <1>5, <1>6 DEF e

(* What is evicted goes, the rest stays, and stays without repetition.     *)
LEMMA EvictSplits ==
    ASSUME NEW c \in Seq(Bases), NEW k \in 0 .. Len(c), Once(c)
    PROVE  /\ Evict(c, k) \in Seq(Bases) /\ Once(Evict(c, k))
           /\ \A b \in Bases : In(Evict(c, k), b)
                                 <=> In(c, b) /\ b \notin Evicted(c, k)
           /\ \A b \in Evicted(c, k) : In(c, b) /\ b \in Bases
<1> DEFINE e == Evict(c, k)
<1>1. /\ e \in Seq(Bases) /\ Len(e) = Len(c) - k /\ Len(c) \in Nat
      /\ \A i \in 1 .. Len(c) - k : e[i] = c[i + k]
  BY EvictIs, LenProperties
<1> HIDE DEF e
<1>2. Once(e)
  <2> SUFFICES ASSUME NEW i \in 1 .. Len(e), NEW j \in 1 .. Len(e),
                      e[i] = e[j]
               PROVE  i = j
    BY DEF Once
  <2>2. e[i] = e[j]
    OBVIOUS
  <2>3. /\ i + k \in 1 .. Len(c) /\ j + k \in 1 .. Len(c)
        /\ c[i + k] = c[j + k]
    BY <1>1, <2>2
  <2>4. i + k = j + k
    BY <2>3 DEF Once
  <2> QED
    BY <1>1, <2>4
<1>3. ASSUME NEW b \in Bases, In(e, b)
      PROVE  In(c, b) /\ b \notin Evicted(c, k)
  <2>1. PICK i \in 1 .. Len(e) : e[i] = b
    BY <1>3 DEF In
  <2>2. i + k \in 1 .. Len(c) /\ c[i + k] = b
    BY <1>1, <2>1
  <2>3. ASSUME NEW j \in 1 .. k, c[j] = b
        PROVE  FALSE
    <3>1. j \in 1 .. Len(c)
      BY <1>1, <2>3
    <3>2. j = i + k
      BY <2>2, <2>3, <3>1 DEF Once
    <3> QED
      BY <1>1, <2>1, <3>2
  <2> QED
    BY <2>2, <2>3 DEF In, Evicted
<1>4. ASSUME NEW b \in Bases, In(c, b), b \notin Evicted(c, k)
      PROVE  In(e, b)
  <2>1. PICK i \in 1 .. Len(c) : c[i] = b
    BY <1>4 DEF In
  <2>2. i \notin 1 .. k
    BY <1>4, <2>1 DEF Evicted
  <2>3. i - k \in 1 .. Len(e) /\ (i - k) + k = i
    BY <1>1, <2>2
  <2>4. e[i - k] = b
    BY <1>1, <2>1, <2>3
  <2> QED
    BY <2>3, <2>4 DEF In
<1>5. ASSUME NEW b \in Evicted(c, k)
      PROVE  In(c, b) /\ b \in Bases
  <2>1. PICK i \in 1 .. k : c[i] = b
    BY DEF Evicted
  <2>2. i \in 1 .. Len(c)
    BY <1>1, <2>1
  <2> QED
    BY <2>1, <2>2, ElementOfSeq DEF In
<1> QED
  BY <1>1, <1>2, <1>3, <1>4, <1>5 DEF e

LEMMA EvictTwice ==
    ASSUME NEW c \in Seq(Bases), NEW d \in 0 .. Len(c),
           NEW k \in 0 .. Len(Evict(c, d))
    PROVE  /\ d + k \in 0 .. Len(c)
           /\ \A b : b \in Evicted(c, d + k)
                       <=> b \in Evicted(c, d) \/ b \in Evicted(Evict(c, d), k)
<1> DEFINE e == Evict(c, d)
<1>1. /\ Len(e) = Len(c) - d /\ Len(c) \in Nat
      /\ \A i \in 1 .. Len(c) - d : e[i] = c[i + d]
  BY EvictIs, LenProperties
<1>2. k \in 0 .. Len(e)
  OBVIOUS
<1> HIDE DEF e
<1>3. ASSUME NEW b, b \in Evicted(c, d + k), b \notin Evicted(c, d)
      PROVE  b \in Evicted(e, k)
  <2>1. PICK i \in 1 .. d + k : c[i] = b
    BY <1>3 DEF Evicted
  <2>2. i \notin 1 .. d
    BY <1>3, <2>1 DEF Evicted
  <2>3. i - d \in 1 .. k /\ i - d \in 1 .. Len(c) - d /\ (i - d) + d = i
    BY <1>1, <1>2, <2>2
  <2>4. e[i - d] = b
    BY <1>1, <2>1, <2>3
  <2> QED
    BY <2>3, <2>4 DEF Evicted
<1>4. ASSUME NEW b, b \in Evicted(e, k)
      PROVE  b \in Evicted(c, d + k)
  <2>1. PICK i \in 1 .. k : e[i] = b
    BY <1>4 DEF Evicted
  <2>2. i + d \in 1 .. d + k /\ c[i + d] = b
    BY <1>1, <1>2, <2>1
  <2> QED
    BY <2>2 DEF Evicted
<1>5. ASSUME NEW b, b \in Evicted(c, d)
      PROVE  b \in Evicted(c, d + k)
  <2>1. PICK i \in 1 .. d : c[i] = b
    BY <1>5 DEF Evicted
  <2>2. i \in 1 .. d + k
    BY <1>1, <1>2, <2>1
  <2> QED
    BY <2>1, <2>2 DEF Evicted
<1> QED
  BY <1>1, <1>2, <1>3, <1>4, <1>5 DEF e

LEMMA AppendOnce ==
    ASSUME NEW c \in Seq(Bases), NEW b \in Bases, Once(c), ~ In(c, b)
    PROVE  /\ Append(c, b) \in Seq(Bases) /\ Once(Append(c, b))
           /\ \A x \in Bases : In(Append(c, b), x) <=> In(c, x) \/ x = b
<1> DEFINE a == Append(c, b)
<1>1. /\ a \in Seq(Bases) /\ Len(a) = Len(c) + 1 /\ Len(c) \in Nat
      /\ \A i \in 1 .. Len(c) : a[i] = c[i]
      /\ a[Len(c) + 1] = b
  BY AppendProperties, LenProperties
<1> HIDE DEF a
<1>2. \A i \in 1 .. Len(a) : i \in 1 .. Len(c) \/ i = Len(c) + 1
  BY <1>1
<1>3. \A i \in 1 .. Len(c) : i \in 1 .. Len(a) /\ a[i] # b
  BY <1>1 DEF In
<1>4. Len(c) + 1 \in 1 .. Len(a)
  BY <1>1
<1>5. Once(a)
  <2> SUFFICES ASSUME NEW i \in 1 .. Len(a), NEW j \in 1 .. Len(a),
                      a[i] = a[j]
               PROVE  i = j
    BY DEF Once
  <2>2. a[i] = a[j]
    OBVIOUS
  <2>3. CASE i \in 1 .. Len(c) /\ j \in 1 .. Len(c)
    BY <1>1, <2>2, <2>3 DEF Once
  <2>4. CASE i = Len(c) + 1 \/ j = Len(c) + 1
    BY <1>1, <1>2, <1>3, <2>2, <2>4
  <2> QED
    BY <1>2, <2>3, <2>4
<1>6. \A x \in Bases : In(a, x) <=> In(c, x) \/ x = b
  BY <1>1, <1>2, <1>3, <1>4 DEF In
<1> QED
  BY <1>1, <1>5, <1>6 DEF a

LEMMA RemoveOnce ==
    ASSUME NEW c \in Seq(Bases), NEW i \in 1 .. Len(c), Once(c)
    PROVE  /\ RemoveAt(c, i) \in Seq(Bases) /\ Once(RemoveAt(c, i))
           /\ \A x \in Bases : In(RemoveAt(c, i), x) <=> In(c, x) /\ x # c[i]
           /\ Len(RemoveAt(c, i)) <= Len(c)
<1> DEFINE n == Len(c)
           l == SubSeq(c, 1, i - 1)
           m == i + 1
           r == SubSeq(c, m, n)
           q == RemoveAt(c, i)
<1>1. /\ n \in Nat /\ i \in Nat /\ 1 =< i /\ i =< n
      /\ \A k \in 1 .. n : c[k] \in Bases
  BY LenProperties, ElementOfSeq
<1>2. /\ l \in Seq(Bases) /\ Len(l) = i - 1
      /\ \A k \in 1 .. i - 1 : l[k] = c[k]
  <2> DEFINE h == i - 1
  <2>1. 1 \in Int /\ h \in Int /\ \A k \in 1 .. h : c[k] \in Bases
    BY <1>1
  <2>2. l = SubSeq(c, 1, h)
    OBVIOUS
  <2> HIDE DEF h, l
  <2>3. /\ l \in Seq(Bases)
        /\ Len(l) = IF 1 =< h THEN h - 1 + 1 ELSE 0
        /\ \A k \in 1 .. h - 1 + 1 : l[k] = c[1 + k - 1]
    BY <2>1, <2>2, SubSeqProperties
  <2>4. h \in Nat /\ h - 1 + 1 = h /\ \A k \in Int : 1 + k - 1 = k
    BY <1>1 DEF h
  <2>5. Len(l) = h
    BY <2>3, <2>4
  <2>6. \A k \in 1 .. h : l[k] = c[k]
    BY <2>3, <2>4
  <2> QED
    BY <2>3, <2>5, <2>6 DEF h
<1>3. /\ r \in Seq(Bases) /\ Len(r) = n - i
      /\ \A k \in 1 .. n - i : r[k] = c[k + i]
  <2>1. m \in Int /\ n \in Int /\ \A k \in m .. n : c[k] \in Bases
    BY <1>1
  <2> HIDE DEF m, n, r
  <2>2. /\ r \in Seq(Bases)
        /\ Len(r) = IF m =< n THEN n - m + 1 ELSE 0
        /\ \A k \in 1 .. n - m + 1 : r[k] = c[m + k - 1]
    BY <2>1, SubSeqProperties DEF r
  <2>3. n - m + 1 = n - i /\ \A k \in Int : m + k - 1 = k + i
    BY <1>1 DEF m
  <2>4. Len(r) = n - i
    BY <1>1, <2>2 DEF m
  <2> QED
    BY <2>2, <2>3, <2>4
<1>4. q = l \o r
  BY DEF RemoveAt
<1> HIDE DEF l, r, q
<1>5. /\ q \in Seq(Bases) /\ Len(q) = (i - 1) + (n - i)
      /\ \A k \in 1 .. (i - 1) + (n - i) :
           q[k] = IF k =< i - 1 THEN l[k] ELSE r[k - (i - 1)]
  <2>1. /\ l \o r \in Seq(Bases) /\ Len(l \o r) = Len(l) + Len(r)
        /\ \A k \in 1 .. Len(l) + Len(r) :
             (l \o r)[k] = IF k =< Len(l) THEN l[k] ELSE r[k - Len(l)]
    BY <1>2, <1>3, ConcatProperties
  <2> HIDE DEF n
  <2> QED
    BY <1>2, <1>3, <1>4, <2>1, Zenon
<1> DEFINE from(k) == IF k < i THEN k ELSE k + 1
<1> HIDE DEF n
<1>6. Len(q) = n - 1
  BY <1>1, <1>5
<1>7. ASSUME NEW k \in 1 .. n - 1
      PROVE  from(k) \in 1 .. n /\ from(k) # i /\ q[k] = c[from(k)]
  <2>1. CASE k < i
    BY <1>1, <1>2, <1>5, <2>1
  <2>2. CASE ~ (k < i)
    <3>1. k - (i - 1) \in 1 .. n - i /\ (k - (i - 1)) + i = k + 1
      BY <1>1, <2>2
    <3>2. q[k] = r[k - (i - 1)]
      BY <1>1, <1>5, <2>2
    <3> QED
      BY <1>1, <1>3, <2>2, <3>1, <3>2
  <2> QED
    BY <2>1, <2>2
<1>8. Once(q)
  <2> SUFFICES ASSUME NEW j \in 1 .. Len(q), NEW k \in 1 .. Len(q),
                      q[j] = q[k]
               PROVE  j = k
    BY DEF Once
  <2>2. q[j] = q[k]
    OBVIOUS
  <2>3. c[from(j)] = c[from(k)] /\ from(j) \in 1 .. n /\ from(k) \in 1 .. n
    BY <1>6, <1>7, <2>2
  <2>4. from(j) = from(k)
    <3> HIDE DEF from
    <3> QED
      BY <2>3 DEF Once, n
  <2> QED
    BY <1>1, <1>6, <2>4
<1>9. ASSUME NEW x \in Bases, In(q, x)
      PROVE  In(c, x) /\ x # c[i]
  <2>1. PICK k \in 1 .. Len(q) : q[k] = x
    BY <1>9 DEF In
  <2>2. from(k) \in 1 .. n /\ from(k) # i /\ x = c[from(k)]
    BY <1>6, <1>7, <2>1
  <2> HIDE DEF from
  <2> QED
    BY <2>2 DEF In, Once, n
<1>10. ASSUME NEW x \in Bases, In(c, x), x # c[i]
       PROVE  In(q, x)
  <2>1. PICK k \in 1 .. n : c[k] = x
    BY <1>10 DEF In, n
  <2>2. k # i
    BY <1>10, <2>1
  <2> DEFINE j == IF k < i THEN k ELSE k - 1
  <2>3. j \in 1 .. n - 1 /\ from(j) = k
    BY <1>1, <2>2
  <2>4. q[j] = x
    BY <1>7, <2>1, <2>3
  <2> HIDE DEF j
  <2> QED
    BY <1>6, <2>3, <2>4 DEF In
<1>11. Len(q) <= Len(c)
  <2> HIDE DEF n
  <2>1. Len(q) <= n
    BY <1>1, <1>6
  <2> QED
    BY <2>1 DEF n
<1>12. \A x \in Bases : In(q, x) <=> In(c, x) /\ x # c[i]
  <2>1. TAKE x \in Bases
  <2> QED
    BY <1>9, <1>10
<1> QED
  BY <1>5, <1>8, <1>11, <1>12, Zenon DEF q
-----------------------------------------------------------------------------
(* The invariant                                                           *)

Header == [phase : Phases, gen : 0 .. MAX_LARGE_GENERATION,
           size : Sizes \cup {0}, biased : BOOLEAN]

RouteWord == [phase : {"Unused", "Live", "Pending", "Consuming"},
              root : Bases \cup {None}, linked : BOOLEAN]

(* The typing, but for the bytes of the cache, which are a sum.            *)
LType ==
    /\ hdr \in [Bases -> Header]
    /\ entry \in [Entries -> RouteWord]
    /\ slots \in [TableSlots -> Bases \cup {None}]
    /\ routes \in [TableSlots -> Entries \cup {None}]
    /\ count \in 0 .. MAX_SEGMENTS
    /\ free_list \in Seq(TableSlots)
    /\ cache \in Seq(Bases)
    /\ fate \in [Bases -> {"none", "client", "moving", "sent"}]
    /\ issued \in [Bases -> 0 .. MAX_LARGE_GENERATION]
    /\ pc \in [Producers -> {"idle", "lookup", "publish"}]
    /\ obj \in [Producers -> Bases \cup {None}]
    /\ pin \in [Producers -> Entries \cup {None}]
    /\ want \in Requests \cup {None}
    /\ opc \in {"alloc", "slow"} => want \in Requests

(* The slots never used and those on the free list are empty.              *)
FreeInv ==
    /\ \A i \in TableSlots : slots[i] # None => i < count
    /\ \A k \in 1 .. Len(free_list) :
         free_list[k] < count /\ slots[free_list[k]] = None
    /\ \A j, k \in 1 .. Len(free_list) :
         free_list[j] = free_list[k] => j = k

(* A base is in one slot; slot and route belong together; what is in the   *)
(* directory is the route of a slot and carries its base.                  *)
TableInv ==
    /\ FreeInv
    /\ \A i \in TableSlots : slots[i] = None <=> routes[i] = None
    /\ \A i, j \in TableSlots : slots[i] = slots[j] /\ slots[i] # None => i = j
    /\ \A i, j \in TableSlots : routes[i] = routes[j] /\ routes[i] # None => i = j
    /\ \A e \in Entries : entry[e].linked => \E i \in TableSlots : routes[i] = e
    /\ \A i \in TableSlots : slots[i] # None =>
         entry[routes[i]].linked /\ entry[routes[i]].root = slots[i]

Registered(b) == \E i \in TableSlots : slots[i] = b

(* The header says who keeps the reservation.                              *)
KeeperInv ==
    /\ ~ fatal
    /\ Once(cache)
    /\ \A b \in Bases : /\ hdr[b].phase = "Live" <=> Registered(b)
                        /\ hdr[b].phase = "Cached" <=> In(cache, b)

(* A registered block is out, in the generation it was handed out with,    *)
(* and its route is Pending exactly when a producer has sent it home.      *)
FateInv ==
    /\ \A b \in Bases : fate[b] # "none" <=> Registered(b)
    /\ \A i \in TableSlots : slots[i] # None =>
         /\ hdr[slots[i]].gen = issued[slots[i]]
         /\ entry[routes[i]].phase
              = IF fate[slots[i]] = "sent" THEN "Pending" ELSE "Live"

(* A block is freed by one producer, who pins the route of that block.     *)
ProducerInv ==
    /\ \A p \in Producers : pc[p] # "idle" =>
         obj[p] \in Bases /\ fate[obj[p]] = "moving"
    /\ \A p, q \in Producers :
         pc[p] # "idle" /\ pc[q] # "idle" /\ obj[p] = obj[q] => p = q
    /\ \A p \in Producers : pc[p] = "publish" =>
         /\ pin[p] \in Entries
         /\ entry[pin[p]].linked /\ entry[pin[p]].root = obj[p]

IInv == LType /\ TableInv /\ KeeperInv /\ FateInv /\ ProducerInv

-----------------------------------------------------------------------------
(* The table                                                               *)

LEMMA SlotOfIs ==
    ASSUME TableInv, NEW b \in Bases, NEW i \in TableSlots, slots[i] = b
    PROVE  SlotOf(b) = i
BY LargeSegmentsAssumption DEF TableInv, SlotOf

LEMMA FreeListPops ==
    ASSUME LType, FreeInv, free_list # <<>>
    PROVE  LET n == Len(free_list)
               i == free_list[n]
               rest == SubSeq(free_list, 1, n - 1)
           IN  /\ i \in TableSlots /\ i < count /\ slots[i] = None
               /\ rest \in Seq(TableSlots)
               /\ \A k \in 1 .. Len(rest) :
                    rest[k] < count /\ slots[rest[k]] = None /\ rest[k] # i
               /\ \A j, k \in 1 .. Len(rest) : rest[j] = rest[k] => j = k
<1> DEFINE n == Len(free_list)
           h == n - 1
           i == free_list[n]
           rest == SubSeq(free_list, 1, h)
<1>1. /\ n \in Nat \ {0} /\ h \in Nat /\ h + 1 = n /\ n \in 1 .. n
      /\ \A k \in 1 .. n : free_list[k] \in TableSlots
  BY LenProperties, ElementOfSeq, EmptySeq DEF LType
<1>2. i \in TableSlots /\ i < count /\ slots[i] = None
  BY <1>1 DEF FreeInv
<1>3. /\ rest \in Seq(TableSlots) /\ Len(rest) = h
      /\ \A k \in 1 .. h : rest[k] = free_list[k]
  <2>1. 1 \in Int /\ h \in Int /\ \A k \in 1 .. h : free_list[k] \in TableSlots
    BY <1>1
  <2> HIDE DEF h
  <2>2. /\ rest \in Seq(TableSlots)
        /\ Len(rest) = IF 1 =< h THEN h - 1 + 1 ELSE 0
        /\ \A k \in 1 .. h - 1 + 1 : rest[k] = free_list[1 + k - 1]
    BY <2>1, SubSeqProperties
  <2> HIDE DEF rest
  <2>3. h - 1 + 1 = h /\ \A k \in Int : 1 + k - 1 = k
    BY <1>1
  <2>4. Len(rest) = h
    BY <1>1, <2>2, <2>3
  <2>5. \A k \in 1 .. h : rest[k] = free_list[k]
    BY <2>2, <2>3
  <2> QED
    BY <2>2, <2>4, <2>5
<1> HIDE DEF rest
<1>4. ASSUME NEW k \in 1 .. Len(rest)
      PROVE  /\ k \in 1 .. n /\ k # n /\ rest[k] = free_list[k]
             /\ rest[k] < count /\ slots[rest[k]] = None /\ rest[k] # i
  <2>1. k \in 1 .. h
    BY <1>3
  <2>2. k \in 1 .. n /\ k # n
    <3> HIDE DEF n, h
    <3> QED
      BY <1>1, <2>1
  <2>3. rest[k] = free_list[k]
    BY <1>3, <2>1
  <2> QED
    BY <1>1, <2>2, <2>3 DEF FreeInv
<1>5. ASSUME NEW j \in 1 .. Len(rest), NEW k \in 1 .. Len(rest),
             rest[j] = rest[k]
      PROVE  j = k
  <2>1. /\ j \in 1 .. n /\ k \in 1 .. n
        /\ free_list[j] = free_list[k]
    BY <1>4, <1>5
  <2> QED
    BY <2>1 DEF FreeInv
<1> QED
  BY <1>2, <1>3, <1>4, <1>5 DEF rest

(* A registration fills an empty slot and uses an entry that nobody can    *)
(* reach.                                                                  *)
LEMMA RegisterIs ==
    ASSUME LType, TableInv, NEW b \in Bases, CanRegister, Register(b)
    PROVE  \E i \in TableSlots, e \in Entries :
             /\ slots[i] = None /\ FreeEntry(e)
             /\ slots' = [slots EXCEPT ![i] = b]
             /\ routes' = [routes EXCEPT ![i] = e]
             /\ entry' = [entry EXCEPT ![e] = NewEntry(e, b)]
             /\ count' \in 0 .. MAX_SEGMENTS
             /\ free_list' \in Seq(TableSlots)
             /\ FreeInv'
<1> USE LargeSegmentsAssumption
<1>1. CASE free_list # <<>>
  <2> DEFINE n == Len(free_list)
             i == free_list[n]
             rest == SubSeq(free_list, 1, n - 1)
  <2>1. /\ i \in TableSlots /\ i < count /\ slots[i] = None
        /\ rest \in Seq(TableSlots)
        /\ \A k \in 1 .. Len(rest) :
             rest[k] < count /\ slots[rest[k]] = None /\ rest[k] # i
        /\ \A j, k \in 1 .. Len(rest) : rest[j] = rest[k] => j = k
    BY <1>1, FreeListPops DEF TableInv
  <2>2. PICK e \in Entries :
          /\ FreeEntry(e)
          /\ entry' = [entry EXCEPT ![e] = NewEntry(e, b)]
          /\ routes' = [routes EXCEPT ![i] = e]
          /\ slots' = [slots EXCEPT ![i] = b]
          /\ count' = count
          /\ free_list' = rest
    BY <1>1 DEF Register
  <2> HIDE DEF i, rest
  <2>3. \A k \in 1 .. Len(rest) : rest[k] \in TableSlots
    BY <2>1, ElementOfSeq
  <2>4. FreeInv'
    <3>1. \A k \in TableSlots : slots'[k] # None => k < count'
      BY <2>1, <2>2 DEF LType, TableInv, FreeInv
    <3>2. \A k \in 1 .. Len(free_list') :
            free_list'[k] < count' /\ slots'[free_list'[k]] = None
      BY <2>1, <2>2, <2>3 DEF LType
    <3>3. \A j, k \in 1 .. Len(free_list') :
            free_list'[j] = free_list'[k] => j = k
      BY <2>1, <2>2
    <3> QED
      BY <3>1, <3>2, <3>3 DEF FreeInv
  <2> QED
    BY <2>1, <2>2, <2>4 DEF LType
<1>2. CASE free_list = <<>>
  <2>1. count \in TableSlots /\ count + 1 \in 0 .. MAX_SEGMENTS
    BY <1>2 DEF LType, CanRegister, TableSlots
  <2>2. slots[count] = None
    BY <2>1 DEF TableInv, FreeInv, LType
  <2>3. PICK e \in Entries :
          /\ FreeEntry(e)
          /\ entry' = [entry EXCEPT ![e] = NewEntry(e, b)]
          /\ routes' = [routes EXCEPT ![count] = e]
          /\ slots' = [slots EXCEPT ![count] = b]
          /\ count' = count + 1
          /\ free_list' = free_list
    BY <1>2 DEF Register
  <2>4. FreeInv'
    <3>1. \A k \in TableSlots : slots'[k] # None => k < count'
      <4>1. \A k \in TableSlots : k < count => k < count + 1
        BY DEF LType, TableSlots
      <4>2. count < count + 1
        BY DEF LType
      <4> QED
        BY <2>1, <2>3, <4>1, <4>2 DEF LType, TableInv, FreeInv
    <3>2. Len(free_list') = 0
      BY <1>2, <2>3
    <3> QED
      BY <3>1, <3>2 DEF FreeInv
  <2> QED
    BY <2>1, <2>2, <2>3, <2>4 DEF LType
<1> QED
  BY <1>1, <1>2

LEMMA RegisterKeepsTable ==
    ASSUME LType, TableInv, NEW b \in Bases, ~ Registered(b),
           NEW i \in TableSlots, NEW e \in Entries,
           slots[i] = None, FreeEntry(e),
           slots' = [slots EXCEPT ![i] = b],
           routes' = [routes EXCEPT ![i] = e],
           entry' = [entry EXCEPT ![e] = NewEntry(e, b)],
           FreeInv'
    PROVE  /\ TableInv'
           /\ \A x \in Bases : Registered(x)' <=> Registered(x) \/ x = b
           /\ \A j \in TableSlots : j # i =>
                /\ slots'[j] = slots[j] /\ routes'[j] = routes[j]
                /\ slots[j] # None => /\ entry'[routes[j]] = entry[routes[j]]
                                      /\ slots[j] # b
           /\ slots'[i] = b /\ routes'[i] = e /\ entry'[e] = NewEntry(e, b)
           /\ \A x \in Entries : entry[x].linked => entry'[x] = entry[x]
<1> USE LargeSegmentsAssumption
<1>1. /\ slots'[i] = b /\ routes'[i] = e /\ entry'[e] = NewEntry(e, b)
      /\ \A j \in TableSlots : j # i =>
           slots'[j] = slots[j] /\ routes'[j] = routes[j]
      /\ \A x \in Entries : x # e => entry'[x] = entry[x]
  BY DEF LType
<1>2. ~ entry[e].linked /\ b # None /\ e # None
  BY DEF FreeEntry
<1>3. \A j \in TableSlots : slots[j] # None =>
        /\ routes[j] \in Entries /\ routes[j] # e /\ j # i /\ slots[j] # b
  BY <1>2 DEF TableInv, LType, Registered
<1>4. \A j \in TableSlots : j # i /\ routes[j] # None => routes[j] # e
  BY <1>3 DEF TableInv
<1>5. \A j \in TableSlots : slots'[j] = None <=> routes'[j] = None
  BY <1>1, <1>2 DEF TableInv
<1>6. \A j, k \in TableSlots : slots'[j] = slots'[k] /\ slots'[j] # None => j = k
  BY <1>1, <1>3 DEF TableInv
<1>7. \A j, k \in TableSlots :
        routes'[j] = routes'[k] /\ routes'[j] # None => j = k
  BY <1>1, <1>4 DEF TableInv
<1>8. \A x \in Entries : entry'[x].linked => \E j \in TableSlots : routes'[j] = x
  <2>1. TAKE x \in Entries
  <2>2. HAVE entry'[x].linked
  <2>3. CASE x = e
    BY <1>1, <2>3
  <2>4. CASE x # e
    <3>1. PICK j \in TableSlots : routes[j] = x
      BY <1>1, <2>2, <2>4 DEF TableInv
    <3>2. j # i
      BY <1>2, <3>1 DEF TableInv, LType
    <3> QED
      BY <1>1, <3>1, <3>2
  <2> QED
    BY <2>3, <2>4
<1>9. \A j \in TableSlots : slots'[j] # None =>
        entry'[routes'[j]].linked /\ entry'[routes'[j]].root = slots'[j]
  <2>1. TAKE j \in TableSlots
  <2>2. CASE j = i
    BY <1>1, <2>2 DEF NewEntry
  <2>3. CASE j # i
    BY <1>1, <1>3, <2>3 DEF TableInv
  <2> QED
    BY <2>2, <2>3
<1>10. TableInv'
  BY <1>5, <1>6, <1>7, <1>8, <1>9 DEF TableInv
<1>11. \A x \in Bases : Registered(x)' <=> Registered(x) \/ x = b
  BY <1>1, <1>2 DEF Registered
<1> QED
  BY <1>1, <1>2, <1>3, <1>10, <1>11

(* What a retirement does: it empties the slot and unlinks its route.      *)
Vacates(b, i) ==
    /\ TableInv'
    /\ slots' = [slots EXCEPT ![i] = None]
    /\ routes' = [routes EXCEPT ![i] = None]
    /\ count' = count /\ free_list' \in Seq(TableSlots)
    /\ entry' \in [Entries -> RouteWord]
    /\ \A x \in Bases : Registered(x)' <=> Registered(x) /\ x # b
    /\ \A j \in TableSlots : j # i /\ slots[j] # None =>
         entry'[routes[j]] = entry[routes[j]]
    /\ \A x \in Entries : entry[x].root # b => entry'[x] = entry[x]

LEMMA UnregisterVacates ==
    ASSUME LType, TableInv, NEW b \in Bases, NEW i \in TableSlots, slots[i] = b,
           NEW claim \in {"Live", "Consuming"}, Unregister(b, claim)
    PROVE  Vacates(b, i)
<1> USE LargeSegmentsAssumption
<1> DEFINE e == routes[i]
           w == [[entry[e] EXCEPT !.phase = claim] EXCEPT !.linked = FALSE]
<1>1. b # None /\ e \in Entries /\ entry[e].linked /\ entry[e].root = b
  BY DEF TableInv, LType
<1>2. /\ slots' = [slots EXCEPT ![i] = None]
      /\ routes' = [routes EXCEPT ![i] = None]
      /\ free_list' = Append(free_list, i) /\ count' = count
      /\ entry' = [entry EXCEPT ![e] = w]
  BY SlotOfIs DEF Unregister, Unlink
<1>3. w \in RouteWord /\ ~ w.linked
  <2>1. entry[e] \in RouteWord
    BY <1>1 DEF LType
  <2> QED
    BY <2>1 DEF RouteWord
<1> HIDE DEF w
<1>4. /\ slots'[i] = None /\ routes'[i] = None /\ entry'[e] = w
      /\ \A j \in TableSlots : j # i =>
           slots'[j] = slots[j] /\ routes'[j] = routes[j]
      /\ \A x \in Entries : x # e => entry'[x] = entry[x]
      /\ entry' \in [Entries -> RouteWord]
  BY <1>1, <1>2, <1>3 DEF LType
<1>5. \A j \in TableSlots : j # i /\ routes[j] # None => routes[j] # e
  BY <1>1 DEF TableInv
<1>6. \A j \in TableSlots : j # i /\ slots[j] # None =>
        routes[j] \in Entries /\ routes[j] # e
  BY <1>5 DEF TableInv, LType
<1>7. /\ free_list' \in Seq(TableSlots)
      /\ Len(free_list') = Len(free_list) + 1 /\ Len(free_list) \in Nat
      /\ \A k \in 1 .. Len(free_list) : free_list'[k] = free_list[k]
      /\ free_list'[Len(free_list) + 1] = i
  BY <1>2, AppendProperties, LenProperties DEF LType
<1>8. FreeInv'
  <2>1. \A j \in TableSlots : slots'[j] # None => j < count'
    BY <1>2, <1>4 DEF TableInv, FreeInv
  <2>2. \A k \in 1 .. Len(free_list') :
          k \in 1 .. Len(free_list) \/ k = Len(free_list) + 1
    BY <1>7
  <2>3. \A k \in 1 .. Len(free_list) : free_list[k] # i /\ free_list[k] \in TableSlots
    BY <1>1, ElementOfSeq DEF TableInv, FreeInv, LType
  <2>4. \A k \in 1 .. Len(free_list') :
          free_list'[k] < count' /\ slots'[free_list'[k]] = None
    <3>1. i < count
      BY <1>1 DEF TableInv, FreeInv
    <3> QED
      BY <1>2, <1>4, <1>7, <2>2, <2>3, <3>1 DEF TableInv, FreeInv
  <2>5. ASSUME NEW j \in 1 .. Len(free_list'), NEW k \in 1 .. Len(free_list'),
               free_list'[j] = free_list'[k]
        PROVE  j = k
    <3>1. CASE j \in 1 .. Len(free_list) /\ k \in 1 .. Len(free_list)
      BY <1>7, <2>5, <3>1 DEF TableInv, FreeInv
    <3>2. CASE j = Len(free_list) + 1 \/ k = Len(free_list) + 1
      BY <1>7, <2>2, <2>3, <2>5, <3>2
    <3> QED
      BY <2>2, <3>1, <3>2
  <2> QED
    BY <2>1, <2>4, <2>5 DEF FreeInv
<1>9. \A j \in TableSlots : slots'[j] = None <=> routes'[j] = None
  BY <1>4 DEF TableInv
<1>10. \A j, k \in TableSlots : slots'[j] = slots'[k] /\ slots'[j] # None => j = k
  BY <1>4 DEF TableInv
<1>11. \A j, k \in TableSlots :
         routes'[j] = routes'[k] /\ routes'[j] # None => j = k
  BY <1>4 DEF TableInv
<1>12. \A x \in Entries : entry'[x].linked => \E j \in TableSlots : routes'[j] = x
  <2>1. TAKE x \in Entries
  <2>2. HAVE entry'[x].linked
  <2>3. x # e
    BY <1>3, <1>4, <2>2
  <2>4. PICK j \in TableSlots : routes[j] = x
    BY <1>4, <2>2, <2>3 DEF TableInv
  <2> QED
    BY <1>4, <2>3, <2>4
<1>13. \A j \in TableSlots : slots'[j] # None =>
         entry'[routes'[j]].linked /\ entry'[routes'[j]].root = slots'[j]
  <2>1. TAKE j \in TableSlots
  <2>2. HAVE slots'[j] # None
  <2>3. j # i /\ slots[j] # None
    BY <1>4, <2>2
  <2> QED
    BY <1>4, <1>6, <2>3 DEF TableInv
<1>14. TableInv'
  BY <1>8, <1>9, <1>10, <1>11, <1>12, <1>13 DEF TableInv
<1>15. \A x \in Bases : Registered(x)' <=> Registered(x) /\ x # b
  <2>1. \A j \in TableSlots : slots[j] = b => j = i
    BY <1>1 DEF TableInv
  <2> QED
    BY <1>1, <1>4, <2>1 DEF Registered
<1> QED
  BY <1>1, <1>2, <1>4, <1>6, <1>7, <1>14, <1>15 DEF Vacates

-----------------------------------------------------------------------------
(* The cache                                                               *)

LEMMA AdmissionIs ==
    ASSUME NEW c \in Seq(Bases), NEW u, NEW size
    PROVE  Admission(c, u, size) \in 0 .. Len(c)
<1> DEFINE Enough(k) == k = Len(c) \/ Room(c, u, size, k)
           S == {k \in 0 .. Len(c) : Enough(k)}
<1>1. Len(c) \in Nat
  BY LenProperties
<1>2. S \in SUBSET Nat /\ Len(c) \in S
  BY <1>1
<1>3. PICK m \in S : \A y \in S : m =< y
  BY <1>2, HasLeast, Zenon
<1>4. \A j \in 0 .. m - 1 : ~ Room(c, u, size, j)
  <2>1. TAKE j \in 0 .. m - 1
  <2>2. j \in 0 .. Len(c) /\ ~ (m =< j)
    BY <1>1, <1>3
  <2> QED
    BY <1>3, <2>2, Zenon
<1>5. \E k \in 0 .. Len(c) : /\ k = Len(c) \/ Room(c, u, size, k)
                             /\ \A j \in 0 .. k - 1 : ~ Room(c, u, size, j)
  BY <1>3, <1>4, Zenon
<1> QED
  BY <1>5, Zenon DEF Admission

CacheInv ==
    /\ Once(cache)
    /\ \A b \in Bases : hdr[b].phase = "Cached" <=> In(cache, b)

(* The headers when the k oldest have gone.                                *)
Without(k) == [x \in Bases |-> IF x \in Evicted(cache, k) THEN Unmapped
                               ELSE hdr[x]]

(* Evicting leaves the other headers alone.                                *)
LEMMA EvictHeaders ==
    ASSUME LType, CacheInv, NEW k \in 0 .. Len(cache)
    PROVE  /\ Without(k) \in [Bases -> Header]
           /\ Evict(cache, k) \in Seq(Bases) /\ Once(Evict(cache, k))
           /\ \A x \in Bases :
                /\ Without(k)[x].phase = "Cached" <=> In(Evict(cache, k), x)
                /\ Without(k)[x].phase = "Live" <=> hdr[x].phase = "Live"
                /\ hdr[x].phase = "Live" => Without(k)[x] = hdr[x]
<1> USE LargeSegmentsAssumption
<1> DEFINE h == Without(k)
<1>1. /\ Evict(cache, k) \in Seq(Bases) /\ Once(Evict(cache, k))
      /\ \A b \in Bases : In(Evict(cache, k), b)
                            <=> In(cache, b) /\ b \notin Evicted(cache, k)
      /\ \A b \in Evicted(cache, k) : In(cache, b) /\ b \in Bases
  BY EvictSplits DEF LType, CacheInv
<1>2. Unmapped \in Header /\ Unmapped.phase = "Unmapped"
  BY DEF Unmapped, Header, Phases
<1>3. \A x \in Bases :
        /\ x \in Evicted(cache, k) => h[x] = Unmapped /\ hdr[x].phase = "Cached"
        /\ x \notin Evicted(cache, k) => h[x] = hdr[x]
  BY <1>1 DEF CacheInv, Without
<1>4. h \in [Bases -> Header]
  <2>1. \A x \in Bases : hdr[x] \in Header
    BY DEF LType
  <2> HIDE DEF Header
  <2> QED
    BY <1>2, <2>1 DEF Without
<1> HIDE DEF h
<1>5. \A x \in Bases : /\ h[x].phase = "Cached" <=> In(Evict(cache, k), x)
                       /\ h[x].phase = "Live" <=> hdr[x].phase = "Live"
                       /\ hdr[x].phase = "Live" => h[x] = hdr[x]
  BY <1>1, <1>2, <1>3 DEF CacheInv
<1> QED
  BY <1>1, <1>4, <1>5 DEF h

LEMMA DepositMoves ==
    ASSUME LType, CacheInv, NEW b \in Bases, ~ In(cache, b), Deposit(b)
    PROVE  /\ hdr' \in [Bases -> Header]
           /\ cache' \in Seq(Bases)
           /\ CacheInv'
           /\ \A x \in Bases : x # b =>
                /\ hdr'[x].phase = "Live" <=> hdr[x].phase = "Live"
                /\ hdr[x].phase = "Live" => hdr'[x] = hdr[x]
           /\ hdr'[b].phase # "Live"
<1> USE LargeSegmentsAssumption
<1>1. PICK d \in Decays :
        LET c == Evict(cache, d)
            u == used - Freed(cache, d)
            size == hdr[b].size
            k == IF Cacheable(hdr[b]) THEN Admission(c, u, size) ELSE 0
            keep == Cacheable(hdr[b]) /\ Room(c, u, size, k)
        IN  /\ cache' = IF keep THEN Append(Evict(c, k), b) ELSE Evict(c, k)
            /\ used' = UsedWith(u, c, k, IF keep THEN size ELSE 0)
            /\ hdr' = [x \in Bases |->
                         CASE x \in Evicted(cache, d + k) -> Unmapped
                           [] x = b /\ keep -> [hdr[b] EXCEPT !.phase = "Cached"]
                           [] x = b /\ ~ keep -> Unmapped
                           [] OTHER -> hdr[x]]
  BY Zenon DEF Deposit
<1> DEFINE c == Evict(cache, d)
           u == used - Freed(cache, d)
           size == hdr[b].size
           k == IF Cacheable(hdr[b]) THEN Admission(c, u, size) ELSE 0
           keep == Cacheable(hdr[b]) /\ Room(c, u, size, k)
           rest == Evict(c, k)
           gone == Evicted(cache, d + k)
           mine == IF keep THEN [hdr[b] EXCEPT !.phase = "Cached"] ELSE Unmapped
<1>2. /\ cache' = IF keep THEN Append(rest, b) ELSE rest
      /\ hdr' = [x \in Bases |->
                   CASE x \in gone -> Unmapped
                     [] x = b /\ keep -> [hdr[b] EXCEPT !.phase = "Cached"]
                     [] x = b /\ ~ keep -> Unmapped
                     [] OTHER -> hdr[x]]
  BY <1>1, Zenon
<1>3. d \in 0 .. Len(cache) /\ cache \in Seq(Bases) /\ Once(cache)
  BY DEF Decays, LType, CacheInv
<1>4. /\ c \in Seq(Bases) /\ Once(c)
      /\ \A x \in Bases : In(c, x) <=> In(cache, x) /\ x \notin Evicted(cache, d)
  BY <1>3, EvictSplits
<1>5. k \in 0 .. Len(c)
  <2> HIDE DEF c, u, size
  <2>1. Admission(c, u, size) \in 0 .. Len(c) /\ 0 \in 0 .. Len(c)
    BY <1>4, AdmissionIs, LenProperties
  <2> QED
    BY <2>1
<1>6. \A x : x \in gone <=> x \in Evicted(cache, d) \/ x \in Evicted(c, k)
  BY <1>3, <1>5, EvictTwice
<1>7. /\ rest \in Seq(Bases) /\ Once(rest)
      /\ \A x \in Bases : In(rest, x) <=> In(c, x) /\ x \notin Evicted(c, k)
      /\ \A x \in Evicted(c, k) : In(c, x) /\ x \in Bases
  <2> HIDE DEF c, k
  <2> QED
    BY <1>4, <1>5, EvictSplits
<1>8. \A x \in Evicted(cache, d) : In(cache, x) /\ x \in Bases
  BY <1>3, EvictSplits
<1> HIDE DEF c, u, size, k, keep, rest, gone
<1>9. \A x \in gone : In(cache, x) /\ x \in Bases /\ x # b
  BY <1>4, <1>6, <1>7, <1>8
<1>10. \A x \in Bases : In(rest, x) <=> In(cache, x) /\ x \notin gone
  BY <1>4, <1>6, <1>7
<1>11. /\ \A x \in Bases : x \in gone => hdr'[x] = Unmapped
       /\ \A x \in Bases : x \notin gone /\ x # b => hdr'[x] = hdr[x]
       /\ hdr'[b] = mine
  BY <1>2, <1>9
<1>12. /\ Unmapped \in Header /\ Unmapped.phase = "Unmapped"
       /\ mine \in Header
       /\ mine.phase = IF keep THEN "Cached" ELSE "Unmapped"
  <2>1. Unmapped \in Header /\ Unmapped.phase = "Unmapped"
    BY DEF Unmapped, Header, Phases
  <2>2. hdr[b] \in Header
    BY DEF LType
  <2>3. /\ [hdr[b] EXCEPT !.phase = "Cached"] \in Header
        /\ [hdr[b] EXCEPT !.phase = "Cached"].phase = "Cached"
    BY <2>2 DEF Header, Phases
  <2> QED
    BY <2>1, <2>3
<1> HIDE DEF mine
<1>13. hdr' \in [Bases -> Header]
  <2>1. \A x \in Bases : hdr[x] \in Header
    BY DEF LType
  <2>2. \A x \in Bases : hdr'[x] \in Header
    BY <1>11, <1>12, <2>1
  <2>3. hdr' = [x \in Bases |-> hdr'[x]]
    BY <1>2
  <2> QED
    BY <2>2, <2>3, Zenon
<1>14. /\ cache' \in Seq(Bases) /\ Once(cache')
       /\ \A x \in Bases : In(cache', x) <=> In(rest, x) \/ (x = b /\ keep)
  <2>1. ~ In(rest, b)
    BY <1>10
  <2>2. CASE keep
    BY <1>2, <1>7, <2>1, <2>2, AppendOnce
  <2>3. CASE ~ keep
    BY <1>2, <1>7, <2>3
  <2> QED
    BY <2>2, <2>3
<1>15. \A x \in Bases : hdr'[x].phase = "Cached" <=> In(cache', x)
  <2>1. TAKE x \in Bases
  <2>2. CASE x = b
    BY <1>10, <1>11, <1>12, <1>14, <2>2
  <2>3. CASE x # b
    BY <1>10, <1>11, <1>12, <1>14, <2>3 DEF CacheInv
  <2> QED
    BY <2>2, <2>3
<1>16. \A x \in Bases : x # b =>
         /\ hdr'[x].phase = "Live" <=> hdr[x].phase = "Live"
         /\ hdr[x].phase = "Live" => hdr'[x] = hdr[x]
  BY <1>9, <1>11, <1>12 DEF CacheInv
<1> QED
  BY <1>11, <1>12, <1>13, <1>14, <1>15, <1>16 DEF CacheInv

-----------------------------------------------------------------------------
(* The kinds of steps                                                      *)

tables == <<slots, routes, count, free_list, entry>>
blocks == <<fate, issued, pc, obj, pin>>

(* The cache changes and no registered reservation does.                   *)
LEMMA CacheOnly ==
    ASSUME IInv, hdr' \in [Bases -> Header], cache' \in Seq(Bases), CacheInv',
           \A x \in Bases : /\ hdr'[x].phase = "Live" <=> hdr[x].phase = "Live"
                            /\ hdr[x].phase = "Live" => hdr'[x] = hdr[x],
           UNCHANGED <<tables, blocks, fatal>>,
           want' \in Requests \cup {None},
           opc' \in {"alloc", "slow"} => want' \in Requests
    PROVE  IInv'
<1> USE DEF tables, blocks
<1>1. LType'
  BY DEF IInv, LType
<1>2. TableInv'
  BY DEF IInv, TableInv, FreeInv
<1>3. KeeperInv'
  BY DEF IInv, KeeperInv, CacheInv, Registered
<1>4. FateInv'
  <2>1. \A i \in TableSlots : slots[i] # None =>
          slots[i] \in Bases /\ hdr'[slots[i]] = hdr[slots[i]]
    BY DEF IInv, KeeperInv, Registered, LType
  <2> QED
    BY <2>1 DEF IInv, FateInv, Registered
<1>5. ProducerInv'
  BY DEF IInv, ProducerInv
<1> QED
  BY <1>1, <1>2, <1>3, <1>4, <1>5 DEF IInv

(* A block whose free is complete goes: its slot, its route and its        *)
(* header, and nothing else.                                               *)
LEMMA BlockGoes ==
    ASSUME IInv, NEW b \in Bases, NEW i \in TableSlots, slots[i] = b,
           fate[b] # "moving",
           NEW claim \in {"Live", "Consuming"},
           Unregister(b, claim), Deposit(b),
           fate' = [fate EXCEPT ![b] = "none"],
           issued' = [issued EXCEPT ![b] = 0],
           UNCHANGED <<pc, obj, pin, want, opc, fatal>>
    PROVE  IInv'
<1> USE LargeSegmentsAssumption
<1>1. LType /\ TableInv /\ CacheInv /\ KeeperInv /\ FateInv /\ ProducerInv
  BY DEF IInv, KeeperInv, CacheInv
<1>2. Registered(b) /\ ~ In(cache, b)
  BY <1>1 DEF KeeperInv, Registered
<1>3. /\ TableInv'
      /\ slots' = [slots EXCEPT ![i] = None]
      /\ routes' = [routes EXCEPT ![i] = None]
      /\ count' = count /\ free_list' \in Seq(TableSlots)
      /\ entry' \in [Entries -> RouteWord]
      /\ \A x \in Bases : Registered(x)' <=> Registered(x) /\ x # b
      /\ \A j \in TableSlots : j # i /\ slots[j] # None =>
           entry'[routes[j]] = entry[routes[j]]
      /\ \A x \in Entries : entry[x].root # b => entry'[x] = entry[x]
  <2>1. Vacates(b, i)
    BY <1>1, UnregisterVacates, Zenon
  <2> QED
    BY <2>1, Zenon DEF Vacates
<1>4. /\ hdr' \in [Bases -> Header] /\ cache' \in Seq(Bases) /\ CacheInv'
      /\ \A x \in Bases : x # b =>
           /\ hdr'[x].phase = "Live" <=> hdr[x].phase = "Live"
           /\ hdr[x].phase = "Live" => hdr'[x] = hdr[x]
      /\ hdr'[b].phase # "Live"
  BY <1>1, <1>2, DepositMoves
<1>5. LType'
  <2>1. /\ slots' \in [TableSlots -> Bases \cup {None}]
        /\ routes' \in [TableSlots -> Entries \cup {None}]
    BY <1>1, <1>3 DEF LType
  <2>2. /\ fate' \in [Bases -> {"none", "client", "moving", "sent"}]
        /\ issued' \in [Bases -> 0 .. MAX_LARGE_GENERATION]
    BY <1>1 DEF LType
  <2> QED
    BY <1>1, <1>3, <1>4, <2>1, <2>2 DEF LType
<1>6. KeeperInv'
  BY <1>1, <1>3, <1>4 DEF KeeperInv, CacheInv
<1>7. /\ fate'[b] = "none"
      /\ \A x \in Bases : x # b => fate'[x] = fate[x] /\ issued'[x] = issued[x]
  BY <1>1 DEF LType
<1>8. FateInv'
  <2>1. \A x \in Bases : fate'[x] # "none" <=> Registered(x)'
    BY <1>1, <1>3, <1>7 DEF FateInv
  <2>2. ASSUME NEW j \in TableSlots, slots'[j] # None
        PROVE  /\ hdr'[slots'[j]].gen = issued'[slots'[j]]
               /\ entry'[routes'[j]].phase
                    = IF fate'[slots'[j]] = "sent" THEN "Pending" ELSE "Live"
    <3>1. /\ j # i /\ slots'[j] = slots[j] /\ routes'[j] = routes[j]
          /\ slots[j] \in Bases /\ slots[j] # None
      BY <1>1, <1>3, <2>2 DEF LType
    <3>2. slots[j] # b
      BY <1>1, <3>1 DEF TableInv
    <3>3. hdr[slots[j]].phase = "Live"
      BY <1>1, <3>1 DEF KeeperInv, Registered
    <3> QED
      BY <1>1, <1>3, <1>4, <1>7, <3>1, <3>2, <3>3 DEF FateInv
  <2> QED
    BY <2>1, <2>2 DEF FateInv
<1>9. ProducerInv'
  <2>1. \A p \in Producers : pc[p] # "idle" => obj[p] # b
    BY <1>1 DEF ProducerInv
  <2>2. \A p \in Producers : pc[p] = "publish" =>
          entry'[pin[p]] = entry[pin[p]]
    BY <1>1, <1>3, <2>1 DEF ProducerInv
  <2> QED
    BY <1>1, <1>7, <2>1, <2>2 DEF ProducerInv
<1> QED
  BY <1>3, <1>5, <1>6, <1>8, <1>9 DEF IInv

(* A reservation that nobody has registered is handed out.                 *)
LEMMA BlockComes ==
    ASSUME IInv, NEW b \in Bases, ~ Registered(b), CanRegister, Register(b),
           hdr' \in [Bases -> Header], cache' \in Seq(Bases), CacheInv',
           hdr'[b].phase = "Live",
           \A x \in Bases : x # b =>
             /\ hdr'[x].phase = "Live" <=> hdr[x].phase = "Live"
             /\ hdr[x].phase = "Live" => hdr'[x] = hdr[x],
           fate' = [fate EXCEPT ![b] = "client"],
           issued' = [issued EXCEPT ![b] = hdr'[b].gen],
           UNCHANGED <<pc, obj, pin, fatal>>,
           opc' = "idle", want' = None
    PROVE  IInv'
<1> USE LargeSegmentsAssumption
<1>1. LType /\ TableInv /\ KeeperInv /\ FateInv /\ ProducerInv
  BY DEF IInv
<1>2. PICK i \in TableSlots, e \in Entries :
        /\ slots[i] = None /\ FreeEntry(e)
        /\ slots' = [slots EXCEPT ![i] = b]
        /\ routes' = [routes EXCEPT ![i] = e]
        /\ entry' = [entry EXCEPT ![e] = NewEntry(e, b)]
        /\ count' \in 0 .. MAX_SEGMENTS
        /\ free_list' \in Seq(TableSlots)
        /\ FreeInv'
  BY <1>1, RegisterIs, SMTT(30)
<1>3. /\ TableInv'
      /\ \A x \in Bases : Registered(x)' <=> Registered(x) \/ x = b
      /\ \A j \in TableSlots : j # i =>
           /\ slots'[j] = slots[j] /\ routes'[j] = routes[j]
           /\ slots[j] # None => /\ entry'[routes[j]] = entry[routes[j]]
                                 /\ slots[j] # b
      /\ slots'[i] = b /\ routes'[i] = e /\ entry'[e] = NewEntry(e, b)
      /\ \A x \in Entries : entry[x].linked => entry'[x] = entry[x]
  BY <1>1, <1>2, RegisterKeepsTable
<1>4. LType'
  <2>1. /\ slots' \in [TableSlots -> Bases \cup {None}]
        /\ routes' \in [TableSlots -> Entries \cup {None}]
    BY <1>1, <1>2 DEF LType
  <2>2. NewEntry(e, b) \in RouteWord
    BY DEF NewEntry, RouteWord
  <2>3. entry' \in [Entries -> RouteWord]
    <3> HIDE DEF RouteWord
    <3> QED
      BY <1>1, <1>2, <2>2 DEF LType
  <2>4. hdr'[b].gen \in 0 .. MAX_LARGE_GENERATION
    BY DEF Header
  <2>5. /\ fate' \in [Bases -> {"none", "client", "moving", "sent"}]
        /\ issued' \in [Bases -> 0 .. MAX_LARGE_GENERATION]
    BY <1>1, <2>4 DEF LType
  <2> QED
    BY <1>1, <1>2, <2>1, <2>3, <2>5 DEF LType
<1>5. KeeperInv'
  BY <1>1, <1>3 DEF KeeperInv, CacheInv
<1>6. /\ fate'[b] = "client" /\ issued'[b] = hdr'[b].gen
      /\ \A x \in Bases : x # b => fate'[x] = fate[x] /\ issued'[x] = issued[x]
  BY <1>1 DEF LType
<1>7. FateInv'
  <2>1. \A x \in Bases : fate'[x] # "none" <=> Registered(x)'
    BY <1>1, <1>3, <1>6 DEF FateInv
  <2>2. ASSUME NEW j \in TableSlots, slots'[j] # None
        PROVE  /\ hdr'[slots'[j]].gen = issued'[slots'[j]]
               /\ entry'[routes'[j]].phase
                    = IF fate'[slots'[j]] = "sent" THEN "Pending" ELSE "Live"
    <3>1. CASE j = i
      BY <1>3, <1>6, <3>1 DEF NewEntry
    <3>2. CASE j # i
      <4>1. /\ slots'[j] = slots[j] /\ routes'[j] = routes[j]
            /\ slots[j] \in Bases /\ slots[j] # None /\ slots[j] # b
            /\ entry'[routes[j]] = entry[routes[j]]
        BY <1>1, <1>3, <2>2, <3>2 DEF LType
      <4>2. hdr[slots[j]].phase = "Live"
        BY <1>1, <4>1 DEF KeeperInv, Registered
      <4> QED
        BY <1>1, <1>6, <4>1, <4>2 DEF FateInv
    <3> QED
      BY <3>1, <3>2
  <2> QED
    BY <2>1, <2>2 DEF FateInv
<1>8. ProducerInv'
  <2>1. \A p \in Producers : pc[p] # "idle" => obj[p] # b
    BY <1>1 DEF ProducerInv, FateInv
  <2> QED
    BY <1>1, <1>3, <1>6, <2>1 DEF ProducerInv
<1> QED
  BY <1>3, <1>4, <1>5, <1>7, <1>8 DEF IInv

-----------------------------------------------------------------------------
(* The steps                                                               *)

LEMMA InitHolds ==
    ASSUME Init
    PROVE  IInv
<1> USE LargeSegmentsAssumption
<1>1. LType
  <2>1. Unmapped \in Header
    BY DEF Unmapped, Header, Phases
  <2>2. NoEntry \in RouteWord
    BY DEF NoEntry, RouteWord
  <2>3. hdr \in [Bases -> Header] /\ entry \in [Entries -> RouteWord]
    <3> HIDE DEF Header, RouteWord
    <3> QED
      BY <2>1, <2>2 DEF Init
  <2> QED
    BY <2>3 DEF Init, LType, TableSlots
<1>2. TableInv
  BY DEF Init, TableInv, FreeInv, NoEntry
<1>3. KeeperInv
  BY DEF Init, KeeperInv, Once, In, Registered, Unmapped
<1>4. FateInv
  BY DEF Init, FateInv, Registered
<1>5. ProducerInv
  BY DEF Init, ProducerInv
<1> QED
  BY <1>1, <1>2, <1>3, <1>4, <1>5 DEF IInv

(* The owner's steps that only move its drain.                             *)
LEMMA DrainStep ==
    ASSUME IInv, UNCHANGED <<tabVars, memVars, proVars, entry, fatal>>,
           want' \in Requests \cup {None},
           opc' \in {"alloc", "slow"} => want' \in Requests
    PROVE  IInv'
<1>1. CacheInv' /\ hdr' \in [Bases -> Header] /\ cache' \in Seq(Bases)
  BY DEF IInv, KeeperInv, CacheInv, LType, memVars
<1> QED
  BY <1>1, CacheOnly DEF tabVars, memVars, proVars, tables, blocks

LEMMA FreeStep ==
    ASSUME IInv, NEW p \in Producers, NEW b \in Bases, Free(p, b)
    PROVE  IInv'
<1> USE LargeSegmentsAssumption
<1>1. LType /\ TableInv /\ KeeperInv /\ FateInv /\ ProducerInv
  BY DEF IInv
<1>2. /\ pc[p] = "idle" /\ fate[b] = "client"
      /\ fate' = [fate EXCEPT ![b] = "moving"]
      /\ pc' = [pc EXCEPT ![p] = "lookup"]
      /\ obj' = [obj EXCEPT ![p] = b]
      /\ UNCHANGED <<pin, hdr, cache, used, issued, ownVars, tabVars, entry,
                     fatal>>
  BY DEF Free
<1>3. LType'
  BY <1>1, <1>2 DEF LType, ownVars, tabVars
<1>4. TableInv' /\ KeeperInv' /\ \A x \in Bases : Registered(x)' <=> Registered(x)
  BY <1>1, <1>2 DEF TableInv, FreeInv, KeeperInv, Registered, tabVars
<1>5. /\ fate'[b] = "moving" /\ pc'[p] = "lookup" /\ obj'[p] = b
      /\ \A x \in Bases : x # b => fate'[x] = fate[x]
      /\ \A q \in Producers : q # p => pc'[q] = pc[q] /\ obj'[q] = obj[q]
  BY <1>1, <1>2 DEF LType
<1>6. FateInv'
  <2>1. \A x \in Bases : fate'[x] # "none" <=> Registered(x)'
    BY <1>1, <1>2, <1>4, <1>5 DEF FateInv
  <2>2. \A i \in TableSlots : slots[i] # None =>
          slots[i] \in Bases /\ (fate'[slots[i]] = "sent" <=> fate[slots[i]] = "sent")
    BY <1>1, <1>2, <1>5 DEF LType
  <2> QED
    BY <1>1, <1>2, <2>1, <2>2 DEF FateInv, tabVars
<1>7. ProducerInv'
  <2>1. \A q \in Producers : pc[q] # "idle" => obj[q] # b
    BY <1>1, <1>2 DEF ProducerInv
  <2> QED
    BY <1>1, <1>2, <1>5, <2>1 DEF ProducerInv
<1> QED
  BY <1>3, <1>4, <1>6, <1>7 DEF IInv

(* The block that a producer frees is registered, and its route can be     *)
(* found and nothing else.                                                 *)
LEMMA MovingIsLinked ==
    ASSUME LType, TableInv, FateInv, ProducerInv,
           NEW p \in Producers, pc[p] # "idle"
    PROVE  \E i \in TableSlots :
             /\ slots[i] = obj[p] /\ obj[p] \in Bases
             /\ routes[i] \in Entries
             /\ \A e \in Entries :
                  entry[e].linked /\ entry[e].root = obj[p] <=> e = routes[i]
             /\ entry[routes[i]].phase = "Live"
<1> USE LargeSegmentsAssumption
<1>1. obj[p] \in Bases /\ fate[obj[p]] = "moving"
  BY DEF ProducerInv
<1>2. PICK i \in TableSlots : slots[i] = obj[p]
  BY <1>1 DEF FateInv, Registered
<1>3. slots[i] # None /\ routes[i] \in Entries
  BY <1>1, <1>2 DEF TableInv, LType
<1>4. entry[routes[i]].phase = "Live"
  BY <1>1, <1>2, <1>3 DEF FateInv
<1>5. entry[routes[i]].linked /\ entry[routes[i]].root = obj[p]
  BY <1>2, <1>3 DEF TableInv
<1>6. ASSUME NEW e \in Entries, entry[e].linked, entry[e].root = obj[p]
      PROVE  e = routes[i]
  <2>1. PICK j \in TableSlots : routes[j] = e
    BY <1>6 DEF TableInv
  <2>2. slots[j] # None /\ slots[j] = obj[p]
    BY <1>6, <2>1 DEF TableInv
  <2> QED
    BY <1>2, <1>3, <2>1, <2>2 DEF TableInv
<1> QED
  BY <1>1, <1>2, <1>3, <1>4, <1>5, <1>6

LEMMA LookupStep ==
    ASSUME IInv, NEW p \in Producers, Lookup(p)
    PROVE  IInv'
<1> USE LargeSegmentsAssumption
<1>1. LType /\ TableInv /\ KeeperInv /\ FateInv /\ ProducerInv
  BY DEF IInv
<1>2. pc[p] = "lookup"
  BY DEF Lookup
<1>3. PICK i \in TableSlots :
        /\ slots[i] = obj[p] /\ obj[p] \in Bases
        /\ routes[i] \in Entries
        /\ \A e \in Entries :
             entry[e].linked /\ entry[e].root = obj[p] <=> e = routes[i]
        /\ entry[routes[i]].phase = "Live"
  BY <1>1, <1>2, MovingIsLinked
<1>4. {e \in Entries : entry[e].linked /\ entry[e].root = obj[p]} = {routes[i]}
  BY <1>3
<1>5. /\ pin' = [pin EXCEPT ![p] = routes[i]]
      /\ pc' = [pc EXCEPT ![p] = "publish"]
      /\ UNCHANGED <<obj, fate, hdr, cache, used, issued, ownVars, tabVars,
                     entry, fatal>>
  BY <1>4 DEF Lookup
<1>6. LType'
  BY <1>1, <1>3, <1>5 DEF LType, ownVars, tabVars
<1>7. TableInv' /\ KeeperInv' /\ FateInv'
  BY <1>1, <1>5 DEF TableInv, FreeInv, KeeperInv, FateInv, Registered, tabVars
<1>8. ProducerInv'
  <2>1. /\ pc'[p] = "publish" /\ pin'[p] = routes[i]
        /\ \A q \in Producers : q # p => pc'[q] = pc[q] /\ pin'[q] = pin[q]
    BY <1>1, <1>5 DEF LType
  <2>2. \A q \in Producers : pc'[q] # "idle" <=> pc[q] # "idle"
    BY <1>2, <2>1
  <2>3. entry[routes[i]].linked /\ entry[routes[i]].root = obj[p]
    BY <1>3
  <2> QED
    BY <1>1, <1>3, <1>5, <2>1, <2>2, <2>3 DEF ProducerInv
<1> QED
  BY <1>6, <1>7, <1>8 DEF IInv

LEMMA PublishStep ==
    ASSUME IInv, NEW p \in Producers, Publish(p)
    PROVE  IInv'
<1> USE LargeSegmentsAssumption
<1>1. LType /\ TableInv /\ KeeperInv /\ FateInv /\ ProducerInv
  BY DEF IInv
<1>2. pc[p] = "publish"
  BY DEF Publish
<1>3. PICK i \in TableSlots :
        /\ slots[i] = obj[p] /\ obj[p] \in Bases
        /\ routes[i] \in Entries
        /\ \A e \in Entries :
             entry[e].linked /\ entry[e].root = obj[p] <=> e = routes[i]
        /\ entry[routes[i]].phase = "Live"
  BY <1>1, <1>2, MovingIsLinked
<1>4. pin[p] = routes[i]
  BY <1>1, <1>2, <1>3 DEF ProducerInv
<1> DEFINE e == routes[i]
           b == obj[p]
           w == [entry[e] EXCEPT !.phase = "Pending"]
<1>5. /\ entry' = [entry EXCEPT ![e] = w]
      /\ fate' = [fate EXCEPT ![b] = "sent"]
      /\ pc' = [pc EXCEPT ![p] = "idle"]
      /\ obj' = [obj EXCEPT ![p] = None] /\ pin' = [pin EXCEPT ![p] = None]
      /\ UNCHANGED <<hdr, cache, used, issued, ownVars, tabVars, fatal>>
  <2>1. entry' = [entry EXCEPT ![e].phase = "Pending"]
    BY <1>3, <1>4 DEF Publish
  <2> QED
    BY <1>3, <2>1 DEF Publish, Return
<1>6. /\ w \in RouteWord /\ w.phase = "Pending"
      /\ w.root = entry[e].root /\ w.linked = entry[e].linked
  <2>1. entry[e] \in RouteWord
    BY <1>1, <1>3 DEF LType
  <2> QED
    BY <2>1 DEF RouteWord
<1> HIDE DEF w
<1>7. /\ entry'[e] = w /\ \A x \in Entries : x # e => entry'[x] = entry[x]
      /\ fate'[b] = "sent" /\ \A x \in Bases : x # b => fate'[x] = fate[x]
      /\ pc'[p] = "idle"
      /\ \A q \in Producers : q # p =>
           pc'[q] = pc[q] /\ obj'[q] = obj[q] /\ pin'[q] = pin[q]
  BY <1>1, <1>3, <1>5 DEF LType
<1>8. LType'
  <2>1. entry' \in [Entries -> RouteWord]
    <3> HIDE DEF RouteWord
    <3> QED
      BY <1>1, <1>5, <1>6 DEF LType
  <2> QED
    BY <1>1, <1>5, <2>1 DEF LType, ownVars, tabVars
<1>9. \A x \in Entries : /\ entry'[x].linked = entry[x].linked
                         /\ entry'[x].root = entry[x].root
  BY <1>3, <1>6, <1>7
<1>10. slots' = slots /\ routes' = routes
  BY <1>5 DEF tabVars
<1>11. TableInv'
  <2>1. \A j \in TableSlots : slots[j] # None => routes[j] \in Entries
    BY <1>1 DEF TableInv, LType
  <2> QED
    BY <1>1, <1>5, <1>9, <2>1 DEF TableInv, FreeInv, tabVars
<1>12. KeeperInv' /\ \A x \in Bases : Registered(x)' <=> Registered(x)
  BY <1>1, <1>5 DEF KeeperInv, Registered, tabVars
<1>13. FateInv'
  <2>1. \A x \in Bases : fate'[x] # "none" <=> Registered(x)'
    BY <1>1, <1>3, <1>7, <1>12 DEF FateInv, Registered
  <2>2. ASSUME NEW j \in TableSlots, slots[j] # None
        PROVE  entry'[routes[j]].phase
                 = IF fate'[slots[j]] = "sent" THEN "Pending" ELSE "Live"
    <3>1. CASE j = i
      BY <1>3, <1>6, <1>7, <3>1
    <3>2. CASE j # i
      <4>1. slots[j] \in Bases /\ slots[j] # b /\ routes[j] \in Entries
        BY <1>1, <1>3, <2>2, <3>2 DEF TableInv, LType
      <4>2. routes[j] # e
        BY <1>1, <1>3, <3>2, <4>1 DEF TableInv, LType
      <4> QED
        BY <1>1, <1>7, <2>2, <4>1, <4>2 DEF FateInv
    <3> QED
      BY <3>1, <3>2
  <2>3. \A j \in TableSlots : slots[j] # None =>
          hdr'[slots[j]].gen = issued'[slots[j]]
    BY <1>1, <1>5 DEF FateInv
  <2> QED
    BY <1>10, <2>1, <2>2, <2>3 DEF FateInv
<1>14. ProducerInv'
  <2>1. \A q \in Producers : q # p /\ pc[q] # "idle" => obj[q] # b
    BY <1>1, <1>2 DEF ProducerInv
  <2> QED
    BY <1>1, <1>7, <1>9, <2>1 DEF ProducerInv
<1> QED
  BY <1>8, <1>11, <1>12, <1>13, <1>14 DEF IInv

LEMMA OwnFreeStep ==
    ASSUME IInv, NEW b \in Bases, OwnFree(b)
    PROVE  IInv'
<1>1. PICK i \in TableSlots : slots[i] = b
  BY DEF OwnFree
<1>2. fate[b] = "client" /\ hdr[b].phase = "Live"
  BY <1>1 DEF OwnFree, IInv, KeeperInv, Registered
<1>3. /\ Unregister(b, "Live") /\ Deposit(b)
      /\ fate' = [fate EXCEPT ![b] = "none"]
      /\ issued' = [issued EXCEPT ![b] = 0]
      /\ UNCHANGED <<pc, obj, pin, want, opc, fatal>>
  BY <1>2 DEF OwnFree, ownVars, proVars
<1> QED
  BY <1>1, <1>2, <1>3, BlockGoes

(* Only a block that a producer has sent home is retired.                  *)
LEMMA RetireStep ==
    ASSUME IInv, NEW i \in TableSlots, slots[i] # None, Retire(i),
           UNCHANGED <<opc, want, proVars>>
    PROVE  IInv'
<1> DEFINE b == slots[i]
<1>1. LType /\ TableInv /\ KeeperInv /\ FateInv
  BY DEF IInv
<1>2. b \in Bases /\ hdr[b].phase = "Live"
  BY <1>1 DEF LType, KeeperInv, Registered
<1>3. CASE ~ ClaimPending(routes[i])
  <2>1. UNCHANGED <<entry, tabVars, memVars, fatal>>
    BY <1>3 DEF Retire
  <2>2. /\ want' \in Requests \cup {None}
        /\ opc' \in {"alloc", "slow"} => want' \in Requests
    BY <1>1 DEF LType
  <2> QED
    BY <2>1, <2>2, DrainStep
<1>4. CASE ClaimPending(routes[i])
  <2>1. fate[b] = "sent"
    BY <1>1, <1>4 DEF FateInv, ClaimPending
  <2>2. /\ Unregister(b, "Consuming") /\ Deposit(b)
        /\ fate' = [fate EXCEPT ![b] = "none"]
        /\ issued' = [issued EXCEPT ![b] = 0]
        /\ UNCHANGED fatal
    BY <1>2, <1>4, <2>1 DEF Retire
  <2> QED
    BY <1>2, <2>1, <2>2, BlockGoes DEF proVars
<1> QED
  BY <1>3, <1>4

LEMMA AllocLargeStep ==
    ASSUME IInv, AllocLarge
    PROVE  IInv'
<1> USE LargeSegmentsAssumption
<1>1. /\ LType /\ CacheInv /\ KeeperInv /\ opc = "alloc" /\ want \in Requests
      /\ UNCHANGED <<scan, cursor, proVars, fatal>>
  BY DEF IInv, KeeperInv, CacheInv, LType, AllocLarge
<1>2. PICK d \in Decays :
        LET c == Evict(cache, d)
            u == used - Freed(cache, d)
            h == [x \in Bases |-> IF x \in Evicted(cache, d) THEN Unmapped
                                  ELSE hdr[x]]
            hits == IF want.biased THEN {} ELSE BestFits(c)
        IN  \/ /\ hits = {}
               /\ cache' = c /\ used' = u /\ hdr' = h
               /\ opc' = "slow"
               /\ UNCHANGED <<want, fate, issued, tabVars, entry>>
            \/ \E i \in hits :
               LET b == c[i] IN
               /\ cache' = RemoveAt(c, i) /\ used' = u - h[b].size
               /\ \/ /\ CanReuse(h[b].gen) /\ CanRegister
                     /\ Register(b)
                     /\ hdr' = [h EXCEPT ![b].phase = "Live", ![b].gen = @ + 1]
                     /\ fate' = [fate EXCEPT ![b] = "client"]
                     /\ issued' = [issued EXCEPT ![b] = h[b].gen + 1]
                     /\ opc' = "idle" /\ want' = None
                  \/ /\ hdr' = [h EXCEPT ![b] = Unmapped]
                     /\ opc' = "slow"
                     /\ UNCHANGED <<want, fate, issued, tabVars, entry>>
  BY DEF AllocLarge
<1> DEFINE c == Evict(cache, d)
           h == [x \in Bases |-> IF x \in Evicted(cache, d) THEN Unmapped
                                 ELSE hdr[x]]
           hits == IF want.biased THEN {} ELSE BestFits(c)
<1>3. d \in 0 .. Len(cache)
  BY DEF Decays
<1>4. /\ h \in [Bases -> Header]
      /\ c \in Seq(Bases) /\ Once(c)
      /\ \A x \in Bases : h[x].phase = "Cached" <=> In(c, x)
      /\ \A x \in Bases : h[x].phase = "Live" <=> hdr[x].phase = "Live"
      /\ \A x \in Bases : hdr[x].phase = "Live" => h[x] = hdr[x]
  <2>1. h = Without(d)
    BY Zenon DEF Without
  <2> HIDE DEF h, c
  <2>2. /\ Without(d) \in [Bases -> Header]
        /\ Evict(cache, d) \in Seq(Bases) /\ Once(Evict(cache, d))
        /\ \A x \in Bases :
             /\ Without(d)[x].phase = "Cached" <=> In(Evict(cache, d), x)
             /\ Without(d)[x].phase = "Live" <=> hdr[x].phase = "Live"
             /\ hdr[x].phase = "Live" => Without(d)[x] = hdr[x]
    BY <1>1, <1>3, EvictHeaders
  <2> QED
    BY <2>1, <2>2, Zenon DEF c
<1>5. hits \subseteq 1 .. Len(c)
  BY <1>4, LenProperties DEF BestFits, Fits
<1>6. CASE /\ cache' = c /\ hdr' = h /\ opc' = "slow"
           /\ UNCHANGED <<want, fate, issued, tabVars, entry>>
  <2>1. CacheInv'
    BY <1>4, <1>6 DEF CacheInv
  <2> HIDE DEF c, h
  <2> QED
    BY <1>1, <1>4, <1>6, <2>1, CacheOnly DEF tabVars, proVars, tables, blocks
<1>7. ASSUME NEW i \in hits, cache' = RemoveAt(c, i)
      PROVE  /\ i \in 1 .. Len(c) /\ c[i] \in Bases
             /\ h[c[i]].phase = "Cached" /\ ~ Registered(c[i])
             /\ cache' \in Seq(Bases) /\ Once(cache')
             /\ \A x \in Bases : In(cache', x) <=> In(c, x) /\ x # c[i]
  <2>1. i \in 1 .. Len(c)
    BY <1>5
  <2> HIDE DEF c, h, hits
  <2>2. c[i] \in Bases /\ In(c, c[i])
    BY <1>4, <2>1, ElementOfSeq DEF In
  <2>3. /\ cache' \in Seq(Bases) /\ Once(cache')
        /\ \A x \in Bases : In(cache', x) <=> In(c, x) /\ x # c[i]
    BY <1>4, <1>7, <2>1, RemoveOnce
  <2>4. h[c[i]].phase = "Cached" /\ hdr[c[i]].phase # "Live"
    BY <1>4, <2>2
  <2> QED
    BY <1>1, <2>1, <2>2, <2>3, <2>4 DEF KeeperInv
<1>8. ASSUME NEW i \in hits, cache' = RemoveAt(c, i),
             CanReuse(h[c[i]].gen), CanRegister, Register(c[i]),
             hdr' = [h EXCEPT ![c[i]].phase = "Live", ![c[i]].gen = @ + 1],
             fate' = [fate EXCEPT ![c[i]] = "client"],
             issued' = [issued EXCEPT ![c[i]] = h[c[i]].gen + 1],
             opc' = "idle", want' = None
      PROVE  IInv'
  <2>1. /\ c[i] \in Bases
        /\ h[c[i]].phase = "Cached" /\ ~ Registered(c[i])
        /\ cache' \in Seq(Bases) /\ Once(cache')
        /\ \A x \in Bases : In(cache', x) <=> In(c, x) /\ x # c[i]
    BY <1>7, <1>8
  <2> DEFINE b == c[i]
             w == [h[b] EXCEPT !.phase = "Live", !.gen = @ + 1]
  <2>2. hdr' = [h EXCEPT ![b] = w]
    <3> HIDE DEF h
    <3> QED
      BY <1>4, <1>8, <2>1
  <2>3. w \in Header /\ w.phase = "Live" /\ w.gen = h[b].gen + 1
    <3> HIDE DEF h, c
    <3>1. h[b] \in Header
      BY <1>4, <2>1
    <3>2. h[b].gen \in 0 .. MAX_LARGE_GENERATION
      BY <3>1 DEF Header
    <3>3. h[b].gen + 1 \in 0 .. MAX_LARGE_GENERATION
      BY <1>8, <3>2 DEF CanReuse
    <3> QED
      BY <3>1, <3>3 DEF Header, Phases
  <2> HIDE DEF w, c, h, hits
  <2>4. /\ hdr' \in [Bases -> Header] /\ hdr'[b] = w
        /\ \A x \in Bases : x # b => hdr'[x] = h[x]
    <3> HIDE DEF Header
    <3> QED
      BY <1>4, <2>1, <2>2, <2>3
  <2>5. CacheInv'
    BY <1>4, <2>1, <2>3, <2>4 DEF CacheInv
  <2>6. issued' = [issued EXCEPT ![b] = hdr'[b].gen]
    BY <1>8, <2>3, <2>4
  <2> QED
    BY <1>1, <1>4, <1>8, <2>1, <2>3, <2>4, <2>5, <2>6, BlockComes DEF proVars
<1>9. ASSUME NEW i \in hits, cache' = RemoveAt(c, i),
             hdr' = [h EXCEPT ![c[i]] = Unmapped], opc' = "slow",
             UNCHANGED <<want, fate, issued, tabVars, entry>>
      PROVE  IInv'
  <2>1. /\ c[i] \in Bases
        /\ h[c[i]].phase = "Cached" /\ ~ Registered(c[i])
        /\ cache' \in Seq(Bases) /\ Once(cache')
        /\ \A x \in Bases : In(cache', x) <=> In(c, x) /\ x # c[i]
    BY <1>7, <1>9
  <2>2. Unmapped \in Header /\ Unmapped.phase = "Unmapped"
    BY DEF Unmapped, Header, Phases
  <2> HIDE DEF c, h, hits
  <2>3. /\ hdr' \in [Bases -> Header] /\ hdr'[c[i]] = Unmapped
        /\ \A x \in Bases : x # c[i] => hdr'[x] = h[x]
    <3> HIDE DEF Header
    <3> QED
      BY <1>4, <1>9, <2>1, <2>2
  <2>4. CacheInv'
    BY <1>4, <2>1, <2>2, <2>3 DEF CacheInv
  <2> QED
    BY <1>1, <1>4, <1>9, <2>1, <2>2, <2>3, <2>4, CacheOnly
       DEF tabVars, proVars, tables, blocks
<1> QED
  BY <1>2, <1>6, <1>8, <1>9, Zenon

LEMMA RequestIs ==
    ASSUME NEW r \in Requests
    PROVE  r.size \in Sizes /\ r.biased \in BOOLEAN
<1>1. CASE r \in {[size |-> s, biased |-> b] : s \in Sizes, b \in {FALSE}}
  <2>1. PICK s \in Sizes : r = [size |-> s, biased |-> FALSE]
    BY <1>1
  <2> QED
    BY <2>1
<1>2. CASE r \in {[size |-> s, biased |-> TRUE] : s \in BiasedSizes}
  <2>1. PICK s \in BiasedSizes : r = [size |-> s, biased |-> TRUE]
    BY <1>2
  <2> QED
    BY <2>1, LargeSegmentsAssumption
<1>3. \/ r \in {[size |-> s, biased |-> b] : s \in Sizes, b \in {FALSE}}
      \/ r \in {[size |-> s, biased |-> TRUE] : s \in BiasedSizes}
  BY SMT DEF Requests
<1> QED
  BY <1>1, <1>2, <1>3

LEMMA AllocSlowStep ==
    ASSUME IInv, AllocSlow
    PROVE  IInv'
<1> USE LargeSegmentsAssumption
<1>1. /\ LType /\ CacheInv /\ KeeperInv /\ want \in Requests
      /\ opc' = "idle" /\ want' = None
      /\ UNCHANGED <<scan, cursor, proVars, fatal>>
  BY DEF IInv, KeeperInv, CacheInv, LType, AllocSlow
<1>2. CASE UNCHANGED <<memVars, tabVars, entry>>
  BY <1>1, <1>2, DrainStep
<1>3. ASSUME NEW b \in Bases,
             hdr[b].phase = "Unmapped", CanRegister, Register(b),
             hdr' = [hdr EXCEPT ![b] = [phase |-> "Live", gen |-> 1,
                           size |-> want.size, biased |-> want.biased]],
             fate' = [fate EXCEPT ![b] = "client"],
             issued' = [issued EXCEPT ![b] = 1],
             UNCHANGED <<cache, used>>
      PROVE  IInv'
  <2> DEFINE w == [phase |-> "Live", gen |-> 1,
                   size |-> want.size, biased |-> want.biased]
  <2>1. w \in Header /\ w.phase = "Live" /\ w.gen = 1
    <3>1. want.size \in Sizes /\ want.biased \in BOOLEAN
      BY <1>1, RequestIs
    <3> QED
      BY <3>1 DEF Header, Phases
  <2> HIDE DEF w
  <2>2. /\ hdr' \in [Bases -> Header] /\ hdr'[b] = w
        /\ \A x \in Bases : x # b => hdr'[x] = hdr[x]
    <3>1. hdr' = [hdr EXCEPT ![b] = w]
      BY <1>3 DEF w
    <3> HIDE DEF Header
    <3> QED
      BY <1>1, <2>1, <3>1 DEF LType
  <2>3. ~ Registered(b) /\ ~ In(cache, b)
    BY <1>1, <1>3 DEF KeeperInv
  <2>4. CacheInv' /\ cache' \in Seq(Bases)
    BY <1>1, <1>3, <2>1, <2>2, <2>3 DEF CacheInv, LType
  <2> QED
    BY <1>1, <1>3, <2>1, <2>2, <2>3, <2>4, BlockComes DEF proVars
<1> QED
  BY <1>2, <1>3 DEF AllocSlow

LEMMA TrimStep ==
    ASSUME IInv, Trim
    PROVE  IInv'
<1>1. LType /\ CacheInv
  BY DEF IInv, KeeperInv, CacheInv
<1> DEFINE k == Len(cache)
<1>2. k \in 0 .. Len(cache)
  BY <1>1, LenProperties DEF LType
<1>3. /\ Without(k) \in [Bases -> Header]
      /\ \A x \in Bases :
           /\ Without(k)[x].phase = "Cached" <=> In(Evict(cache, k), x)
           /\ Without(k)[x].phase = "Live" <=> hdr[x].phase = "Live"
           /\ hdr[x].phase = "Live" => Without(k)[x] = hdr[x]
  BY <1>1, <1>2, EvictHeaders
<1>4. \A x : ~ In(Evict(cache, k), x)
  <2>1. Len(Evict(cache, k)) = Len(cache) - k /\ Len(cache) \in Nat
    BY <1>1, <1>2, EvictIs, LenProperties DEF LType
  <2> QED
    BY <2>1 DEF In
<1>5. hdr' = Without(k) /\ cache' = <<>>
  BY Zenon DEF Trim, Without
<1>6. UNCHANGED <<fate, issued, ownVars, tabVars, proVars, entry, fatal>>
  BY DEF Trim
<1> HIDE DEF k
<1>7. CacheInv' /\ cache' \in Seq(Bases)
  <2>1. Len(cache') = 0 /\ cache' \in Seq(Bases)
    BY <1>5
  <2>2. Once(cache') /\ \A x : ~ In(cache', x)
    BY <2>1 DEF Once, In
  <2>3. \A x \in Bases : hdr'[x].phase # "Cached"
    BY <1>3, <1>4, <1>5
  <2> QED
    BY <2>1, <2>2, <2>3 DEF CacheInv
<1> QED
  BY <1>1, <1>3, <1>5, <1>6, <1>7, CacheOnly
     DEF LType, ownVars, tabVars, proVars, tables, blocks

-----------------------------------------------------------------------------
(* Theorems                                                                *)

LEMMA StepHolds ==
    ASSUME IInv, [Next]_vars
    PROVE  IInv'
<1>0. /\ want \in Requests \cup {None}
      /\ opc \in {"alloc", "slow"} => want \in Requests
  BY DEF IInv, LType
<1>1. ASSUME NEW full \in BOOLEAN, NEW w \in Requests \cup {None},
             StartDrain(full, w)
      PROVE  IInv'
  BY <1>1, DrainStep DEF StartDrain
<1>2. CASE Wrap
  BY <1>0, <1>2, DrainStep DEF Wrap
<1>3. CASE Visit
  <2> DEFINE S == NextActive(scan.from)
  <2>1. S \in SUBSET Nat /\ S # {}
    BY <1>3, LargeSegmentsAssumption DEF Visit, NextActive, TableSlots
  <2>2. \E x \in S : \A y \in S : x =< y
    BY <2>1, HasLeast, Zenon
  <2>3. Min(S) \in S
    <3> HIDE DEF S
    <3> QED
      BY <2>2, Zenon DEF Min
  <2>4. Min(S) \in TableSlots /\ slots[Min(S)] # None
    BY <2>3 DEF NextActive
  <2>5. Retire(Min(S)) /\ UNCHANGED <<opc, want, proVars>>
    BY <1>3 DEF Visit
  <2> QED
    BY <2>4, <2>5, RetireStep
<1>4. CASE EndDrain
  <2>1. /\ UNCHANGED <<want, tabVars, memVars, proVars, entry, fatal>>
        /\ opc' = IF want = None THEN "idle" ELSE "alloc"
    BY <1>4 DEF EndDrain
  <2> QED
    BY <1>0, <2>1, DrainStep
<1>5. ASSUME NEW i \in TableSlots, Background(i)
      PROVE  IInv'
  BY <1>5, RetireStep DEF Background, ownVars
<1>6. CASE UNCHANGED vars
  BY <1>0, <1>6, DrainStep DEF vars, ownVars
<1> QED
  BY <1>1, <1>2, <1>3, <1>4, <1>5, <1>6, AllocLargeStep, AllocSlowStep,
     TrimStep, OwnFreeStep, FreeStep, LookupStep, PublishStep
     DEF Next, Owner, Producer

LEMMA AlwaysIInv == Spec => []IInv
<1>1. Init => IInv
  BY InitHolds
<1>2. IInv /\ [Next]_vars => IInv'
  BY StepHolds
<1> QED
  BY <1>1, <1>2, PTL DEF Spec

LEMMA KeptByOne ==
    ASSUME IInv
    PROVE  OneKeeper
<1> USE LargeSegmentsAssumption
<1>1. LType /\ TableInv /\ KeeperInv
  BY DEF IInv
<1>2. ASSUME NEW b \in Bases
      PROVE  LET at == {i \in TableSlots : slots[i] = b}
                 in == {i \in DOMAIN cache : cache[i] = b}
             IN  CASE hdr[b].phase = "Live" ->
                         /\ in = {} /\ Cardinality(at) = 1
                         /\ \A i \in at : Linked(b) = {routes[i]}
                   [] hdr[b].phase = "Cached" ->
                         Cardinality(in) = 1 /\ at = {} /\ Linked(b) = {}
                   [] OTHER -> in = {} /\ at = {} /\ Linked(b) = {}
  <2> DEFINE at == {i \in TableSlots : slots[i] = b}
             in == {i \in DOMAIN cache : cache[i] = b}
  <2>1. DOMAIN cache = 1 .. Len(cache)
    BY <1>1, LenProperties DEF LType
  <2>2. ~ In(cache, b) => in = {}
    BY <2>1 DEF In
  <2>3. ASSUME In(cache, b)
        PROVE  Cardinality(in) = 1
    <3>1. PICK i \in 1 .. Len(cache) : cache[i] = b
      BY <2>3 DEF In
    <3>2. in = {i}
      BY <1>1, <2>1, <3>1 DEF KeeperInv, Once
    <3> QED
      BY <3>2, FS_Singleton, Zenon
  <2>4. ASSUME ~ Registered(b)
        PROVE  at = {} /\ Linked(b) = {}
    <3>1. at = {}
      BY <2>4 DEF Registered
    <3>2. ASSUME NEW e \in Entries, entry[e].linked
          PROVE  entry[e].root # b
      <4>1. PICK i \in TableSlots : routes[i] = e
        BY <1>1, <3>2 DEF TableInv
      <4>2. slots[i] # None /\ entry[e].root = slots[i]
        BY <1>1, <4>1 DEF TableInv
      <4> QED
        BY <2>4, <4>2 DEF Registered
    <3> QED
      BY <3>1, <3>2 DEF Linked
  <2>5. ASSUME Registered(b)
        PROVE  Cardinality(at) = 1 /\ \A i \in at : Linked(b) = {routes[i]}
    <3>1. PICK i \in TableSlots : slots[i] = b
      BY <2>5 DEF Registered
    <3>2. at = {i}
      BY <1>1, <3>1 DEF TableInv
    <3>3. Cardinality(at) = 1
      BY <3>2, FS_Singleton, Zenon
    <3>4. /\ routes[i] \in Entries
          /\ entry[routes[i]].linked /\ entry[routes[i]].root = b
      BY <1>1, <3>1 DEF TableInv, LType
    <3>5. ASSUME NEW e \in Entries, entry[e].linked, entry[e].root = b
          PROVE  e = routes[i]
      <4>1. PICK j \in TableSlots : routes[j] = e
        BY <1>1, <3>5 DEF TableInv
      <4>2. slots[j] = b
        BY <1>1, <3>5, <4>1 DEF TableInv
      <4> QED
        BY <1>1, <3>1, <4>1, <4>2 DEF TableInv
    <3>6. Linked(b) = {routes[i]}
      BY <3>4, <3>5 DEF Linked
    <3> QED
      BY <3>2, <3>3, <3>6
  <2> HIDE DEF at, in
  <2>6. CASE hdr[b].phase = "Live"
    <3>1. Registered(b) /\ ~ In(cache, b)
      BY <1>1, <2>6 DEF KeeperInv
    <3> QED
      BY <2>2, <2>5, <2>6, <3>1 DEF at, in
  <2>7. CASE hdr[b].phase = "Cached"
    <3>1. ~ Registered(b) /\ In(cache, b)
      BY <1>1, <2>7 DEF KeeperInv
    <3>2. hdr[b].phase # "Live"
      BY <2>7
    <3> QED
      BY <2>3, <2>4, <2>7, <3>1, <3>2 DEF at, in
  <2>8. CASE hdr[b].phase # "Live" /\ hdr[b].phase # "Cached"
    <3>1. ~ Registered(b) /\ ~ In(cache, b)
      BY <1>1, <2>8 DEF KeeperInv
    <3> QED
      BY <2>2, <2>4, <2>8, <3>1 DEF at, in
  <2> QED
    BY <2>6, <2>7, <2>8
<1> QED
  BY <1>1, <1>2, Zenon DEF OneKeeper, KeeperInv

(* dealloc_large_at_base, reclaim_large_segment, evict_one_oldest: a block *)
(* that is out or on its way back has its reservation mapped, Live and in  *)
(* the generation it was handed out with.                                  *)
THEOREM BlocksKeepTheirMemory == Spec => []BlockKeepsItsMemory
<1>1. ASSUME IInv
      PROVE  BlockKeepsItsMemory
  <2>1. ASSUME NEW b \in Bases, fate[b] # "none"
        PROVE  hdr[b].phase = "Live" /\ hdr[b].gen = issued[b]
    <3>1. PICK i \in TableSlots : slots[i] = b
      BY <1>1, <2>1 DEF IInv, FateInv, Registered
    <3>2. b # None
      BY LargeSegmentsAssumption
    <3> QED
      BY <1>1, <2>1, <3>1, <3>2 DEF IInv, FateInv, KeeperInv
  <2> QED
    BY <2>1 DEF BlockKeepsItsMemory
<1> QED
  BY <1>1, AlwaysIInv, PTL

(* publish_foreign: a foreign free that has returned has found the route   *)
(* of its block and left it Pending, whatever the owner did meanwhile.     *)
THEOREM ForeignFreesAreRecorded == Spec => []ForeignFreeIsRecorded
<1>1. ASSUME IInv
      PROVE  ForeignFreeIsRecorded
  <2>1. ASSUME NEW b \in Bases, fate[b] = "sent"
        PROVE  \E e \in Linked(b) : entry[e].phase = "Pending"
    <3>1. PICK i \in TableSlots : slots[i] = b
      BY <1>1, <2>1 DEF IInv, FateInv, Registered
    <3>2. slots[i] # None
      BY <3>1, LargeSegmentsAssumption
    <3>3. /\ routes[i] \in Entries
          /\ entry[routes[i]].linked /\ entry[routes[i]].root = b
      BY <1>1, <3>1, <3>2 DEF IInv, TableInv, LType
    <3>4. entry[routes[i]].phase = "Pending"
      BY <1>1, <2>1, <3>1, <3>2 DEF IInv, FateInv
    <3> QED
      BY <3>3, <3>4 DEF Linked
  <2> QED
    BY <2>1 DEF ForeignFreeIsRecorded
<1> QED
  BY <1>1, AlwaysIInv, PTL

-----------------------------------------------------------------------------
(* The books of the cache                                                  *)

LEMMA CacheSet ==
    ASSUME NEW c \in Seq(Bases)
    PROVE  /\ ToSet(c) \in SUBSET Bases /\ IsFiniteSet(ToSet(c))
           /\ \A x : x \in ToSet(c) <=> In(c, x)
<1>1. DOMAIN c = 1 .. Len(c) /\ Len(c) \in Nat
  BY LenProperties
<1>2. IsFiniteSet(1 .. Len(c))
  <2>1. 1 \in Int /\ Len(c) \in Int
    BY <1>1
  <2> QED
    BY <2>1, FS_Interval, Zenon
<1>3. \A x : x \in ToSet(c) <=> In(c, x)
  BY <1>1 DEF ToSet, In
<1>4. \A i \in 1 .. Len(c) : c[i] \in Bases
  BY ElementOfSeq
<1>5. c \in [1 .. Len(c) -> ToSet(c)]
  <2>1. c \in [1 .. Len(c) -> Bases]
    BY LenProperties
  <2> QED
    BY <1>1, <1>3, <2>1 DEF In
<1>6. c \in Surjection(1 .. Len(c), ToSet(c))
  BY <1>3, <1>5, Fun_IsSurj DEF In
<1>7. IsFiniteSet(ToSet(c))
  BY <1>2, <1>6, FS_Surjection
<1> QED
  BY <1>3, <1>4, <1>7 DEF In

LEMMA SizesWeigh ==
    ASSUME NEW h \in [Bases -> Header], NEW S \in SUBSET Bases
    PROVE  Weighs(h, S)
<1>1. Sizes \cup {0} \subseteq Nat
  BY LargeSegmentsAssumption
<1>2. \A x \in Bases : h[x].size \in Sizes \cup {0}
  BY DEF Header
<1> HIDE DEF Header
<1> QED
  BY <1>1, <1>2 DEF Weighs

(* What goes with the k oldest and what stays make up the whole.           *)
LEMMA BooksSplit ==
    ASSUME LType, NEW c \in Seq(Bases), Once(c), NEW k \in 0 .. Len(c)
    PROVE  /\ Sum(c) = Freed(c, k) + Sum(Evict(c, k))
           /\ Sum(c) \in Nat /\ Freed(c, k) \in Nat /\ Sum(Evict(c, k)) \in Nat
<1> DEFINE S == ToSet(c)
           A == Evicted(c, k)
           R == ToSet(Evict(c, k))
<1>1. /\ Evict(c, k) \in Seq(Bases)
      /\ \A b \in Bases : In(Evict(c, k), b) <=> In(c, b) /\ b \notin A
      /\ \A b \in A : In(c, b) /\ b \in Bases
  BY EvictSplits
<1>2. /\ S \in SUBSET Bases /\ IsFiniteSet(S) /\ \A x : x \in S <=> In(c, x)
      /\ R \in SUBSET Bases /\ IsFiniteSet(R)
      /\ \A x : x \in R <=> In(Evict(c, k), x)
  BY <1>1, CacheSet
<1> HIDE DEF S, A, R
<1>3. A \in SUBSET S /\ R = S \ A
  BY <1>1, <1>2
<1>4. Weighs(hdr, S) /\ Weighs(hdr, A) /\ Weighs(hdr, R)
  BY <1>2, <1>3, SizesWeigh DEF LType
<1>5. Total(hdr, S) = Total(hdr, A) + Total(hdr, S \ A)
  BY <1>2, <1>3, <1>4, TotalSplit
<1>6. IsFiniteSet(A)
  BY <1>2, <1>3, FS_Subset
<1>7. Total(hdr, S) \in Nat /\ Total(hdr, A) \in Nat /\ Total(hdr, R) \in Nat
  BY <1>2, <1>4, <1>6, TotalNat
<1> QED
  BY <1>3, <1>5, <1>7 DEF Sum, Freed, S, A, R

(* The byte count is the sum of the cached sizes, within both limits.      *)
BooksInv ==
    /\ used = Sum(cache) /\ used <= BUDGET
    /\ Len(cache) <= LARGE_CACHE_SLOTS

(* The typing of what the owner keeps for its drains.                      *)
Scans == [full : BOOLEAN, start : 0 .. MAX_SEGMENTS, end : Int,
          from : 0 .. MAX_SEGMENTS, wrapped : BOOLEAN, inspected : Int]

OwnerType ==
    /\ cursor \in 0 .. MAX_SEGMENTS
    /\ opc \in {"idle", "visit", "alloc", "slow"}
    /\ scan \in Scans
    /\ fatal \in BOOLEAN

(* A sum that nothing in it has moved.                                     *)
LEMMA BooksSame ==
    ASSUME NEW c \in Seq(Bases), NEW h, NEW g,
           \A x \in Bases : In(c, x) => g[x].size = h[x].size
    PROVE  Total(g, ToSet(c)) = Total(h, ToSet(c))
<1>1. /\ ToSet(c) \in SUBSET Bases /\ IsFiniteSet(ToSet(c))
      /\ \A x : x \in ToSet(c) <=> In(c, x)
  BY CacheSet
<1>2. SameSizes(g, h, ToSet(c))
  BY <1>1 DEF SameSizes
<1> QED
  BY <1>1, <1>2, TotalSame

LEMMA DepositBooks ==
    ASSUME IInv, BooksInv, NEW b \in Bases, hdr[b].phase = "Live", Deposit(b)
    PROVE  BooksInv'
<1> USE LargeSegmentsAssumption
<1>1. PICK d \in Decays :
        LET c == Evict(cache, d)
            u == used - Freed(cache, d)
            size == hdr[b].size
            k == IF Cacheable(hdr[b]) THEN Admission(c, u, size) ELSE 0
            keep == Cacheable(hdr[b]) /\ Room(c, u, size, k)
        IN  /\ cache' = IF keep THEN Append(Evict(c, k), b) ELSE Evict(c, k)
            /\ used' = UsedWith(u, c, k, IF keep THEN size ELSE 0)
            /\ hdr' = [x \in Bases |->
                         CASE x \in Evicted(cache, d + k) -> Unmapped
                           [] x = b /\ keep -> [hdr[b] EXCEPT !.phase = "Cached"]
                           [] x = b /\ ~ keep -> Unmapped
                           [] OTHER -> hdr[x]]
  BY Zenon DEF Deposit
<1> DEFINE c == Evict(cache, d)
           u == used - Freed(cache, d)
           size == hdr[b].size
           k == IF Cacheable(hdr[b]) THEN Admission(c, u, size) ELSE 0
           keep == Cacheable(hdr[b]) /\ Room(c, u, size, k)
           rest == Evict(c, k)
           gone == Evicted(cache, d + k)
<1>2. /\ cache' = IF keep THEN Append(rest, b) ELSE rest
      /\ used' = u - Freed(c, k) + (IF keep THEN size ELSE 0)
      /\ hdr' = [x \in Bases |->
                   CASE x \in gone -> Unmapped
                     [] x = b /\ keep -> [hdr[b] EXCEPT !.phase = "Cached"]
                     [] x = b /\ ~ keep -> Unmapped
                     [] OTHER -> hdr[x]]
  BY <1>1, Zenon DEF UsedWith
<1>3. /\ d \in 0 .. Len(cache) /\ cache \in Seq(Bases) /\ Once(cache)
      /\ ~ In(cache, b) /\ LType
  BY DEF Decays, IInv, LType, KeeperInv
<1>4. /\ c \in Seq(Bases) /\ Once(c)
      /\ \A x \in Bases : In(c, x) <=> In(cache, x) /\ x \notin Evicted(cache, d)
      /\ Len(c) = Len(cache) - d
  BY <1>3, EvictSplits, EvictIs
<1>5. k \in 0 .. Len(c)
  <2> HIDE DEF c, u, size
  <2>1. Admission(c, u, size) \in 0 .. Len(c) /\ 0 \in 0 .. Len(c)
    BY <1>4, AdmissionIs, LenProperties
  <2> QED
    BY <2>1
<1>6. \A x : x \in gone <=> x \in Evicted(cache, d) \/ x \in Evicted(c, k)
  BY <1>3, <1>5, EvictTwice
<1>7. /\ rest \in Seq(Bases) /\ Once(rest)
      /\ \A x \in Bases : In(rest, x) <=> In(c, x) /\ x \notin Evicted(c, k)
      /\ Len(rest) = Len(c) - k
  <2> HIDE DEF c, k
  <2> QED
    BY <1>4, <1>5, EvictSplits, EvictIs
<1>8. /\ Sum(cache) = Freed(cache, d) + Sum(c)
      /\ Sum(cache) \in Nat /\ Freed(cache, d) \in Nat /\ Sum(c) \in Nat
  BY <1>3, BooksSplit
<1>9. /\ Sum(c) = Freed(c, k) + Sum(rest)
      /\ Freed(c, k) \in Nat /\ Sum(rest) \in Nat
  <2> HIDE DEF c, k
  <2> QED
    BY <1>3, <1>4, <1>5, BooksSplit
<1>10. u - Freed(c, k) = Sum(rest)
  <2> HIDE DEF c, k, rest
  <2> QED
    BY <1>8, <1>9 DEF BooksInv
<1>11. keep => Len(c) - k < LARGE_CACHE_SLOTS /\ u - Freed(c, k) + size <= BUDGET
  <2> HIDE DEF c, u, size, k
  <2> QED
    BY DEF Room
<1>12. /\ size \in Nat /\ Len(cache) \in Nat /\ BUDGET \in Nat
       /\ LARGE_CACHE_SLOTS \in Nat
       /\ used = Sum(cache) /\ used <= BUDGET /\ Len(cache) <= LARGE_CACHE_SLOTS
  <2>1. Weighs(hdr, Bases)
    BY <1>3, SizesWeigh DEF LType
  <2> QED
    BY <1>3, <2>1, LenProperties DEF BooksInv, Weighs
<1> HIDE DEF c, u, size, k, keep, rest, gone
<1>13. \A x \in Bases : In(rest, x) =>
         /\ x \notin gone /\ x # b
         /\ hdr'[x].size = hdr[x].size
  <2>1. TAKE x \in Bases
  <2>2. SUFFICES ASSUME In(rest, x)
                 PROVE  x \notin gone /\ x # b /\ hdr'[x].size = hdr[x].size
    OBVIOUS
  <2>3. x \notin gone /\ x # b
    BY <1>3, <1>4, <1>6, <1>7, <2>2
  <2> QED
    BY <1>2, <2>3
<1>14. Total(hdr', ToSet(rest)) = Sum(rest)
  BY <1>7, <1>13, BooksSame DEF Sum
<1>15. CASE ~ keep
  <2>1. cache' = rest /\ used' = Sum(rest)
    BY <1>2, <1>9, <1>10, <1>15
  <2>2. used' = Sum(cache)'
    BY <1>14, <2>1 DEF Sum
  <2>3. used' <= BUDGET
    BY <1>8, <1>9, <1>12, <2>1
  <2>4. Len(cache') <= LARGE_CACHE_SLOTS
    BY <1>3, <1>4, <1>5, <1>7, <1>12, <2>1
  <2> QED
    BY <2>2, <2>3, <2>4 DEF BooksInv
<1>16. CASE keep
  <2>1. cache' = Append(rest, b) /\ used' = Sum(rest) + size
    BY <1>2, <1>10, <1>16
  <2>2. ~ In(rest, b)
    BY <1>13
  <2>3. /\ cache' \in Seq(Bases)
        /\ \A x \in Bases : In(cache', x) <=> In(rest, x) \/ x = b
        /\ Len(cache') = Len(rest) + 1
    BY <1>7, <2>1, <2>2, AppendOnce, AppendProperties
  <2> DEFINE S == ToSet(cache')
  <2>4. /\ S \in SUBSET Bases /\ IsFiniteSet(S)
        /\ \A x : x \in S <=> In(cache', x)
        /\ ToSet(rest) \in SUBSET Bases
        /\ \A x : x \in ToSet(rest) <=> In(rest, x)
    BY <1>7, <2>3, CacheSet
  <2> HIDE DEF S
  <2>5. b \in S /\ S \ {b} = ToSet(rest)
    BY <2>2, <2>3, <2>4
  <2>6. hdr' \in [Bases -> Header] /\ hdr'[b].size = size
    <3>1. hdr' \in [Bases -> Header]
      BY <1>3, DepositMoves DEF IInv, KeeperInv, CacheInv
    <3>2. b \notin gone
      <4>1. \A x \in Evicted(cache, d) : In(cache, x)
        BY <1>3, EvictSplits
      <4>2. \A x \in Evicted(c, k) : In(c, x)
        BY <1>4, <1>5, EvictSplits
      <4> QED
        BY <1>3, <1>4, <1>6, <4>1, <4>2
    <3>3. hdr'[b] = [hdr[b] EXCEPT !.phase = "Cached"]
      BY <1>2, <1>16, <3>2
    <3>4. hdr[b] \in Header
      BY <1>3 DEF LType
    <3> QED
      BY <3>1, <3>3, <3>4 DEF Header, size
  <2>7. Total(hdr', S) = hdr'[b].size + Total(hdr', S \ {b})
    <3>1. Weighs(hdr', S)
      BY <2>4, <2>6, SizesWeigh
    <3> QED
      BY <2>4, <2>5, <3>1, TotalTake
  <2>8. used' = Sum(cache)'
    <3>1. Total(hdr', S) = size + Sum(rest)
      BY <1>14, <2>5, <2>6, <2>7
    <3> QED
      BY <1>9, <1>12, <2>1, <3>1 DEF Sum, S
  <2>9. used' <= BUDGET
    BY <1>10, <1>11, <1>16, <2>1
  <2>10. Len(cache') <= LARGE_CACHE_SLOTS
    BY <1>4, <1>5, <1>7, <1>11, <1>12, <1>16, <2>3, LenProperties
  <2> QED
    BY <2>8, <2>9, <2>10 DEF BooksInv
<1> QED
  BY <1>15, <1>16

LEMMA AllocLargeBooks ==
    ASSUME IInv, BooksInv, AllocLarge
    PROVE  BooksInv'
<1> USE LargeSegmentsAssumption
<1>1. PICK d \in Decays :
        LET c == Evict(cache, d)
            u == used - Freed(cache, d)
            h == [x \in Bases |-> IF x \in Evicted(cache, d) THEN Unmapped
                                  ELSE hdr[x]]
            hits == IF want.biased THEN {} ELSE BestFits(c)
        IN  \/ /\ hits = {}
               /\ cache' = c /\ used' = u /\ hdr' = h
               /\ opc' = "slow"
               /\ UNCHANGED <<want, fate, issued, tabVars, entry>>
            \/ \E i \in hits :
               LET b == c[i] IN
               /\ cache' = RemoveAt(c, i) /\ used' = u - h[b].size
               /\ \/ /\ CanReuse(h[b].gen) /\ CanRegister
                     /\ Register(b)
                     /\ hdr' = [h EXCEPT ![b].phase = "Live", ![b].gen = @ + 1]
                     /\ fate' = [fate EXCEPT ![b] = "client"]
                     /\ issued' = [issued EXCEPT ![b] = h[b].gen + 1]
                     /\ opc' = "idle" /\ want' = None
                  \/ /\ hdr' = [h EXCEPT ![b] = Unmapped]
                     /\ opc' = "slow"
                     /\ UNCHANGED <<want, fate, issued, tabVars, entry>>
  BY DEF AllocLarge
<1> DEFINE c == Evict(cache, d)
           u == used - Freed(cache, d)
           h == [x \in Bases |-> IF x \in Evicted(cache, d) THEN Unmapped
                                 ELSE hdr[x]]
           hits == IF want.biased THEN {} ELSE BestFits(c)
<1>2. d \in 0 .. Len(cache) /\ cache \in Seq(Bases) /\ Once(cache) /\ LType
  BY DEF Decays, IInv, LType, KeeperInv
<1>3. /\ c \in Seq(Bases) /\ Once(c)
      /\ \A x \in Bases : In(c, x) <=> In(cache, x) /\ x \notin Evicted(cache, d)
      /\ Len(c) = Len(cache) - d
  BY <1>2, EvictSplits, EvictIs
<1>4. hits \subseteq 1 .. Len(c)
  BY <1>3, LenProperties DEF BestFits, Fits
<1>5. /\ Sum(cache) = Freed(cache, d) + Sum(c)
      /\ Sum(cache) \in Nat /\ Freed(cache, d) \in Nat /\ Sum(c) \in Nat
  BY <1>2, BooksSplit
<1>6. /\ u = Sum(c) /\ u <= BUDGET
      /\ Len(c) <= LARGE_CACHE_SLOTS
      /\ BUDGET \in Nat /\ LARGE_CACHE_SLOTS \in Nat /\ Len(c) \in Nat
  BY <1>2, <1>3, <1>5, LenProperties DEF BooksInv
<1>7. \A x \in Bases : In(c, x) => h[x] = hdr[x]
  BY <1>3
<1>8. CASE cache' = c /\ used' = u /\ hdr' = h
  <2>1. Total(hdr', ToSet(c)) = Sum(c)
    <3>1. \A x \in Bases : In(c, x) => hdr'[x].size = hdr[x].size
      BY <1>7, <1>8
    <3> QED
      BY <1>3, <3>1, BooksSame DEF Sum
  <2>2. used' = Sum(cache)'
    BY <1>6, <1>8, <2>1 DEF Sum
  <2> QED
    BY <1>6, <1>8, <2>2 DEF BooksInv
<1>9. ASSUME NEW i \in hits, cache' = RemoveAt(c, i), used' = u - h[c[i]].size,
             \A x \in Bases : x # c[i] => hdr'[x] = h[x]
      PROVE  BooksInv'
  <2> DEFINE b == c[i]
             S == ToSet(c)
             R == ToSet(cache')
  <2>1. i \in 1 .. Len(c)
    BY <1>4
  <2>2. b \in Bases /\ In(c, b)
    BY <1>3, <2>1, ElementOfSeq DEF In
  <2>3. /\ cache' \in Seq(Bases)
        /\ \A x \in Bases : In(cache', x) <=> In(c, x) /\ x # b
        /\ Len(cache') <= Len(c)
    BY <1>3, <1>9, <2>1, RemoveOnce
  <2>4. /\ S \in SUBSET Bases /\ IsFiniteSet(S) /\ \A x : x \in S <=> In(c, x)
        /\ R \in SUBSET Bases /\ \A x : x \in R <=> In(cache', x)
    BY <1>3, <2>3, CacheSet
  <2>5. h[b] = hdr[b]
    BY <1>7, <2>2
  <2> HIDE DEF b, S, R, c, h, u, hits
  <2>6. b \in S /\ S \ {b} = R
    BY <2>2, <2>3, <2>4
  <2>7. Weighs(hdr, S)
    BY <1>2, <2>4, SizesWeigh DEF LType
  <2>8. Total(hdr, S) = hdr[b].size + Total(hdr, S \ {b})
    BY <2>4, <2>6, <2>7, TotalTake
  <2>9. Weighs(hdr, R) /\ IsFiniteSet(R)
    BY <2>4, <2>6, <2>7, FS_Subset DEF Weighs
  <2>10. Total(hdr, R) \in Nat
    BY <2>9, TotalNat
  <2>11. hdr[b].size \in Nat
    BY <2>6, <2>7 DEF Weighs
  <2>12. Total(hdr', R) = Total(hdr, R)
    <3>1. \A x \in Bases : In(cache', x) => hdr'[x].size = hdr[x].size
      BY <1>7, <1>9, <2>3 DEF b
    <3> QED
      BY <2>3, <3>1, BooksSame DEF R
  <2>13. used' = Total(hdr', R)
    <3>1. used' = u - hdr[b].size
      BY <1>9, <2>5 DEF b
    <3>2. u = Total(hdr, S)
      BY <1>6 DEF Sum, S
    <3> QED
      BY <2>6, <2>8, <2>10, <2>11, <2>12, <3>1, <3>2
  <2>14. used' = Sum(cache)'
    BY <2>13 DEF Sum, R
  <2>15. used' <= BUDGET
    <3>1. used' = u - hdr[b].size
      BY <1>9, <2>5 DEF b
    <3>2. u \in Nat
      BY <1>5, <1>6
    <3> QED
      BY <1>6, <2>11, <3>1, <3>2
  <2>16. Len(cache') <= LARGE_CACHE_SLOTS
    BY <1>6, <2>3, LenProperties
  <2> QED
    BY <2>14, <2>15, <2>16 DEF BooksInv
<1>10. ASSUME NEW i \in hits, cache' = RemoveAt(c, i), used' = u - h[c[i]].size,
              \/ hdr' = [h EXCEPT ![c[i]].phase = "Live", ![c[i]].gen = @ + 1]
              \/ hdr' = [h EXCEPT ![c[i]] = Unmapped]
       PROVE  BooksInv'
  <2>1. \A x \in Bases : x # c[i] => hdr'[x] = h[x]
    BY <1>10
  <2> QED
    BY <1>9, <1>10, <2>1
<1> QED
  BY <1>1, <1>8, <1>10, Zenon

LEMMA TrimBooks ==
    ASSUME IInv, BooksInv, Trim
    PROVE  BooksInv'
<1>1. cache' = <<>> /\ used' = used - Sum(cache)
  BY DEF Trim
<1>2. Sum(cache) \in Nat
  <2>1. cache \in Seq(Bases) /\ Once(cache) /\ LType /\ 0 \in 0 .. Len(cache)
    BY LenProperties DEF IInv, LType, KeeperInv
  <2> QED
    BY <2>1, BooksSplit
<1>3. used' = 0
  BY <1>1, <1>2 DEF BooksInv
<1>4. ToSet(cache') = {} /\ Len(cache') = 0
  BY <1>1 DEF ToSet
<1>5. Sum(cache)' = 0
  BY <1>4, TotalEmpty DEF Sum
<1> QED
  BY <1>3, <1>4, <1>5, LargeSegmentsAssumption DEF BooksInv

LEMMA AllocSlowBooks ==
    ASSUME IInv, BooksInv, AllocSlow
    PROVE  BooksInv'
<1>1. CASE UNCHANGED <<memVars, tabVars, entry>>
  BY <1>1 DEF memVars, BooksInv, Sum
<1>2. ASSUME NEW b \in Bases, hdr[b].phase = "Unmapped",
             hdr' = [hdr EXCEPT ![b] = [phase |-> "Live", gen |-> 1,
                           size |-> want.size, biased |-> want.biased]],
             UNCHANGED <<cache, used>>
      PROVE  BooksInv'
  <2>1. ~ In(cache, b) /\ cache \in Seq(Bases)
    BY <1>2 DEF IInv, KeeperInv, LType
  <2>2. \A x \in Bases : In(cache, x) => hdr'[x].size = hdr[x].size
    BY <1>2, <2>1
  <2>3. Total(hdr', ToSet(cache)) = Total(hdr, ToSet(cache))
    BY <2>1, <2>2, BooksSame
  <2> QED
    BY <1>2, <2>3 DEF BooksInv, Sum
<1> QED
  BY <1>1, <1>2 DEF AllocSlow

LEMMA ScanMoves ==
    ASSUME NEW A, NEW B, NEW w \in BOOLEAN, NEW x \in A, NEW y \in B,
           NEW s \in [full : BOOLEAN, start : A, end : B, from : A,
                      wrapped : BOOLEAN, inspected : B]
    PROVE  [s EXCEPT !.wrapped = w, !.from = x, !.inspected = y]
             \in [full : BOOLEAN, start : A, end : B, from : A,
                  wrapped : BOOLEAN, inspected : B]
OBVIOUS

(* The typing of a drain: it moves     its cursors within the table.       *)
LEMMA ScanStep ==
    ASSUME IInv, OwnerType, [Next]_vars
    PROVE  OwnerType'
<1> USE LargeSegmentsAssumption
<1>1. count \in 0 .. MAX_SEGMENTS
  BY DEF IInv, LType
<1>2. ASSUME NEW full \in BOOLEAN, NEW w \in Requests \cup {None},
             StartDrain(full, w)
      PROVE  OwnerType'
  <2> DEFINE c == IF cursor >= count THEN 0 ELSE cursor
  <2>1. /\ cursor' = IF full THEN cursor ELSE c
        /\ scan' = [full |-> full, start |-> IF full THEN 0 ELSE c,
                    end |-> count, from |-> IF full THEN 0 ELSE c,
                    wrapped |-> full, inspected |-> 0]
        /\ opc' = "visit" /\ fatal' = fatal
    BY <1>2, Zenon DEF StartDrain
  <2>2. c \in 0 .. MAX_SEGMENTS
    BY <1>1 DEF OwnerType
  <2> HIDE DEF c
  <2> QED
    BY <1>1, <2>1, <2>2 DEF OwnerType, Scans
<1>3. CASE Wrap
  <2>1. [scan EXCEPT !.wrapped = TRUE, !.from = 0] \in Scans
    <3>1. [scan EXCEPT !.wrapped = TRUE, !.from = 0,
                       !.inspected = scan.inspected] \in Scans
      <4>1. scan \in Scans /\ 0 \in 0 .. MAX_SEGMENTS /\ TRUE \in BOOLEAN
        BY DEF OwnerType
      <4>2. scan.inspected \in Int
        BY <4>1 DEF Scans
      <4> QED
        BY <4>1, <4>2, ScanMoves, Zenon DEF Scans
    <3>2. [scan EXCEPT !.wrapped = TRUE, !.from = 0]
            = [scan EXCEPT !.wrapped = TRUE, !.from = 0,
                           !.inspected = scan.inspected]
      BY DEF OwnerType, Scans
    <3> QED
      BY <3>1, <3>2
  <2> QED
    BY <1>3, <2>1 DEF Wrap, OwnerType
<1>4. CASE Visit
  <2> DEFINE S == NextActive(scan.from)
             i == Min(S)
  <2>1. S \in SUBSET Nat /\ S # {}
    BY <1>4 DEF Visit, NextActive, TableSlots
  <2>2. i \in TableSlots
    <3>1. \E x \in S : \A y \in S : x =< y
      BY <2>1, HasLeast, Zenon
    <3>2. i \in S
      <4> HIDE DEF S
      <4> QED
        BY <3>1, Zenon DEF Min
    <3> QED
      BY <3>2 DEF NextActive
  <2>3. /\ Retire(i) /\ UNCHANGED <<opc, cursor>>
        /\ scan' = [scan EXCEPT !.from = i + 1, !.inspected = @ + 1]
    BY <1>4 DEF Visit
  <2> HIDE DEF i
  <2>4. i + 1 \in 0 .. MAX_SEGMENTS
    BY <2>2 DEF TableSlots
  <2>5. fatal' \in BOOLEAN
    BY <2>3, Zenon DEF Retire, OwnerType
  <2>6. [scan EXCEPT !.from = i + 1, !.inspected = @ + 1] \in Scans
    <3>1. scan \in Scans /\ scan.wrapped \in BOOLEAN
          /\ scan.inspected + 1 \in Int
      BY DEF OwnerType, Scans
    <3>2. [scan EXCEPT !.wrapped = scan.wrapped, !.from = i + 1,
                       !.inspected = scan.inspected + 1] \in Scans
      BY <2>4, <3>1, ScanMoves, Zenon DEF Scans
    <3>3. [scan EXCEPT !.from = i + 1, !.inspected = @ + 1]
            = [scan EXCEPT !.wrapped = scan.wrapped, !.from = i + 1,
                           !.inspected = scan.inspected + 1]
      BY <3>1 DEF Scans
    <3> QED
      BY <3>2, <3>3
  <2> QED
    BY <2>3, <2>5, <2>6 DEF OwnerType
<1>5. CASE EndDrain
  <2>1. /\ cursor' = IF scan.full THEN cursor ELSE CursorAfter
        /\ scan' = NoScan /\ opc' = IF want = None THEN "idle" ELSE "alloc"
        /\ fatal' = fatal
    BY <1>5 DEF EndDrain
  <2>2. CursorAfter \in 0 .. MAX_SEGMENTS
    BY DEF CursorAfter, OwnerType, Scans
  <2>3. NoScan \in Scans
    BY DEF NoScan, Scans
  <2> QED
    BY <2>1, <2>2, <2>3 DEF OwnerType
<1>6. CASE AllocLarge
  <2>1. UNCHANGED <<scan, cursor, fatal>> /\ opc' \in {"idle", "slow"}
    BY <1>6 DEF AllocLarge
  <2> QED
    BY <2>1 DEF OwnerType
<1>7. CASE AllocSlow
  BY <1>7 DEF AllocSlow, OwnerType
<1>8. CASE Trim
  BY <1>8 DEF Trim, OwnerType, ownVars
<1>9. ASSUME NEW b \in Bases, OwnFree(b)
      PROVE  OwnerType'
  <2>1. UNCHANGED ownVars /\ fatal' \in BOOLEAN
    BY <1>9, Zenon DEF OwnFree, OwnerType
  <2> QED
    BY <2>1 DEF OwnerType, ownVars
<1>10. ASSUME NEW i \in TableSlots, Background(i)
       PROVE  OwnerType'
  <2>1. UNCHANGED ownVars /\ Retire(i)
    BY <1>10 DEF Background
  <2>2. fatal' \in BOOLEAN
    BY <2>1, Zenon DEF Retire, OwnerType
  <2> QED
    BY <2>1, <2>2 DEF OwnerType, ownVars
<1>11. ASSUME NEW p \in Producers, Producer(p)
       PROVE  OwnerType'
  BY <1>11 DEF Producer, Free, Lookup, Publish, ownVars, OwnerType
<1>12. CASE UNCHANGED vars
  BY <1>12 DEF vars, ownVars, OwnerType
<1> QED
  BY <1>2, <1>3, <1>4, <1>5, <1>6, <1>7, <1>8, <1>9, <1>10, <1>11, <1>12
     DEF Next, Owner

LEMMA BooksStep ==
    ASSUME IInv, BooksInv, [Next]_vars
    PROVE  BooksInv'
<1>1. CASE UNCHANGED <<hdr, cache, used>>
  BY <1>1 DEF BooksInv, Sum
<1>2. ASSUME NEW b \in Bases, OwnFree(b)
      PROVE  BooksInv'
  <2>1. \/ UNCHANGED <<hdr, cache, used>>
        \/ hdr[b].phase = "Live" /\ Deposit(b)
    BY <1>2, Zenon DEF OwnFree
  <2> QED
    BY <1>1, <2>1, DepositBooks
<1>3. ASSUME NEW i \in TableSlots, slots[i] # None, Retire(i)
      PROVE  BooksInv'
  <2>1. slots[i] \in Bases
    BY <1>3 DEF IInv, LType
  <2>2. \/ UNCHANGED <<hdr, cache, used>>
        \/ hdr[slots[i]].phase = "Live" /\ Deposit(slots[i])
    BY <1>3, Zenon DEF Retire, memVars
  <2> QED
    BY <1>1, <2>1, <2>2, DepositBooks
<1>4. CASE Visit
  <2> DEFINE S == NextActive(scan.from)
  <2>1. S \in SUBSET Nat /\ S # {}
    BY <1>4, LargeSegmentsAssumption DEF Visit, NextActive, TableSlots
  <2>2. \E x \in S : \A y \in S : x =< y
    BY <2>1, HasLeast, Zenon
  <2>3. Min(S) \in S
    <3> HIDE DEF S
    <3> QED
      BY <2>2, Zenon DEF Min
  <2>4. Min(S) \in TableSlots /\ slots[Min(S)] # None
    BY <2>3 DEF NextActive
  <2>5. Retire(Min(S))
    BY <1>4 DEF Visit
  <2> QED
    BY <1>3, <2>4, <2>5
<1>5. ASSUME NEW i \in TableSlots, Background(i)
      PROVE  BooksInv'
  BY <1>3, <1>5 DEF Background
<1>6. ASSUME NEW full \in BOOLEAN, NEW w \in Requests \cup {None},
             StartDrain(full, w)
      PROVE  BooksInv'
  BY <1>1, <1>6 DEF StartDrain, memVars
<1>7. CASE Wrap \/ EndDrain
  BY <1>1, <1>7 DEF Wrap, EndDrain, memVars
<1>8. ASSUME NEW p \in Producers, Producer(p)
      PROVE  BooksInv'
  BY <1>1, <1>8 DEF Producer, Free, Lookup, Publish
<1>9. CASE UNCHANGED vars
  BY <1>1, <1>9 DEF vars, memVars
<1> QED
  BY <1>2, <1>4, <1>5, <1>6, <1>7, <1>8, <1>9, AllocLargeBooks,
     AllocSlowBooks, TrimBooks DEF Next, Owner

LEMMA BooksInit ==
    ASSUME Init
    PROVE  BooksInv /\ OwnerType
<1> USE LargeSegmentsAssumption
<1>1. ToSet(cache) = {} /\ Len(cache) = 0
  BY DEF Init, ToSet
<1>2. Sum(cache) = 0
  BY <1>1, TotalEmpty DEF Sum
<1>3. NoScan \in Scans
  BY DEF NoScan, Scans
<1>4. used = 0 /\ cursor = 0 /\ opc = "idle" /\ scan = NoScan /\ fatal = FALSE
  BY DEF Init
<1>5. 0 <= BUDGET /\ 0 <= LARGE_CACHE_SLOTS /\ 0 \in 0 .. MAX_SEGMENTS
  OBVIOUS
<1> QED
  BY <1>1, <1>2, <1>3, <1>4, <1>5, Zenon DEF BooksInv, OwnerType

(* A list that holds none of n numbers twice is no longer than n.          *)
LEMMA FreeListFits ==
    ASSUME LType, FreeInv
    PROVE  Len(free_list) <= count
<1> DEFINE n == Len(free_list)
           T == 0 .. count - 1
<1>1. /\ n \in Nat /\ count \in Nat
      /\ free_list \in [1 .. n -> TableSlots]
  BY LargeSegmentsAssumption, LenProperties DEF LType
<1>2. free_list \in [1 .. n -> T]
  BY <1>1 DEF FreeInv, TableSlots
<1>3. free_list \in Injection(1 .. n, T)
  BY <1>2, Fun_IsInj DEF FreeInv
<1>4. /\ IsFiniteSet(1 .. n) /\ Cardinality(1 .. n) = n
      /\ IsFiniteSet(T) /\ Cardinality(T) = count
  <2>1. 1 \in Int /\ n \in Int /\ 0 \in Int /\ count - 1 \in Int
    BY <1>1
  <2>2. /\ IsFiniteSet(1 .. n) /\ IsFiniteSet(T)
        /\ Cardinality(1 .. n) = IF 1 > n THEN 0 ELSE n - 1 + 1
        /\ Cardinality(T) = IF 0 > count - 1 THEN 0 ELSE count - 1 - 0 + 1
    BY <2>1, FS_Interval, Zenon
  <2> QED
    BY <1>1, <2>2
<1>5. Cardinality(1 .. n) <= Cardinality(T)
  BY <1>3, <1>4, FS_Injection
<1> QED
  BY <1>4, <1>5

LEMMA TypeHolds ==
    ASSUME IInv, BooksInv, OwnerType
    PROVE  TypeOK
<1> USE LargeSegmentsAssumption
<1>1. LType /\ FreeInv
  BY DEF IInv, TableInv
<1>2. \A b \in Bases :
        /\ hdr[b].phase \in Phases
        /\ hdr[b].gen \in 0 .. MAX_LARGE_GENERATION
        /\ hdr[b].size \in Sizes \cup {0} /\ hdr[b].biased \in BOOLEAN
  BY <1>1 DEF LType, Header
<1>3. \A e \in Entries :
        /\ entry[e].phase \in {"Unused", "Live", "Pending", "Consuming"}
        /\ entry[e].root \in Bases \cup {None}
        /\ entry[e].linked \in BOOLEAN
  BY <1>1 DEF LType, RouteWord
<1>4. /\ \A i \in DOMAIN free_list : free_list[i] \in 0 .. count - 1
      /\ Len(free_list) <= count
  <2>1. /\ DOMAIN free_list = 1 .. Len(free_list)
        /\ free_list \in [1 .. Len(free_list) -> TableSlots]
    BY <1>1, LenProperties DEF LType
  <2>2. \A i \in 1 .. Len(free_list) : free_list[i] \in 0 .. count - 1
    BY <1>1, <2>1 DEF LType, FreeInv, TableSlots
  <2> QED
    BY <1>1, <2>1, <2>2, FreeListFits
<1>5. used \in Nat
  <2>1. cache \in Seq(Bases) /\ Once(cache) /\ LType /\ 0 \in 0 .. Len(cache)
    BY LenProperties DEF IInv, LType, KeeperInv
  <2>2. Sum(cache) \in Nat
    BY <2>1, BooksSplit
  <2> QED
    BY <2>2 DEF BooksInv
<1> QED
  BY <1>1, <1>2, <1>3, <1>4, <1>5, Zenon DEF TypeOK, LType, OwnerType

(* register_payload, unregister, deposit, take, evict: a reservation is in *)
(* one slot with one route, or in the cache once, or unmapped, no abort of *)
(* the header transitions is reached, and the byte count of the cache is   *)
(* the sum of what it holds, which saturating_sub would not let on, within *)
(* the limits of the cache.                                                *)
THEOREM ReservationsStayKept == Spec => []ReservationsAreKept
<1>1. Init => BooksInv /\ OwnerType
  BY BooksInit
<1>2. IInv /\ (BooksInv /\ OwnerType) /\ [Next]_vars => (BooksInv /\ OwnerType)'
  BY BooksStep, ScanStep
<1>3. IInv /\ (BooksInv /\ OwnerType) => ReservationsAreKept
  BY KeptByOne, TypeHolds DEF ReservationsAreKept, CacheAccounts, BooksInv
<1> QED
  BY <1>1, <1>2, <1>3, AlwaysIInv, PTL DEF Spec
=============================================================================
