--------------------------- MODULE MagazinesProofs ---------------------------
(***************************************************************************)
(* For any number of size classes and any sizes of magazines, depot and    *)
(* budget: a block is in one place, live counts are exact, memory said to  *)
(* be untouched is, the books of the overflow balance, and the fast lanes  *)
(* do what the slow paths do.                                              *)
(***************************************************************************)
EXTENDS Magazines, FiniteSetTheorems, FunctionTheorems, SequenceTheorems,
        WellFoundedInduction, TLAPS

-----------------------------------------------------------------------------
(* Least numbers, and sets of numbers that are closed downwards            *)

LEMMA NotAboveIsLeast ==
    ASSUME NEW S \in SUBSET Nat, NEW x \in S, \A y \in S : ~ (y < x)
    PROVE  \A y \in S : x =< y
OBVIOUS

LEMMA HasLeast ==
    ASSUME NEW S \in SUBSET Nat, S # {}
    PROVE  \E x \in S : \A y \in S : x =< y
<1>1. PICK R : R = OpToRel(<, Nat)
  OBVIOUS
<1>2. IsWellFoundedOn(R, Nat)
  BY <1>1, NatLessThanWellFounded, Zenon
<1>3. PICK x \in S : \A y \in S : ~ (<<y, x>> \in R)
  BY <1>2, WFMin, Zenon
<1>4. \A y \in S : <<y, x>> \notin R => ~ (y < x)
  BY <1>1, Zenon DEF OpToRel
<1>5. \A y \in S : ~ (y < x)
  BY <1>3, <1>4, Zenon
<1>6. \A y \in S : x =< y
  BY <1>5, NotAboveIsLeast, Zenon
<1> QED
  BY <1>6, Zenon
(* What a nonempty family of subsets of a finite set has: induction over   *)
(* finite sets, as a lemma without an operator parameter.                  *)
LEMMA SmallestSet ==
    ASSUME NEW S, IsFiniteSet(S), NEW F \in SUBSET SUBSET S, F # {}
    PROVE  \E T \in F : \A U \in F : U \subseteq T => U = T
<1> DEFINE sizes == {Cardinality(T) : T \in F}
<1>1. \A T \in F : IsFiniteSet(T) /\ Cardinality(T) \in Nat
  BY FS_Subset, FS_CardinalityType
<1>2. sizes \subseteq Nat /\ sizes # {}
  BY <1>1
<1>3. \E n \in sizes : \A m \in sizes : n =< m
  <2> HIDE DEF sizes
  <2> QED
    BY <1>2, HasLeast
<1>4. PICK T \in F : \A U \in F : Cardinality(T) =< Cardinality(U)
  BY <1>3
<1>5. ASSUME NEW U \in F, U \subseteq T
      PROVE  U = T
  <2>1. /\ Cardinality(U) <= Cardinality(T)
        /\ Cardinality(U) = Cardinality(T) => T = U
    BY <1>1, <1>5, FS_Subset
  <2> QED
    BY <1>1, <1>4, <2>1
<1> QED
  BY <1>5

(* h[b] rows for each b of T, the recursion by which Sum counts them, and *)
(* the function it defines.                                                *)
Rows(h, T) == UNION {{b} \X (1 .. h[b]) : b \in T}
Pick(T) == CHOOSE x \in T : TRUE
Counted(h, f, T) == IF T = {} THEN 0 ELSE h[Pick(T)] + f[T \ {Pick(T)}]
IsCount(h, S, f) == f = [T \in SUBSET S |-> Counted(h, f, T)]
CountFn(h, S) == CHOOSE f : IsCount(h, S, f)
Numbers(h, S) == \A b \in S : h[b] \in Nat

LEMMA PickIs == ASSUME NEW T, T # {} PROVE Pick(T) \in T
BY DEF Pick

LEMMA SumIs == ASSUME NEW h PROVE Sum(h) = CountFn(h, DOMAIN h)[DOMAIN h]
BY Zenon DEF Sum, FoldFunction, FoldFunctionOnSet, MapThenFoldSet,
             CountFn, IsCount, Counted, Pick

LEMMA RowsSplit ==
    ASSUME NEW T, NEW h, NEW p \in T
    PROVE  /\ Rows(h, T) = ({p} \X (1 .. h[p])) \cup Rows(h, T \ {p})
           /\ ({p} \X (1 .. h[p])) \cap Rows(h, T \ {p}) = {}
<1>1. Rows(h, T) \subseteq ({p} \X (1 .. h[p])) \cup Rows(h, T \ {p})
  BY DEF Rows
<1>2. ({p} \X (1 .. h[p])) \cup Rows(h, T \ {p}) \subseteq Rows(h, T)
  BY DEF Rows
<1>3. ({p} \X (1 .. h[p])) \cap Rows(h, T \ {p}) = {}
  BY DEF Rows
<1> QED
  BY <1>1, <1>2, <1>3

LEMMA RowIs ==
    ASSUME NEW p, NEW n \in Nat
    PROVE  IsFiniteSet({p} \X (1 .. n)) /\ Cardinality({p} \X (1 .. n)) = n
<1>1. IsFiniteSet({p}) /\ Cardinality({p}) = 1
  BY FS_Singleton
<1>2. IsFiniteSet(1 .. n) /\ Cardinality(1 .. n) = n
  BY FS_Interval
<1>3. /\ IsFiniteSet({p} \X (1 .. n))
      /\ Cardinality({p} \X (1 .. n)) = Cardinality({p}) * Cardinality(1 .. n)
  BY <1>1, <1>2, FS_Product
<1> QED
  BY <1>1, <1>2, <1>3

LEMMA RowsFinite ==
    ASSUME NEW S, IsFiniteSet(S), NEW h, Numbers(h, S)
    PROVE  \A T \in SUBSET S : IsFiniteSet(Rows(h, T))
<1> DEFINE F == {T \in SUBSET S : ~ IsFiniteSet(Rows(h, T))}
<1> SUFFICES ASSUME F # {} PROVE FALSE
  OBVIOUS
<1>1. F \in SUBSET SUBSET S
  OBVIOUS
<1>2. PICK T \in F : \A V \in F : V \subseteq T => V = T
  <2> HIDE DEF F
  <2> QED
    BY <1>1, SmallestSet
<1>3. T # {}
  <2>1. Rows(h, {}) = {}
    BY DEF Rows
  <2> QED
    BY <1>2, <2>1, FS_EmptySet
<1>4. PICK p \in T : TRUE
  BY <1>3
<1>5. IsFiniteSet(Rows(h, T \ {p}))
  BY <1>2, <1>4
<1>6. IsFiniteSet({p} \X (1 .. h[p]))
  BY <1>2, <1>4, RowIs DEF Numbers
<1>7. Rows(h, T) = ({p} \X (1 .. h[p])) \cup Rows(h, T \ {p})
  BY <1>4, RowsSplit
<1>8. IsFiniteSet(({p} \X (1 .. h[p])) \cup Rows(h, T \ {p}))
  BY <1>5, <1>6, FS_Union
<1>9. ~ IsFiniteSet(Rows(h, T))
  BY <1>2
<1> QED
  BY <1>7, <1>8, <1>9, Zenon

LEMMA RowsTake ==
    ASSUME NEW S, IsFiniteSet(S), NEW h, Numbers(h, S), NEW T \in SUBSET S, NEW p \in T
    PROVE  Cardinality(Rows(h, T)) = h[p] + Cardinality(Rows(h, T \ {p}))
<1> DEFINE row == {p} \X (1 .. h[p])
           rest == Rows(h, T \ {p})
<1>1. IsFiniteSet(rest)
  <2>1. T \ {p} \in SUBSET S
    OBVIOUS
  <2> QED
    BY <2>1, RowsFinite
<1>2. h[p] \in Nat
  BY DEF Numbers
<1>3. IsFiniteSet(row) /\ Cardinality(row) = h[p]
  BY <1>2, RowIs
<1>4. Rows(h, T) = row \cup rest /\ row \cap rest = {}
  BY RowsSplit
<1> HIDE DEF row, rest
<1>5. Cardinality(row \cup rest) = Cardinality(row) + Cardinality(rest) - Cardinality(row \cap rest)
  BY <1>1, <1>3, FS_Union
<1>6. Cardinality(row \cap rest) = 0 /\ Cardinality(rest) \in Nat
  BY <1>1, <1>4, FS_EmptySet, FS_CardinalityType
<1>7. Cardinality(Rows(h, T)) = h[p] + Cardinality(rest)
  BY <1>2, <1>3, <1>4, <1>5, <1>6
<1> QED
  BY <1>7 DEF rest

LEMMA CountsRows ==
    ASSUME NEW S, IsFiniteSet(S), NEW h, Numbers(h, S)
    PROVE  CountFn(h, S)[S] = Cardinality(Rows(h, S))
<1> DEFINE sizes == [T \in SUBSET S |-> Cardinality(Rows(h, T))]
<1>1. \A T \in SUBSET S : sizes[T] = Counted(h, sizes, T)
  <2> TAKE T \in SUBSET S
  <2>1. CASE T = {}
    <3>1. Rows(h, {}) = {}
      BY DEF Rows
    <3> QED
      BY <2>1, <3>1, FS_EmptySet DEF Counted
  <2>2. CASE T # {}
    <3>1. Pick(T) \in T
      BY <2>2, PickIs
    <3> DEFINE p == Pick(T)
    <3>2. Cardinality(Rows(h, T)) = h[p] + Cardinality(Rows(h, T \ {p}))
      BY <3>1, RowsTake
    <3>3. T \ {p} \in SUBSET S
      OBVIOUS
    <3> QED
      BY <2>2, <3>2, <3>3 DEF Counted
  <2> QED
    BY <2>1, <2>2
<1>2. IsCount(h, S, sizes)
  <2>1. sizes = [T \in SUBSET S |-> sizes[T]]
    OBVIOUS
  <2> HIDE DEF sizes
  <2> QED
    BY <1>1, <2>1, Zenon DEF IsCount
<1> DEFINE f == CountFn(h, S)
<1>3. IsCount(h, S, f)
  BY <1>2 DEF CountFn
<1> HIDE DEF f
<1>4. \A T \in SUBSET S : f[T] = Counted(h, f, T)
  BY <1>3, Zenon DEF IsCount
<1> DEFINE F == {T \in SUBSET S : f[T] # sizes[T]}
<1>5. F = {}
  <2> SUFFICES ASSUME F # {} PROVE FALSE
    OBVIOUS
  <2>1. F \in SUBSET SUBSET S
    OBVIOUS
  <2>2. PICK T \in F : \A V \in F : V \subseteq T => V = T
    <3> HIDE DEF F
    <3> QED
      BY <2>1, SmallestSet
  <2> HIDE DEF sizes
  <2>3. f[T] = Counted(h, f, T) /\ sizes[T] = Counted(h, sizes, T) /\ f[T] # sizes[T]
    BY <1>1, <1>4, <2>2
  <2>4. T # {}
    BY <2>3 DEF Counted
  <2>5. Pick(T) \in T
    BY <2>4, PickIs
  <2>6. f[T \ {Pick(T)}] = sizes[T \ {Pick(T)}]
    BY <2>2, <2>5
  <2> QED
    BY <2>3, <2>4, <2>6 DEF Counted
<1>6. f[S] = sizes[S]
  BY <1>5
<1> QED
  BY <1>6 DEF f

LEMMA SumCounts ==
    ASSUME NEW S, IsFiniteSet(S), NEW h, DOMAIN h = S, Numbers(h, S)
    PROVE  Sum(h) = Cardinality(Rows(h, S)) /\ Sum(h) \in Nat
BY SumIs, CountsRows, RowsFinite, FS_CardinalityType

(* A sum of which one summand has changed.                                 *)
LEMMA SumChanges ==
    ASSUME NEW S, IsFiniteSet(S), NEW h, NEW g, DOMAIN h = S, DOMAIN g = S,
           Numbers(h, S), Numbers(g, S), NEW p \in S, \A x \in S : x # p => g[x] = h[x]
    PROVE  Sum(g) - g[p] = Sum(h) - h[p] /\ Sum(g) \in Nat /\ Sum(h) \in Nat
<1>1. Rows(g, S \ {p}) = Rows(h, S \ {p})
  BY DEF Rows
<1>2. /\ Cardinality(Rows(g, S)) = g[p] + Cardinality(Rows(g, S \ {p}))
      /\ Cardinality(Rows(h, S)) = h[p] + Cardinality(Rows(h, S \ {p}))
  BY RowsTake
<1>3. /\ Sum(g) = Cardinality(Rows(g, S)) /\ Sum(g) \in Nat
      /\ Sum(h) = Cardinality(Rows(h, S)) /\ Sum(h) \in Nat
  BY SumCounts
<1>4. Cardinality(Rows(h, S \ {p})) \in Nat
  <2>1. S \ {p} \in SUBSET S
    OBVIOUS
  <2> QED
    BY <2>1, RowsFinite, FS_CardinalityType
<1>5. g[p] \in Nat /\ h[p] \in Nat
  BY DEF Numbers
<1> QED
  BY <1>1, <1>2, <1>3, <1>4, <1>5

-----------------------------------------------------------------------------
(* Blocks in a sequence, and in magazines                                  *)

LEMMA MagazineIs ==
    /\ \A m : m \in Magazine <=> m \in Seq(Tags) /\ Len(m) <= TCACHE_CAP
    /\ \A m : m \in Full <=> m \in Seq(Tags) /\ Len(m) = TCACHE_CAP
    /\ \A m \in Magazine : Len(m) \in 0 .. TCACHE_CAP /\ DOMAIN m = 1 .. Len(m)
    /\ \A m \in Seq(Tags) : Len(m) \in Nat /\ DOMAIN m = 1 .. Len(m)
<1>1. TCACHE_CAP \in Nat
  BY MagazinesAssumption
<1>2. ASSUME NEW m, m \in Magazine
      PROVE  m \in Seq(Tags) /\ Len(m) <= TCACHE_CAP
  <2>1. PICK n \in 0 .. TCACHE_CAP : m \in [1 .. n -> Tags]
    BY <1>2 DEF Magazine
  <2> QED
    BY <1>1, <2>1
<1>3. ASSUME NEW m, m \in Seq(Tags), Len(m) <= TCACHE_CAP
      PROVE  m \in Magazine
  <2>1. Len(m) \in 0 .. TCACHE_CAP /\ m \in [1 .. Len(m) -> Tags]
    BY <1>1, <1>3
  <2> QED
    BY <2>1 DEF Magazine
<1>4. \A m : m \in Full <=> m \in Seq(Tags) /\ Len(m) = TCACHE_CAP
  BY <1>1 DEF Full
<1> QED
  BY <1>1, <1>2, <1>3, <1>4

At(s, tag) == {i \in DOMAIN s : s[i] = tag}

LEMMA NumberType ==
    ASSUME NEW s \in Seq(Tags), NEW tag
    PROVE  IsFiniteSet(At(s, tag)) /\ Number(s, tag) = Cardinality(At(s, tag))
           /\ Number(s, tag) \in Nat
<1>1. At(s, tag) \subseteq 1 .. Len(s) /\ Len(s) \in Nat
  BY DEF At
<1>2. IsFiniteSet(At(s, tag))
  <2>1. IsFiniteSet(1 .. Len(s))
    BY <1>1, FS_Interval
  <2> QED
    BY <1>1, <2>1, FS_Subset
<1> QED
  BY <1>2, FS_CardinalityType DEF At, Number

LEMMA NumberEmpty ==
    ASSUME NEW tag
    PROVE  Number(<<>>, tag) = 0 /\ <<>> \in Seq(Tags) /\ <<>> \in Magazine
<1>1. At(<<>>, tag) = {} /\ <<>> \in Seq(Tags)
  BY DEF At
<1>2. Number(<<>>, tag) = Cardinality(At(<<>>, tag))
  BY <1>1, NumberType
<1>3. Len(<<>>) <= TCACHE_CAP
  BY MagazinesAssumption
<1> QED
  BY <1>1, <1>2, <1>3, FS_EmptySet, MagazineIs

LEMMA NumberOne ==
    ASSUME NEW x \in Tags, NEW tag
    PROVE  /\ Number(<<x>>, tag) = IF x = tag THEN 1 ELSE 0
           /\ <<x>> \in Seq(Tags) /\ Len(<<x>>) = 1 /\ <<x>>[1] = x
<1>1. <<x>> \in Seq(Tags) /\ DOMAIN <<x>> = {1} /\ <<x>>[1] = x /\ Len(<<x>>) = 1
  OBVIOUS
<1>2. At(<<x>>, tag) = IF x = tag THEN {1} ELSE {}
  BY <1>1 DEF At
<1>3. Number(<<x>>, tag) = Cardinality(At(<<x>>, tag))
  BY <1>1, NumberType
<1>4. Cardinality({}) = 0 /\ Cardinality({1}) = 1
  BY FS_EmptySet, FS_Singleton
<1> QED
  BY <1>1, <1>2, <1>3, <1>4

LEMMA NumberPositive ==
    ASSUME NEW s \in Seq(Tags), NEW tag
    PROVE  Number(s, tag) > 0 <=> \E i \in 1 .. Len(s) : s[i] = tag
<1>1. Number(s, tag) = 0 <=> At(s, tag) = {}
  BY NumberType, FS_EmptySet
<1>2. DOMAIN s = 1 .. Len(s)
  OBVIOUS
<1>3. At(s, tag) = {} <=> ~ \E i \in 1 .. Len(s) : s[i] = tag
  BY <1>2 DEF At
<1>4. Number(s, tag) \in Nat
  BY NumberType
<1> QED
  BY <1>1, <1>3, <1>4

LEMMA NumberConcat ==
    ASSUME NEW s \in Seq(Tags), NEW t \in Seq(Tags), NEW tag
    PROVE  /\ Number(s \o t, tag) = Number(s, tag) + Number(t, tag)
           /\ s \o t \in Seq(Tags) /\ Len(s \o t) = Len(s) + Len(t)
<1> DEFINE n == Len(s)
           A == At(s, tag)
           B == At(t, tag)
           C == {i \in n + 1 .. n + Len(t) : i - n \in B}
           g == [i \in B |-> n + i]
<1>1. /\ s \o t \in Seq(Tags) /\ Len(s \o t) = n + Len(t)
      /\ \A i \in 1 .. n + Len(t) : (s \o t)[i] = IF i <= n THEN s[i] ELSE t[i - n]
      /\ n \in Nat /\ Len(t) \in Nat /\ DOMAIN s = 1 .. n /\ DOMAIN t = 1 .. Len(t)
      /\ DOMAIN (s \o t) = 1 .. n + Len(t)
  OBVIOUS
<1>2. B \subseteq 1 .. Len(t) /\ A \subseteq 1 .. n
  BY <1>1 DEF At
<1>3. At(s \o t, tag) = A \cup C /\ A \cap C = {}
  <2> DEFINE st == s \o t
  <2>1. ASSUME NEW i
        PROVE  i \in At(st, tag) <=> i \in A \/ i \in C
    <3>1. i \in At(st, tag) <=> i \in 1 .. n + Len(t) /\ st[i] = tag
      BY <1>1 DEF At
    <3>2. i \in A <=> i \in 1 .. n /\ s[i] = tag
      BY <1>1 DEF At
    <3>3. i \in C <=> i \in n + 1 .. n + Len(t) /\ t[i - n] = tag
      <4>1. i \in n + 1 .. n + Len(t) => i - n \in DOMAIN t
        BY <1>1
      <4> QED
        BY <4>1 DEF At
    <3> HIDE DEF A, B, C
    <3> QED
      BY <1>1, <3>1, <3>2, <3>3
  <2>2. A \cap C = {}
    BY <1>1, <1>2
  <2> HIDE DEF A, C
  <2> QED
    BY <2>1, <2>2
<1>4. g \in Bijection(B, C)
  <2>1. g \in [B -> C]
    BY <1>1, <1>2
  <2>2. \A i \in C : i - n \in B /\ g[i - n] = i
    BY <1>1, <1>2
  <2>3. \A i, j \in B : g[i] = g[j] => i = j
    BY <1>1, <1>2
  <2> HIDE DEF g, B, C
  <2> QED
    BY <2>1, <2>2, <2>3, Fun_IsBij
<1> HIDE DEF A, B, C, g
<1>5. IsFiniteSet(A) /\ IsFiniteSet(B) /\ Number(s, tag) = Cardinality(A)
      /\ Number(t, tag) = Cardinality(B)
  BY NumberType DEF A, B
<1>6. IsFiniteSet(C) /\ Cardinality(C) = Cardinality(B)
  <2>1. ExistsBijection(B, C)
    BY <1>4 DEF ExistsBijection
  <2> QED
    BY <1>5, <2>1, FS_Bijection
<1>7. Cardinality(A \cup C) = Cardinality(A) + Cardinality(C)
  <2>1. Cardinality(A \cap C) = 0
    BY <1>3, FS_EmptySet
  <2>2. Cardinality(A) \in Nat /\ Cardinality(C) \in Nat
    BY <1>5, <1>6, FS_CardinalityType
  <2>3. Cardinality(A \cup C) = Cardinality(A) + Cardinality(C) - Cardinality(A \cap C)
    BY <1>5, <1>6, FS_Union
  <2> QED
    BY <2>1, <2>2, <2>3
<1>8. Number(s \o t, tag) = Cardinality(At(s \o t, tag))
  BY <1>1, NumberType
<1> QED
  BY <1>1, <1>3, <1>5, <1>6, <1>7, <1>8

LEMMA NumberSplit ==
    ASSUME NEW s \in Seq(Tags), NEW n \in 0 .. Len(s)
    PROVE  LET a == SubSeq(s, 1, n)
               b == SubSeq(s, n + 1, Len(s))
           IN  /\ a \in Seq(Tags) /\ Len(a) = n /\ \A i \in 1 .. n : a[i] = s[i]
               /\ b \in Seq(Tags) /\ Len(b) = Len(s) - n
               /\ \A i \in 1 .. Len(s) - n : b[i] = s[n + i]
               /\ \A tag : Number(s, tag) = Number(a, tag) + Number(b, tag)
<1> DEFINE a == SubSeq(s, 1, n)
           b == SubSeq(s, n + 1, Len(s))
<1>1. a \in Seq(Tags) /\ Len(a) = n /\ \A i \in 1 .. n : a[i] = s[i]
  OBVIOUS
<1>2. b \in Seq(Tags) /\ Len(b) = Len(s) - n /\ \A i \in 1 .. Len(s) - n : b[i] = s[n + i]
  OBVIOUS
<1>3. s = a \o b
  <2>1. a \o b \in Seq(Tags) /\ Len(a \o b) = Len(s)
        /\ \A i \in 1 .. Len(s) : (a \o b)[i] = s[i]
    <3> HIDE DEF a, b
    <3>1. /\ a \o b \in Seq(Tags) /\ Len(a \o b) = Len(a) + Len(b)
          /\ \A i \in 1 .. Len(a) + Len(b) :
                (a \o b)[i] = IF i <= Len(a) THEN a[i] ELSE b[i - Len(a)]
      BY <1>1, <1>2
    <3>2. ASSUME NEW i \in 1 .. Len(s)
          PROVE  (IF i <= Len(a) THEN a[i] ELSE b[i - Len(a)]) = s[i]
      <4>1. Len(s) \in Nat /\ n \in Nat
        OBVIOUS
      <4>2. CASE i <= n
        BY <1>1, <4>1, <4>2
      <4>3. CASE ~ (i <= n)
        <5>1. i - n \in 1 .. Len(s) - n
          BY <4>1, <4>3
        <5>2. b[i - n] = s[n + (i - n)] /\ n + (i - n) = i
          BY <1>2, <4>1, <5>1
        <5> QED
          BY <1>1, <4>3, <5>2
      <4> QED
        BY <4>2, <4>3
    <3>3. Len(a) + Len(b) = Len(s)
      BY <1>1, <1>2
    <3> QED
      BY <3>1, <3>2, <3>3
  <2> HIDE DEF a, b
  <2> QED
    BY <2>1, SeqEqual
<1> HIDE DEF a, b
<1>4. \A tag : Number(s, tag) = Number(a, tag) + Number(b, tag)
  BY <1>1, <1>2, <1>3, NumberConcat
<1> QED
  BY <1>1, <1>2, <1>4 DEF a, b

LEMMA NumberTop ==
    ASSUME NEW s \in Seq(Tags), s # <<>>
    PROVE  /\ Len(s) \in Nat \ {0} /\ Top(s) \in Tags /\ Top(s) = s[Len(s)]
           /\ Front(s) \in Seq(Tags) /\ Len(Front(s)) = Len(s) - 1
           /\ \A i \in 1 .. Len(s) - 1 : Front(s)[i] = s[i]
           /\ \A tag : Number(s, tag) = Number(Front(s), tag) + IF Top(s) = tag THEN 1 ELSE 0
<1>1. Len(s) \in Nat \ {0} /\ Top(s) \in Tags
  BY DEF Top
<1> DEFINE n == Len(s) - 1
           b == SubSeq(s, n + 1, Len(s))
<1>2. n \in 0 .. Len(s)
  BY <1>1
<1>3. /\ Front(s) \in Seq(Tags) /\ Len(Front(s)) = n /\ \A i \in 1 .. n : Front(s)[i] = s[i]
      /\ b \in Seq(Tags) /\ Len(b) = Len(s) - n /\ \A i \in 1 .. Len(s) - n : b[i] = s[n + i]
      /\ \A tag : Number(s, tag) = Number(Front(s), tag) + Number(b, tag)
  BY <1>2, NumberSplit DEF Front
<1>4. b = <<Top(s)>>
  <2>1. Len(b) = 1 /\ b[1] = Top(s)
    BY <1>1, <1>3 DEF Top
  <2> HIDE DEF b
  <2> QED
    BY <1>3, <2>1
<1>5. \A tag : Number(b, tag) = IF Top(s) = tag THEN 1 ELSE 0
  <2> HIDE DEF b
  <2> QED
    BY <1>1, <1>4, NumberOne
<1> HIDE DEF b
<1> QED
  BY <1>1, <1>3, <1>5 DEF Top

LEMMA PlacesFinite ==
    ASSUME NEW m, IsFiniteSet(DOMAIN m), NEW tag
    PROVE  IsFiniteSet(Places(m, tag)) /\ Cardinality(Places(m, tag)) \in Nat
<1>1. IsFiniteSet(1 .. TCACHE_CAP)
  BY MagazinesAssumption, FS_Interval
<1>2. IsFiniteSet((DOMAIN m) \X (1 .. TCACHE_CAP))
  BY <1>1, FS_Product
<1>3. Places(m, tag) \subseteq (DOMAIN m) \X (1 .. TCACHE_CAP)
  BY DEF Places
<1> QED
  BY <1>2, <1>3, FS_Subset, FS_CardinalityType

(* One magazine more.                                                      *)
LEMMA PlacesAdd ==
    ASSUME NEW m, IsFiniteSet(DOMAIN m), NEW n, NEW k, k \notin DOMAIN m,
           DOMAIN n = DOMAIN m \cup {k}, \A x \in DOMAIN m : n[x] = m[x],
           n[k] \in Magazine, NEW tag
    PROVE  Cardinality(Places(n, tag)) = Cardinality(Places(m, tag)) + Number(n[k], tag)
<1> DEFINE A == At(n[k], tag)
           K == {k} \X A
<1>1. IsFiniteSet(A) /\ Number(n[k], tag) = Cardinality(A) /\ A \subseteq 1 .. TCACHE_CAP
      /\ Cardinality(A) \in Nat
  <2>1. n[k] \in Seq(Tags) /\ DOMAIN n[k] = 1 .. Len(n[k]) /\ Len(n[k]) \in 0 .. TCACHE_CAP
    BY MagazineIs
  <2>2. A \subseteq 1 .. TCACHE_CAP
    BY <2>1, MagazinesAssumption DEF At
  <2> QED
    BY <2>1, <2>2, NumberType
<1>2. IsFiniteSet(K) /\ Cardinality(K) = Cardinality(A)
  <2>1. IsFiniteSet({k}) /\ Cardinality({k}) = 1
    BY FS_Singleton
  <2>2. IsFiniteSet(K) /\ Cardinality(K) = Cardinality({k}) * Cardinality(A)
    BY <1>1, <2>1, FS_Product
  <2> HIDE DEF A, K
  <2> QED
    BY <1>1, <2>1, <2>2
<1>3. Places(n, tag) = Places(m, tag) \cup K
  <2>1. ASSUME NEW p
        PROVE  p \in Places(n, tag) <=> p \in Places(m, tag) \/ p \in K
    <3>1. p \in Places(n, tag) <=>
            /\ p \in (DOMAIN n) \X (1 .. TCACHE_CAP)
            /\ p[2] \in DOMAIN n[p[1]] /\ n[p[1]][p[2]] = tag
      BY DEF Places
    <3>2. p \in Places(m, tag) <=>
            /\ p \in (DOMAIN m) \X (1 .. TCACHE_CAP)
            /\ p[2] \in DOMAIN m[p[1]] /\ m[p[1]][p[2]] = tag
      BY DEF Places
    <3>3. p \in K <=>
            /\ p \in {k} \X (1 .. TCACHE_CAP)
            /\ p[2] \in DOMAIN n[k] /\ n[k][p[2]] = tag
      BY <1>1 DEF At
    <3> HIDE DEF K
    <3> QED
      BY <3>1, <3>2, <3>3
  <2> HIDE DEF K
  <2> QED
    BY <2>1
<1>4. Places(m, tag) \cap K = {}
  BY DEF Places
<1> HIDE DEF A, K
<1>5. IsFiniteSet(Places(m, tag)) /\ Cardinality(Places(m, tag)) \in Nat
  BY PlacesFinite
<1>6. Cardinality(Places(m, tag) \cap K) = 0
  BY <1>4, FS_EmptySet
<1>7. Cardinality(Places(m, tag) \cup K)
        = Cardinality(Places(m, tag)) + Cardinality(K) - Cardinality(Places(m, tag) \cap K)
  BY <1>2, <1>5, FS_Union
<1> QED
  BY <1>1, <1>2, <1>3, <1>5, <1>6, <1>7

LEMMA PlacesNone ==
    ASSUME NEW m, DOMAIN m = {}, NEW tag
    PROVE  Cardinality(Places(m, tag)) = 0
<1>1. Places(m, tag) = {}
  BY DEF Places
<1> QED
  BY <1>1, FS_EmptySet

(* The floor: a sequence of full magazines.                                *)
LEMMA FloorIs ==
    ASSUME NEW f \in Seq(Full)
    PROVE  /\ Len(f) \in Nat /\ DOMAIN f = 1 .. Len(f) /\ IsFiniteSet(DOMAIN f)
           /\ \A tag : Cardinality(Places(f, tag)) \in Nat
           /\ \A i \in 1 .. Len(f) : f[i] \in Full /\ f[i] \in Magazine
<1>1. Len(f) \in Nat /\ DOMAIN f = 1 .. Len(f) /\ \A i \in 1 .. Len(f) : f[i] \in Full
  OBVIOUS
<1>2. IsFiniteSet(DOMAIN f)
  BY <1>1, FS_Interval
<1>3. \A i \in 1 .. Len(f) : f[i] \in Magazine
  <2>1. TCACHE_CAP \in Nat
    BY MagazinesAssumption
  <2> QED
    BY <1>1, <2>1, MagazineIs
<1> QED
  BY <1>1, <1>2, <1>3, PlacesFinite

LEMMA FloorAppend ==
    ASSUME NEW f \in Seq(Full), NEW m \in Full
    PROVE  /\ Append(f, m) \in Seq(Full) /\ Len(Append(f, m)) = Len(f) + 1
           /\ \A tag : Cardinality(Places(Append(f, m), tag))
                         = Cardinality(Places(f, tag)) + Number(m, tag)
<1> DEFINE g == Append(f, m)
           k == Len(f) + 1
<1>1. /\ g \in Seq(Full) /\ Len(g) = k /\ DOMAIN g = DOMAIN f \cup {k} /\ k \notin DOMAIN f
      /\ g[k] = m /\ \A i \in DOMAIN f : g[i] = f[i]
  OBVIOUS
<1>2. IsFiniteSet(DOMAIN f) /\ m \in Magazine
  <2>1. TCACHE_CAP \in Nat
    BY MagazinesAssumption
  <2> QED
    BY <2>1, FloorIs, MagazineIs
<1> HIDE DEF g, k
<1>3. \A tag : Cardinality(Places(g, tag)) = Cardinality(Places(f, tag)) + Number(g[k], tag)
  BY <1>1, <1>2, PlacesAdd
<1> QED
  BY <1>1, <1>3 DEF g, k

LEMMA FloorTop ==
    ASSUME NEW f \in Seq(Full), f # <<>>
    PROVE  /\ Front(f) \in Seq(Full) /\ Len(Front(f)) = Len(f) - 1
           /\ Top(f) \in Full /\ Top(f) \in Magazine /\ Len(f) > 0
           /\ \A tag : Cardinality(Places(f, tag))
                         = Cardinality(Places(Front(f), tag)) + Number(Top(f), tag)
<1> DEFINE g == Front(f)
           k == Len(f)
<1>1. /\ g \in Seq(Full) /\ Len(g) = k - 1 /\ DOMAIN f = DOMAIN g \cup {k} /\ k \notin DOMAIN g
      /\ f[k] = Top(f) /\ \A i \in DOMAIN g : f[i] = g[i]
      /\ k \in Nat \ {0}
  <2>1. k \in Nat \ {0}
    OBVIOUS
  <2>2. g \in Seq(Full) /\ Len(g) = k - 1 /\ \A i \in 1 .. k - 1 : g[i] = f[i]
    <3>1. SubSeq(f, 1, k - 1) \in Seq(Full) /\ Len(SubSeq(f, 1, k - 1)) = k - 1
          /\ \A i \in 1 .. k - 1 : SubSeq(f, 1, k - 1)[i] = f[i]
      <4>1. Full = Full /\ 1 \in 1 .. k /\ k - 1 \in 0 .. k
        BY <2>1
      <4> HIDE DEF k
      <4>2. f \in Seq(Full) /\ Len(f) = k
        BY DEF k
      <4> QED
        BY <2>1, <4>1, <4>2
    <3> QED
      BY <3>1 DEF Front
  <2> HIDE DEF g
  <2>3. DOMAIN g = 1 .. k - 1 /\ DOMAIN f = 1 .. k
    BY <2>1, <2>2
  <2> QED
    BY <2>1, <2>2, <2>3 DEF Top
<1>2. IsFiniteSet(DOMAIN g) /\ f[k] \in Magazine /\ f[k] \in Full
  <2> HIDE DEF g, k
  <2>1. k \in 1 .. Len(f)
    BY <1>1 DEF k
  <2> QED
    BY <1>1, <2>1, FloorIs
<1> HIDE DEF g, k
<1>3. \A tag : Cardinality(Places(f, tag)) = Cardinality(Places(g, tag)) + Number(f[k], tag)
  BY <1>1, <1>2, PlacesAdd
<1> QED
  BY <1>1, <1>2, <1>3 DEF g, k

-----------------------------------------------------------------------------
(* The constants, and the slots of a ring                                  *)

LEMMA ConstantsAre ==
    ASSUME setup \in Setups
    PROVE  /\ IsFiniteSet(DepotClasses) /\ IsFiniteSet(Classes)
           /\ DepotClasses \subseteq Classes /\ Classes \subseteq Nat
           /\ depot_budget \in Nat /\ TCACHE_CAP \in Nat /\ TCACHE_CAP > 1
           /\ \A c \in DepotClasses :
                /\ cap_for(c) \in Nat /\ mag_bytes[c] \in Nat \ {0} /\ DEPOT_K[c] \in Nat \ {0}
                /\ FREE_PARK_CAP[c] = TCACHE_CAP
           /\ \A c \in Classes : FREE_PARK_CAP[c] \in 1 .. TCACHE_CAP /\ open_limit(c) \in Nat
           /\ EPOCH_MIN \in Nat /\ DECAY_WORK \in Nat /\ INGRESS_PERIOD \in Nat \ {0}
           /\ setup.others \in [Classes -> Nat] /\ setup.it \in Classes \cup {0}
<1>1. /\ IsFiniteSet(Classes) /\ DepotClasses \subseteq Classes /\ Classes \subseteq Nat
      /\ TCACHE_CAP \in Nat /\ TCACHE_CAP > 1
      /\ \A c \in DepotClasses : mag_bytes[c] \in Nat \ {0} /\ DEPOT_K[c] \in Nat \ {0}
                                 /\ FREE_PARK_CAP[c] = TCACHE_CAP
      /\ \A c \in Classes : FREE_PARK_CAP[c] \in 1 .. TCACHE_CAP
      /\ EPOCH_MIN \in Nat /\ DECAY_WORK \in Nat /\ INGRESS_PERIOD \in Nat \ {0}
  BY MagazinesAssumption
<1>2. /\ setup \in [depot_budget : Nat, it : Classes \cup {0}, others : [Classes -> Nat]]
  BY MagazinesAssumption
<1>3. depot_budget \in Nat
  BY <1>2 DEF depot_budget
<1>4. \A c \in DepotClasses : cap_for(c) \in Nat
  BY <1>1, <1>3 DEF cap_for
<1>5. \A c \in Classes : open_limit(c) \in Nat
  BY <1>1, <1>4 DEF open_limit
<1>6. IsFiniteSet(DepotClasses)
  BY <1>1, FS_Subset
<1> QED
  BY <1>1, <1>2, <1>3, <1>4, <1>5, <1>6

RingOK(o, c) == o.head[c] \in 0 .. cap_for(c) /\ o.len[c] \in 0 .. cap_for(c)

LEMMA SlotIs ==
    ASSUME setup \in Setups, NEW c \in DepotClasses, NEW o, RingOK(o, c)
    PROVE  /\ \A i \in 0 .. cap_for(c) - 1 : Slot(o, c, i) \in 1 .. cap_for(c)
           /\ \A i, j \in 0 .. cap_for(c) - 1 : Slot(o, c, i) = Slot(o, c, j) => i = j
           /\ InUse(o, c) \subseteq 1 .. cap_for(c) /\ IsFiniteSet(InUse(o, c))
<1> DEFINE n == cap_for(c)
<1>1. n \in Nat /\ o.head[c] \in 0 .. n /\ o.len[c] \in 0 .. n
  BY ConstantsAre DEF RingOK
<1> HIDE DEF n
<1>2. \A i \in 0 .. n - 1 : Slot(o, c, i) =
        IF o.head[c] + i >= n THEN 1 + (o.head[c] + i - n) ELSE 1 + (o.head[c] + i)
  BY <1>1 DEF Slot, n
<1>3. \A i \in 0 .. n - 1 : Slot(o, c, i) \in 1 .. n
  BY <1>1, <1>2
<1>4. \A i, j \in 0 .. n - 1 : Slot(o, c, i) = Slot(o, c, j) => i = j
  BY <1>1, <1>2
<1>5. InUse(o, c) \subseteq 1 .. n
  BY <1>1, <1>3 DEF InUse
<1>6. IsFiniteSet(1 .. n)
  BY <1>1, FS_Interval
<1> QED
  BY <1>3, <1>4, <1>5, <1>6, FS_Subset DEF n

(* A record more at the tail.                                              *)
LEMMA UseGrows ==
    ASSUME setup \in Setups, NEW c \in DepotClasses, NEW o, RingOK(o, c), NEW p,
           p.head[c] = o.head[c], p.len[c] = o.len[c] + 1, o.len[c] < cap_for(c)
    PROVE  /\ InUse(p, c) = InUse(o, c) \cup {Slot(o, c, o.len[c])}
           /\ Slot(o, c, o.len[c]) \notin InUse(o, c)
           /\ Slot(o, c, o.len[c]) \in 1 .. cap_for(c) /\ RingOK(p, c)
<1>1. o.len[c] \in 0 .. cap_for(c) - 1 /\ cap_for(c) \in Nat
  BY ConstantsAre DEF RingOK
<1>2. \A i : Slot(p, c, i) = Slot(o, c, i)
  BY DEF Slot
<1>3. InUse(p, c) = InUse(o, c) \cup {Slot(o, c, o.len[c])}
  <2>1. 0 .. p.len[c] - 1 = (0 .. o.len[c] - 1) \cup {o.len[c]}
    BY <1>1
  <2> QED
    BY <1>2, <2>1 DEF InUse
<1>4. Slot(o, c, o.len[c]) \notin InUse(o, c)
  <2> SUFFICES ASSUME NEW i \in 0 .. o.len[c] - 1, Slot(o, c, i) = Slot(o, c, o.len[c])
               PROVE  FALSE
    BY DEF InUse
  <2>1. i \in 0 .. cap_for(c) - 1
    BY <1>1
  <2>2. i = o.len[c]
    BY <1>1, <2>1, SlotIs
  <2> QED
    BY <1>1, <2>2
<1> QED
  BY <1>1, <1>3, <1>4, SlotIs DEF RingOK

(* The oldest record less: the head goes on by one.                        *)
LEMMA UseShrinks ==
    ASSUME setup \in Setups, NEW c \in DepotClasses, NEW o, RingOK(o, c), NEW p,
           p.head[c] = Slot(o, c, 1) - 1, p.len[c] = o.len[c] - 1, o.len[c] > 0
    PROVE  /\ InUse(o, c) = InUse(p, c) \cup {Slot(o, c, 0)}
           /\ Slot(o, c, 0) \notin InUse(p, c)
           /\ Slot(o, c, 0) \in 1 .. cap_for(c) /\ RingOK(p, c)
<1> DEFINE n == cap_for(c)
           k == o.len[c]
<1>1. n \in Nat /\ o.head[c] \in 0 .. n /\ k \in 1 .. n
  BY ConstantsAre DEF RingOK
<1> HIDE DEF n, k
<1>2. \A i \in 0 .. n : Slot(o, c, i) =
        IF o.head[c] + i >= n THEN 1 + (o.head[c] + i - n) ELSE 1 + (o.head[c] + i)
  BY <1>1 DEF Slot, n
<1>3. p.head[c] = IF o.head[c] + 1 >= n THEN o.head[c] + 1 - n ELSE o.head[c] + 1
  BY <1>1, <1>2
<1>4. \A i \in 0 .. k - 2 : Slot(p, c, i) = Slot(o, c, i + 1)
  <2> TAKE i \in 0 .. k - 2
  <2>1. i \in Nat /\ i <= k - 2
    BY <1>1
  <2>2. p.head[c] \in Nat /\ o.head[c] \in Nat /\ n \in Nat
    BY <1>1, <1>3
  <2>3. Slot(p, c, i) =
          IF p.head[c] + i >= n THEN 1 + (p.head[c] + i - n) ELSE 1 + (p.head[c] + i)
    BY <2>1, <2>2 DEF Slot, n
  <2>4. i + 1 \in 0 .. n
    BY <1>1, <2>1
  <2>5. Slot(o, c, i + 1) = IF o.head[c] + (i + 1) >= n THEN 1 + (o.head[c] + (i + 1) - n)
                            ELSE 1 + (o.head[c] + (i + 1))
    BY <1>2, <2>4
  <2> QED
    BY <1>1, <1>3, <2>1, <2>2, <2>3, <2>5
<1>5. RingOK(p, c)
  <2>1. p.head[c] \in 0 .. n
    BY <1>1, <1>3
  <2> QED
    BY <1>1, <2>1 DEF RingOK, n, k
<1>6. InUse(o, c) = InUse(p, c) \cup {Slot(o, c, 0)}
  <2>1. ASSUME NEW x
        PROVE  x \in InUse(o, c) <=> x \in InUse(p, c) \/ x = Slot(o, c, 0)
    <3>1. x \in InUse(o, c) <=> \E i \in 0 .. k - 1 : x = Slot(o, c, i)
      BY DEF InUse, k
    <3>2. x \in InUse(p, c) <=> \E i \in 0 .. k - 2 : x = Slot(p, c, i)
      <4>1. 0 .. p.len[c] - 1 = 0 .. k - 2
        BY <1>1 DEF k
      <4> QED
        BY <4>1 DEF InUse
    <3>3. ASSUME x \in InUse(o, c), x # Slot(o, c, 0)
          PROVE  x \in InUse(p, c)
      <4>1. PICK i \in 0 .. k - 1 : x = Slot(o, c, i)
        BY <3>1, <3>3
      <4>2. i # 0 /\ i - 1 \in 0 .. k - 2 /\ (i - 1) + 1 = i
        BY <1>1, <3>3, <4>1
      <4>3. Slot(p, c, i - 1) = Slot(o, c, i)
        BY <1>4, <4>2
      <4> QED
        BY <3>2, <4>1, <4>2, <4>3
    <3>4. ASSUME x \in InUse(p, c)
          PROVE  x \in InUse(o, c)
      <4>1. PICK i \in 0 .. k - 2 : x = Slot(p, c, i)
        BY <3>2, <3>4
      <4>2. i + 1 \in 0 .. k - 1
        BY <1>1
      <4> QED
        BY <1>4, <3>1, <4>1, <4>2
    <3>5. 0 \in 0 .. k - 1
      BY <1>1
    <3> QED
      BY <3>1, <3>3, <3>4, <3>5
  <2> QED
    BY <2>1
<1>7. Slot(o, c, 0) \notin InUse(p, c)
  <2> SUFFICES ASSUME NEW i \in 0 .. k - 2, Slot(p, c, i) = Slot(o, c, 0)
               PROVE  FALSE
    <3>1. 0 .. p.len[c] - 1 = 0 .. k - 2
      BY <1>1 DEF k
    <3> QED
      BY <3>1 DEF InUse
  <2>1. Slot(o, c, i + 1) = Slot(o, c, 0)
    BY <1>4
  <2>2. i + 1 \in 0 .. n - 1 /\ 0 \in 0 .. n - 1
    BY <1>1
  <2>3. i + 1 = 0
    BY <2>1, <2>2, SlotIs DEF n
  <2> QED
    BY <2>3
<1>8. Slot(o, c, 0) \in 1 .. n
  BY <1>1, SlotIs DEF n
<1> QED
  BY <1>5, <1>6, <1>7, <1>8 DEF n

(* ... and so one record more or less in what the class keeps.             *)
LEMMA RecordsAdd ==
    ASSUME setup \in Setups, NEW c \in DepotClasses, NEW o, RingOK(o, c), NEW p, NEW k,
           InUse(p, c) = InUse(o, c) \cup {k}, k \notin InUse(o, c),
           \A i \in InUse(o, c) : p.ring[c][i] = o.ring[c][i], p.ring[c][k] \in Magazine
    PROVE  \A tag : Cardinality(Places(Records(p, c), tag))
                      = Cardinality(Places(Records(o, c), tag)) + Number(p.ring[c][k], tag)
<1> DEFINE m == Records(o, c)
           n == Records(p, c)
<1>1. DOMAIN m = InUse(o, c) /\ DOMAIN n = InUse(p, c)
      /\ (\A i \in InUse(o, c) : m[i] = o.ring[c][i])
      /\ \A i \in InUse(p, c) : n[i] = p.ring[c][i]
  BY DEF Records
<1> HIDE DEF m, n
<1>2. IsFiniteSet(DOMAIN m)
  BY <1>1, SlotIs
<1>3. n[k] = p.ring[c][k] /\ \A x \in DOMAIN m : n[x] = m[x]
  BY <1>1
<1>4. \A tag : Cardinality(Places(n, tag)) = Cardinality(Places(m, tag)) + Number(n[k], tag)
  BY <1>1, <1>2, <1>3, PlacesAdd
<1> QED
  BY <1>3, <1>4 DEF m, n

-----------------------------------------------------------------------------
(* Loops                                                                   *)

LEMMA Reaches ==
    ASSUME NEW n \in Nat, NEW T, 0 \in T, \A k \in 1 .. n : k - 1 \in T => k \in T
    PROVE  \A k \in 0 .. n : k \in T
<1> DEFINE Missed == {k \in 0 .. n : k \notin T}
<1> SUFFICES ASSUME Missed # {} PROVE FALSE
  OBVIOUS
<1>1. Missed \in SUBSET Nat
  OBVIOUS
<1>2. PICK k \in Missed : \A j \in Missed : k =< j
  <2> HIDE DEF Missed
  <2> QED
    BY <1>1, HasLeast
<1>3. k # 0 /\ k \in 1 .. n /\ k - 1 \in 0 .. n
  BY <1>2
<1>4. k - 1 \in T
  BY <1>2, <1>3
<1> QED
  BY <1>2, <1>3, <1>4

(* A loop of n rounds over the members of a set has a run.                 *)
IsRun(f, S, x, step, n) ==
    f \in [0 .. n -> S] /\ f[0] = x /\ \A k \in 1 .. n : f[k] = step[f[k - 1]]

LEMMA RunExists ==
    ASSUME NEW S, NEW x \in S, NEW step \in [S -> S], NEW n \in Nat
    PROVE  \E f : IsRun(f, S, x, step, n)
<1> DEFINE T == {m \in Nat : \E f : IsRun(f, S, x, step, m)}
<1>1. 0 \in T
  <2>1. IsRun([k \in 0 .. 0 |-> x], S, x, step, 0)
    BY DEF IsRun
  <2> QED
    BY <2>1
<1>2. ASSUME NEW k \in 1 .. n, k - 1 \in T
      PROVE  k \in T
  <2>1. PICK f : IsRun(f, S, x, step, k - 1)
    BY <1>2
  <2> DEFINE g == [j \in 0 .. k |-> IF j = k THEN step[f[k - 1]] ELSE f[j]]
  <2>2. f[k - 1] \in S /\ step[f[k - 1]] \in S
    BY <2>1 DEF IsRun
  <2>3. g \in [0 .. k -> S]
    BY <2>1, <2>2 DEF IsRun
  <2>4. g[0] = x
    BY <2>1 DEF IsRun
  <2>5. ASSUME NEW j \in 1 .. k
        PROVE  g[j] = step[g[j - 1]]
    <3>1. j - 1 \in 0 .. k /\ j \in 0 .. k /\ j - 1 # k
      OBVIOUS
    <3>2. CASE j = k
      BY <3>1, <3>2
    <3>3. CASE j # k
      <4>1. j \in 1 .. k - 1
        BY <3>3
      <4> QED
        BY <2>1, <3>1, <3>3, <4>1 DEF IsRun
    <3> QED
      BY <3>2, <3>3
  <2>6. IsRun(g, S, x, step, k)
    <3> HIDE DEF g
    <3> QED
      BY <2>3, <2>4, <2>5 DEF IsRun
  <2> QED
    BY <2>6
<1>3. n \in T
  <2> HIDE DEF T
  <2> QED
    BY <1>1, <1>2, Reaches
<1> QED
  BY <1>3

-----------------------------------------------------------------------------
(* What holds of the heap between two calls, and on the way through one    *)

(* The state byte of a block that was never handed out is that of fresh    *)
(* memory; storage that is not reserved has no records.                    *)
Fresh(h) == h.seg.state = "NONE" => h.seg.zeroed
Unbacked(o) == ~ o.reserved => \A c \in DepotClasses : o.len[c] = 0

(* A call has k times the block "it" of class c in hand, on the way from   *)
(* the user or from a magazine to another place.                           *)
Held(h, c, k) == IF h.seg.state = "MAG" \/ (k > 0 /\ h.seg.state = "LIVE") THEN 1 ELSE 0
InHand(h, c, k) ==
    /\ \A d \in Classes : Cached(h, d, "it") + (IF d = c THEN k ELSE 0)
                            = IF d = setup.it THEN Held(h, c, k) ELSE 0
    /\ h.seg.live = IF h.seg.state \in {"MAG", "LIVE"} THEN 1 ELSE 0
    /\ h.seg.state \in {"MAG", "LIVE"} => setup.it \in Classes

Shape(h) == h \in Heaps /\ WithinCaps(h)
DepotSound(h) ==
    /\ RecordsAreReachable(h) /\ LatchIsStarved(h) /\ BooksBalance(h.ovf) /\ Unbacked(h.ovf)
Base(h) == Shape(h) /\ DepotSound(h) /\ VirginIn(h) /\ Fresh(h)
Sound(h) == Base(h) /\ InHand(h, 0, 0)

(* The blocks "other" that the user does not have, and whether the user    *)
(* has "it": a call that gives nothing out leaves them alone.              *)
Out(h, c) == h.free[c] + Cached(h, c, "other")
Keeps(h, g) ==
    /\ Sound(g)
    /\ \A c \in Classes : Out(g, c) = Out(h, c)
    /\ g.seg.state = "LIVE" <=> h.seg.state = "LIVE"

LEMMA ClassIs ==
    ASSUME NEW h \in Heaps, NEW c \in Classes
    PROVE  /\ h.class[c].slots \in Magazine /\ h.class[c].slots \in Seq(Tags)
           /\ Len(h.class[c].slots) \in 0 .. TCACHE_CAP
           /\ h.class[c].virgin_mask \subseteq 1 .. TCACHE_CAP
           /\ h.class[c].floor \in Seq(Full) /\ h.class[c].ovf \in {0, 1}
           /\ h.class[c].limit \in Nat /\ h.class[c].marks \subseteq {"FLOOR", "TICK"}
           /\ h.class[c] \in PerClass /\ h.free[c] \in Nat
<1>1. h.class[c] \in PerClass /\ h.free[c] \in Nat
  BY DEF Heaps
<1>2. /\ h.class[c].slots \in Magazine
      /\ h.class[c].virgin_mask \subseteq 1 .. TCACHE_CAP
      /\ h.class[c].floor \in Seq(Full) /\ h.class[c].ovf \in {0, 1}
      /\ h.class[c].limit \in Nat /\ h.class[c].marks \subseteq {"FLOOR", "TICK"}
  BY <1>1 DEF PerClass
<1> QED
  BY <1>1, <1>2, MagazineIs

LEMMA OverflowIs ==
    ASSUME NEW o \in Overflow, NEW c \in DepotClasses
    PROVE  /\ o.ring[c] \in Seq(Magazine) /\ o.len[c] \in Nat /\ o.head[c] \in Nat
           /\ o.low[c] \in Nat /\ o.debt[c] \in Nat /\ o.committed[c] \in Nat
BY DEF Overflow

LEMMA RingIs ==
    ASSUME setup \in Setups, NEW h, Shape(h), NEW c \in DepotClasses
    PROVE  /\ RingOK(h.ovf, c) /\ DOMAIN h.ovf.ring[c] = 1 .. cap_for(c)
           /\ \A i \in 1 .. cap_for(c) : h.ovf.ring[c][i] \in Magazine
<1>1. h.ovf \in Overflow
  BY DEF Shape, Heaps
<1>2. /\ DOMAIN h.ovf.ring[c] = 1 .. cap_for(c)
      /\ h.ovf.len[c] <= cap_for(c) /\ h.ovf.head[c] <= cap_for(c)
  BY DEF Shape, WithinCaps
<1>3. cap_for(c) \in Nat
  BY ConstantsAre
<1>4. h.ovf.ring[c] \in Seq(Magazine) /\ h.ovf.len[c] \in Nat /\ h.ovf.head[c] \in Nat
  BY <1>1, OverflowIs
<1>5. ASSUME NEW i \in 1 .. cap_for(c)
      PROVE  h.ovf.ring[c][i] \in Magazine
  <2> DEFINE r == h.ovf.ring[c]
  <2>1. r \in Seq(Magazine) /\ i \in DOMAIN r
    BY <1>2, <1>4
  <2> HIDE DEF r
  <2>2. r[i] \in Magazine
    BY <2>1
  <2> QED
    BY <2>2 DEF r
<1> QED
  BY <1>2, <1>3, <1>4, <1>5 DEF RingOK

LEMMA CachedType ==
    ASSUME setup \in Setups, NEW h, Shape(h), NEW c \in Classes, NEW tag
    PROVE  Cached(h, c, tag) \in Nat /\ Number(h.class[c].slots, tag) \in Nat
           /\ Cached(h, c, tag) >= Number(h.class[c].slots, tag)
<1>1. Number(h.class[c].slots, tag) \in Nat
  BY ClassIs, NumberType DEF Shape
<1>2. Cardinality(Places(h.class[c].floor, tag)) \in Nat
  BY ClassIs, FloorIs DEF Shape
<1>3. c \in DepotClasses => Cardinality(Places(Records(h.ovf, c), tag)) \in Nat
  <2> SUFFICES ASSUME c \in DepotClasses
               PROVE  Cardinality(Places(Records(h.ovf, c), tag)) \in Nat
    OBVIOUS
  <2>1. IsFiniteSet(DOMAIN Records(h.ovf, c))
    BY RingIs, SlotIs DEF Records
  <2> QED
    BY <2>1, PlacesFinite
<1> QED
  BY <1>1, <1>2, <1>3 DEF Cached

(* The same magazine, floor and records: the same blocks.                  *)
SameBlocks(h, g, c) ==
    /\ g.class[c].slots = h.class[c].slots /\ g.class[c].floor = h.class[c].floor
    /\ c \in DepotClasses => /\ g.ovf.ring[c] = h.ovf.ring[c]
                             /\ g.ovf.len[c] = h.ovf.len[c] /\ g.ovf.head[c] = h.ovf.head[c]

LEMMA SameCached ==
    \A h, g, c : SameBlocks(h, g, c) => \A tag : Cached(g, c, tag) = Cached(h, c, tag)
<1> SUFFICES ASSUME NEW h, NEW g, NEW c, SameBlocks(h, g, c), NEW tag
             PROVE  Cached(g, c, tag) = Cached(h, c, tag)
  OBVIOUS
<1>1. c \in DepotClasses => Records(g.ovf, c) = Records(h.ovf, c)
  BY Zenon DEF SameBlocks, Records, InUse, Slot
<1> QED
  BY <1>1, Zenon DEF SameBlocks, Cached

(* No block "it" in the magazines: no marks.                               *)
LEMMA NoMarks ==
    ASSUME setup \in Setups, NEW h, Shape(h), VirginIn(h), NEW c \in Classes,
           Cached(h, c, "it") = 0
    PROVE  h.class[c].virgin_mask = {}
<1> SUFFICES ASSUME NEW i \in h.class[c].virgin_mask
             PROVE  FALSE
  OBVIOUS
<1>1. i <= Len(h.class[c].slots) /\ h.class[c].slots[i] = "it"
  BY DEF VirginIn
<1>2. i \in 1 .. TCACHE_CAP /\ h.class[c].slots \in Seq(Tags)
  BY ClassIs DEF Shape
<1>3. i \in 1 .. Len(h.class[c].slots)
  BY <1>1, <1>2
<1>4. Number(h.class[c].slots, "it") > 0
  BY <1>1, <1>2, <1>3, NumberPositive
<1> QED
  BY <1>4, CachedType

-----------------------------------------------------------------------------
(* Blocks that go back to the segments                                     *)

LEMMA FlushIs ==
    ASSUME NEW h, Shape(h), NEW c \in Classes, NEW some \in Seq(Tags)
    PROVE  LET g == Flush(h, c, some)
               n == Number(some, "it")
           IN  /\ Shape(g) /\ g.class = h.class /\ g.ovf = h.ovf
               /\ g.seg.live = h.seg.live - n
               /\ g.seg.state = IF n > 0 THEN "FREE" ELSE h.seg.state
               /\ g.seg.zeroed = (h.seg.zeroed /\ n = 0)
               /\ g.free = [h.free EXCEPT ![c] = @ + Number(some, "other")]
<1> DEFINE g == Flush(h, c, some)
           n == Number(some, "it")
<1>1. /\ g.class = h.class /\ g.ovf = h.ovf
      /\ g.seg.live = h.seg.live - n
      /\ g.seg.state = IF n > 0 THEN "FREE" ELSE h.seg.state
      /\ g.seg.zeroed = (h.seg.zeroed /\ n = 0)
      /\ g.free = [h.free EXCEPT ![c] = @ + Number(some, "other")]
  BY DEF Flush, Shape, Heaps, Segment
<1>2. n \in Nat /\ Number(some, "other") \in Nat
  BY NumberType
<1>3. g \in Heaps
  <2>1. h \in Heaps
    BY DEF Shape
  <2>2. g.seg \in Segment
    <3>1. h.seg \in Segment
      BY <2>1 DEF Heaps
    <3>2. g.seg.zeroed \in BOOLEAN
      BY <1>1, Zenon
    <3>3. g.seg.live \in Int /\ g.seg.state \in {"NONE", "FREE", "MAG", "LIVE"}
      BY <1>1, <1>2, <3>1 DEF Segment
    <3>4. g.seg = [h.seg EXCEPT !.live = g.seg.live, !.state = g.seg.state,
                                !.zeroed = g.seg.zeroed]
      BY <2>1, <3>1 DEF Flush, Heaps, Segment
    <3> HIDE DEF g
    <3> QED
      BY <3>1, <3>2, <3>3, <3>4 DEF Segment
  <2>3. g.free \in [Classes -> Nat]
    BY <1>1, <1>2, <2>1 DEF Heaps
  <2>4. g = [h EXCEPT !.seg = g.seg, !.free = g.free]
    BY <2>1 DEF Flush, Heaps
  <2> HIDE DEF g
  <2> QED
    BY <2>1, <2>2, <2>3, <2>4 DEF Heaps
<1> QED
  BY <1>1, <1>3 DEF Shape, WithinCaps

(* Who has "it" in hand has it alone.                                      *)
LEMMA InHandAlone ==
    ASSUME setup \in Setups, NEW h, Shape(h), NEW c \in Classes, NEW k \in Nat \ {0},
           InHand(h, c, k)
    PROVE  /\ c = setup.it /\ k = 1 /\ h.seg.state \in {"MAG", "LIVE"} /\ h.seg.live = 1
           /\ \A d \in Classes : Cached(h, d, "it") = 0
<1>1. \A d \in Classes : Cached(h, d, "it") \in Nat
  BY CachedType
<1>2. Cached(h, c, "it") + k = IF c = setup.it THEN Held(h, c, k) ELSE 0
  BY DEF InHand
<1>3. c = setup.it /\ k = 1 /\ Held(h, c, k) = 1 /\ Cached(h, c, "it") = 0
  BY <1>1, <1>2 DEF Held
<1>4. h.seg.state \in {"MAG", "LIVE"} /\ h.seg.live = 1
  BY <1>3 DEF InHand, Held
<1>5. ASSUME NEW d \in Classes, d # c
      PROVE  Cached(h, d, "it") = 0
  <2>1. Cached(h, d, "it") + 0 = 0
    BY <1>3, <1>5 DEF InHand
  <2> QED
    BY <1>1, <2>1
<1> QED
  BY <1>3, <1>4, <1>5

LEMMA FlushSound ==
    ASSUME setup \in Setups, NEW h, Base(h), NEW c \in Classes, NEW some \in Seq(Tags),
           NEW k \in Nat, InHand(h, c, Number(some, "it") + k)
    PROVE  LET g == Flush(h, c, some)
           IN  /\ Base(g) /\ InHand(g, c, k) /\ g.class = h.class /\ g.ovf = h.ovf
               /\ \A d \in Classes : Out(g, d) = Out(h, d)
                                        + IF d = c THEN Number(some, "other") ELSE 0
               /\ Number(some, "it") = 0 => g.seg.state = h.seg.state
               /\ Number(some, "it") > 0 => g.seg.state = "FREE" /\ h.seg.state \in {"MAG", "LIVE"}
<1> DEFINE g == Flush(h, c, some)
           n == Number(some, "it")
<1>1. /\ Shape(g) /\ g.class = h.class /\ g.ovf = h.ovf
      /\ g.seg.live = h.seg.live - n
      /\ g.seg.state = IF n > 0 THEN "FREE" ELSE h.seg.state
      /\ g.seg.zeroed = (h.seg.zeroed /\ n = 0)
      /\ g.free = [h.free EXCEPT ![c] = @ + Number(some, "other")]
  BY FlushIs DEF Base
<1>2. n \in Nat /\ Number(some, "other") \in Nat
  BY NumberType
<1>3. Shape(h) /\ h.seg \in Segment
  BY DEF Base, Shape, Heaps
<1> HIDE DEF g, n
<1>4. \A d, tag : Cached(g, d, tag) = Cached(h, d, tag)
  <2> TAKE d
  <2>1. SameBlocks(h, g, d)
    BY <1>1 DEF SameBlocks
  <2> QED
    BY <2>1, SameCached
<1>5. DepotSound(g)
  BY <1>1 DEF Base, DepotSound, RecordsAreReachable, LatchIsStarved
<1>6. \A d \in Classes : Out(g, d) = Out(h, d) + IF d = c THEN Number(some, "other") ELSE 0
  <2> TAKE d \in Classes
  <2>1. h.free[d] \in Nat /\ Cached(h, d, "other") \in Nat /\ DOMAIN h.free = Classes
    BY <1>3, CachedType DEF Shape, Heaps
  <2>2. g.free[d] = h.free[d] + IF d = c THEN Number(some, "other") ELSE 0
    BY <1>1, <1>2, <2>1
  <2> QED
    BY <1>2, <1>4, <2>1, <2>2 DEF Out
<1>7. CASE n = 0
  <2>1. g.seg.live = h.seg.live /\ g.seg.state = h.seg.state
        /\ g.seg.zeroed = h.seg.zeroed
    BY <1>1, <1>3, <1>7 DEF Segment
  <2>2. InHand(g, c, k)
    <3>1. n + k = k /\ InHand(h, c, n + k)
      BY <1>2, <1>7 DEF n
    <3>2. InHand(h, c, k)
      BY <3>1
    <3>3. Held(g, c, k) = Held(h, c, k)
      BY <2>1 DEF Held
    <3> QED
      BY <1>4, <2>1, <3>2, <3>3 DEF InHand
  <2>3. VirginIn(g) /\ Fresh(g)
    BY <1>1, <2>1 DEF Base, VirginIn, Fresh
  <2> QED
    BY <1>1, <1>5, <1>6, <1>7, <2>1, <2>2, <2>3 DEF Base, g, n
<1>8. CASE n > 0
  <2>1. n + k \in Nat \ {0} /\ InHand(h, c, n + k)
    BY <1>2, <1>8 DEF n
  <2>2. /\ c = setup.it /\ n + k = 1 /\ h.seg.state \in {"MAG", "LIVE"} /\ h.seg.live = 1
        /\ \A d \in Classes : Cached(h, d, "it") = 0
    BY <1>3, <2>1, InHandAlone
  <2>3. n = 1 /\ k = 0
    BY <1>2, <1>8, <2>2
  <2>4. g.seg.state = "FREE" /\ g.seg.live = 0
    BY <1>1, <2>2, <2>3
  <2>5. InHand(g, c, k)
    <3>1. \A d \in Classes : Cached(g, d, "it") + (IF d = c THEN k ELSE 0)
                               = IF d = setup.it THEN Held(g, c, k) ELSE 0
      BY <1>4, <2>2, <2>3, <2>4 DEF Held
    <3> QED
      BY <2>4, <3>1 DEF InHand
  <2>6. \A d \in Classes : h.class[d].virgin_mask = {}
    BY <1>3, <2>2, NoMarks DEF Base
  <2>7. VirginIn(g) /\ Fresh(g)
    BY <1>1, <2>4, <2>6 DEF VirginIn, Fresh
  <2> QED
    BY <1>1, <1>5, <1>6, <1>8, <2>2, <2>4, <2>5, <2>7 DEF Base, g, n
<1> QED
  BY <1>2, <1>7, <1>8

-----------------------------------------------------------------------------
(* Parts of a heap that were replaced                                      *)

LEMMA SegMade ==
    ASSUME NEW s \in Segment, NEW t,
           t = [s EXCEPT !.live = t.live, !.state = t.state, !.zeroed = t.zeroed],
           t.live \in Int, t.state \in {"NONE", "FREE", "MAG", "LIVE"}, t.zeroed \in BOOLEAN
    PROVE  t \in Segment
BY DEF Segment

LEMMA PerClassMade ==
    ASSUME NEW x \in PerClass, NEW y,
           y = [x EXCEPT !.slots = y.slots, !.virgin_mask = y.virgin_mask, !.floor = y.floor,
                         !.ovf = y.ovf, !.limit = y.limit, !.marks = y.marks],
           y.slots \in Magazine, y.virgin_mask \subseteq 1 .. TCACHE_CAP, y.floor \in Seq(Full),
           y.ovf \in {0, 1}, y.limit \in Nat, y.marks \subseteq {"FLOOR", "TICK"}
    PROVE  y \in PerClass
BY DEF PerClass

LEMMA HeapMade ==
    ASSUME NEW h \in Heaps, NEW g,
           g = [h EXCEPT !.class = g.class, !.ovf = g.ovf, !.seg = g.seg, !.free = g.free],
           g.class \in [Classes -> PerClass], g.ovf \in Overflow, g.seg \in Segment,
           g.free \in [Classes -> Nat]
    PROVE  g \in Heaps
BY DEF Heaps

(* What a class keeps apart from its magazine.                             *)
Rest(h, c, tag) ==
    Cardinality(Places(h.class[c].floor, tag))
    + IF c \in DepotClasses THEN Cardinality(Places(Records(h.ovf, c), tag)) ELSE 0

LEMMA RestIs ==
    ASSUME setup \in Setups, NEW h, Shape(h), NEW c \in Classes, NEW tag
    PROVE  /\ Cached(h, c, tag) = Rest(h, c, tag) + Number(h.class[c].slots, tag)
           /\ Rest(h, c, tag) \in Nat
<1> DEFINE x == Number(h.class[c].slots, tag)
           y == Cardinality(Places(h.class[c].floor, tag))
           z == IF c \in DepotClasses THEN Cardinality(Places(Records(h.ovf, c), tag)) ELSE 0
<1>1. x \in Nat
  BY CachedType
<1>2. y \in Nat
  BY ClassIs, FloorIs DEF Shape
<1>3. z \in Nat
  <2>1. c \in DepotClasses => IsFiniteSet(DOMAIN Records(h.ovf, c))
    BY RingIs, SlotIs DEF Records
  <2> QED
    BY <2>1, PlacesFinite
<1>4. Cached(h, c, tag) = x + y + z /\ Rest(h, c, tag) = y + z
  BY DEF Cached, Rest
<1> HIDE DEF x, y, z
<1>5. Cached(h, c, tag) = Rest(h, c, tag) + x /\ Rest(h, c, tag) \in Nat
  BY <1>1, <1>2, <1>3, <1>4
<1> QED
  BY <1>5 DEF x

(* Only the magazine of c has changed.                                     *)
Magazined(h, g, c) ==
    /\ g.ovf = h.ovf
    /\ \A d \in Classes : d # c => g.class[d] = h.class[d]
    /\ g.class[c].floor = h.class[c].floor /\ g.class[c].limit = h.class[c].limit
    /\ g.class[c].ovf = h.class[c].ovf /\ g.class[c].marks = h.class[c].marks
    /\ Len(g.class[c].slots) <= FREE_PARK_CAP[c]

LEMMA MagazineChanged ==
    ASSUME setup \in Setups, NEW h, Shape(h), NEW c \in Classes,
           NEW g \in Heaps, Magazined(h, g, c)
    PROVE  /\ Shape(g)
           /\ DepotSound(h) => DepotSound(g)
           /\ \A d \in Classes : \A tag : d # c => Cached(g, d, tag) = Cached(h, d, tag)
           /\ \A tag : Cached(g, c, tag) = Rest(h, c, tag) + Number(g.class[c].slots, tag)
           /\ \A tag : Rest(h, c, tag) \in Nat
<1>1. Shape(g)
  BY DEF Shape, WithinCaps, Magazined
<1>2. /\ g.ovf = h.ovf
      /\ \A d \in Classes : /\ g.class[d].floor = h.class[d].floor
                            /\ g.class[d].limit = h.class[d].limit
                            /\ g.class[d].ovf = h.class[d].ovf
                            /\ g.class[d].marks = h.class[d].marks
  BY DEF Magazined
<1>3. ASSUME DepotSound(h)
      PROVE  DepotSound(g)
  <2>1. DepotClasses \subseteq Classes
    BY ConstantsAre
  <2>2. RecordsAreReachable(g)
    BY <1>2, <1>3, <2>1 DEF DepotSound, RecordsAreReachable
  <2>3. LatchIsStarved(g)
    BY <1>2, <1>3, <2>1 DEF DepotSound, LatchIsStarved
  <2> QED
    BY <1>2, <1>3, <2>2, <2>3 DEF DepotSound
<1>4. ASSUME NEW d \in Classes, d # c
      PROVE  \A tag : Cached(g, d, tag) = Cached(h, d, tag)
  <2>1. SameBlocks(h, g, d)
    BY <1>2, <1>4 DEF SameBlocks, Magazined
  <2> QED
    BY <2>1, SameCached
<1>5. ASSUME NEW tag
      PROVE  /\ Cached(g, c, tag) = Rest(h, c, tag) + Number(g.class[c].slots, tag)
             /\ Rest(h, c, tag) \in Nat
  <2>1. Rest(g, c, tag) = Rest(h, c, tag)
    BY <1>2 DEF Rest
  <2> QED
    BY <1>1, <2>1, RestIs
<1> QED
  BY <1>1, <1>3, <1>4, <1>5

-----------------------------------------------------------------------------
(* Where "it" goes                                                         *)

Elsewhere(h, g, c) == \A d \in Classes : d # c => Cached(g, d, "it") = Cached(h, d, "it")

(* Out of a magazine or record into the hand of the call.                  *)
LEMMA HandTakes ==
    ASSUME setup \in Setups, NEW h, Shape(h), NEW g, Shape(g), NEW c \in Classes,
           NEW j \in Nat, NEW k \in Nat, InHand(h, c, k), Elsewhere(h, g, c),
           Cached(g, c, "it") + j = Cached(h, c, "it"), g.seg = h.seg
    PROVE  /\ InHand(g, c, j + k)
           /\ j > 0 => h.seg.state = "MAG" /\ k = 0
<1>1. \A d \in Classes : Cached(h, d, "it") \in Nat /\ Cached(g, d, "it") \in Nat
  BY CachedType
<1>2. Cached(h, c, "it") + k = IF c = setup.it THEN Held(h, c, k) ELSE 0
  BY DEF InHand
<1>3. Held(g, c, j + k) = Held(h, c, k)
  BY <1>1, <1>2 DEF Held
<1>4. ASSUME NEW d \in Classes
      PROVE  Cached(g, d, "it") + (IF d = c THEN j + k ELSE 0)
               = IF d = setup.it THEN Held(g, c, j + k) ELSE 0
  <2>1. Cached(h, d, "it") + (IF d = c THEN k ELSE 0) = IF d = setup.it THEN Held(h, c, k) ELSE 0
    BY DEF InHand
  <2>2. CASE d = c
    BY <1>1, <1>3, <2>1, <2>2
  <2>3. CASE d # c
    BY <1>1, <1>3, <2>1, <2>3 DEF Elsewhere
  <2> QED
    BY <2>2, <2>3
<1>5. j > 0 => h.seg.state = "MAG" /\ k = 0
  BY <1>1, <1>2 DEF Held
<1> QED
  BY <1>4, <1>5 DEF InHand

(* Out of the hand of the call into a magazine.                            *)
LEMMA HandPuts ==
    ASSUME setup \in Setups, NEW h, Shape(h), NEW g, Shape(g), NEW c \in Classes,
           NEW j \in Nat, NEW k \in Nat, InHand(h, c, j + k), Elsewhere(h, g, c),
           Cached(g, c, "it") = Cached(h, c, "it") + j, g.seg.live = h.seg.live,
           g.seg.state = IF j > 0 THEN "MAG" ELSE h.seg.state
    PROVE  InHand(g, c, k)
<1>1. \A d \in Classes : Cached(h, d, "it") \in Nat /\ Cached(g, d, "it") \in Nat
  BY CachedType
<1>2. CASE j = 0
  <2>1. j + k = k /\ g.seg.state = h.seg.state /\ Cached(g, c, "it") = Cached(h, c, "it")
    BY <1>1, <1>2
  <2>2. InHand(h, c, k)
    BY <2>1
  <2>3. \A d \in Classes : Cached(g, d, "it") = Cached(h, d, "it")
    BY <2>1 DEF Elsewhere
  <2> QED
    BY <2>1, <2>2, <2>3 DEF InHand, Held
<1>3. CASE j > 0
  <2>1. j + k \in Nat \ {0}
    BY <1>3
  <2>2. /\ c = setup.it /\ j + k = 1 /\ h.seg.live = 1
        /\ \A d \in Classes : Cached(h, d, "it") = 0
    BY <2>1, InHandAlone
  <2>3. j = 1 /\ k = 0 /\ g.seg.state = "MAG" /\ g.seg.live = 1
    BY <1>3, <2>2
  <2>4. \A d \in Classes : Cached(g, d, "it") + (IF d = c THEN k ELSE 0)
                             = IF d = setup.it THEN Held(g, c, k) ELSE 0
    BY <1>1, <2>2, <2>3 DEF Held, Elsewhere
  <2> QED
    BY <2>2, <2>3, <2>4 DEF InHand
<1> QED
  BY <1>2, <1>3

(* Out of a magazine to the user.                                          *)
LEMMA HandIssues ==
    ASSUME setup \in Setups, NEW h, Shape(h), NEW g, Shape(g), NEW c \in Classes,
           NEW j \in Nat, InHand(h, c, 0), Elsewhere(h, g, c),
           Cached(g, c, "it") + j = Cached(h, c, "it"), g.seg.live = h.seg.live,
           g.seg.state = IF j > 0 THEN "LIVE" ELSE h.seg.state
    PROVE  /\ InHand(g, c, 0)
           /\ j > 0 => c = setup.it /\ j = 1 /\ h.seg.state = "MAG"
<1>1. \A d \in Classes : Cached(h, d, "it") \in Nat /\ Cached(g, d, "it") \in Nat
  BY CachedType
<1>2. \A d \in Classes : Cached(h, d, "it") = IF d = setup.it THEN Held(h, c, 0) ELSE 0
  <2> TAKE d \in Classes
  <2>1. Cached(h, d, "it") + (IF d = c THEN 0 ELSE 0) = IF d = setup.it THEN Held(h, c, 0) ELSE 0
    BY DEF InHand
  <2> QED
    BY <1>1, <2>1
<1>3. CASE j = 0
  <2>1. \A d \in Classes : Cached(g, d, "it") = Cached(h, d, "it")
    BY <1>1, <1>3 DEF Elsewhere
  <2> QED
    BY <1>3, <2>1 DEF InHand, Held
<1>4. CASE j > 0
  <2>1. c = setup.it /\ h.seg.state = "MAG" /\ j = 1 /\ Cached(g, c, "it") = 0
    BY <1>1, <1>2, <1>4 DEF Held
  <2>2. h.seg.live = 1 /\ setup.it \in Classes
    BY <2>1 DEF InHand
  <2>3. \A d \in Classes : Cached(g, d, "it") = 0
    BY <1>2, <2>1 DEF Elsewhere
  <2>4. \A d \in Classes : Cached(g, d, "it") + (IF d = c THEN 0 ELSE 0)
                             = IF d = setup.it THEN Held(g, c, 0) ELSE 0
    BY <1>4, <2>1, <2>3 DEF Held
  <2> QED
    BY <1>4, <2>1, <2>2, <2>4 DEF InHand
<1> QED
  BY <1>3, <1>4

(* Out of the segment into the magazine.                                   *)
InSegment(h, c) == IF c = setup.it /\ h.seg.state \in {"NONE", "FREE"} THEN 1 ELSE 0
LEMMA HandFills ==
    ASSUME setup \in Setups, NEW h, Shape(h), NEW g, Shape(g), NEW c \in Classes,
           NEW j \in Nat, InHand(h, c, 0), Elsewhere(h, g, c), j <= InSegment(h, c),
           Cached(g, c, "it") = Cached(h, c, "it") + j, g.seg.live = h.seg.live + j,
           g.seg.state = IF j > 0 THEN "MAG" ELSE h.seg.state
    PROVE  InHand(g, c, 0)
<1>1. \A d \in Classes : Cached(h, d, "it") \in Nat /\ Cached(g, d, "it") \in Nat
  BY CachedType
<1>2. \A d \in Classes : Cached(h, d, "it") = IF d = setup.it THEN Held(h, c, 0) ELSE 0
  <2> TAKE d \in Classes
  <2>1. Cached(h, d, "it") + (IF d = c THEN 0 ELSE 0) = IF d = setup.it THEN Held(h, c, 0) ELSE 0
    BY DEF InHand
  <2> QED
    BY <1>1, <2>1
<1>3. CASE j = 0
  <2>1. \A d \in Classes : Cached(g, d, "it") = Cached(h, d, "it")
    BY <1>1, <1>3 DEF Elsewhere
  <2>2. g.seg.live = h.seg.live
    BY <1>3 DEF InHand
  <2> QED
    BY <1>3, <2>1, <2>2 DEF InHand, Held
<1>4. CASE j > 0
  <2>1. c = setup.it /\ h.seg.state \in {"NONE", "FREE"} /\ j = 1
    BY <1>4 DEF InSegment
  <2>2. h.seg.live = 0 /\ \A d \in Classes : Cached(h, d, "it") = 0
    BY <1>2, <2>1 DEF InHand, Held
  <2>3. \A d \in Classes : Cached(g, d, "it") = IF d = c THEN 1 ELSE 0
    BY <2>1, <2>2 DEF Elsewhere
  <2>4. \A d \in Classes : Cached(g, d, "it") + (IF d = c THEN 0 ELSE 0)
                             = IF d = setup.it THEN Held(g, c, 0) ELSE 0
    BY <1>4, <2>1, <2>3 DEF Held
  <2> QED
    BY <1>4, <2>1, <2>2, <2>4 DEF InHand
<1> QED
  BY <1>3, <1>4

(* Out of the segment to the user.                                         *)
LEMMA HandLends ==
    ASSUME setup \in Setups, NEW h, Shape(h), NEW g, Shape(g), NEW c \in Classes,
           NEW j \in Nat, InHand(h, c, 0), j <= InSegment(h, c),
           \A d \in Classes : Cached(g, d, "it") = Cached(h, d, "it"),
           g.seg.live = h.seg.live + j,
           g.seg.state = IF j > 0 THEN "LIVE" ELSE h.seg.state
    PROVE  /\ InHand(g, c, 0)
           /\ j > 0 => c = setup.it /\ j = 1 /\ h.seg.state # "LIVE"
<1>1. CASE j = 0
  <2>1. g.seg.live = h.seg.live
    BY <1>1 DEF InHand
  <2> QED
    BY <1>1, <2>1 DEF InHand, Held
<1>2. CASE j > 0
  <2>1. c = setup.it /\ h.seg.state \in {"NONE", "FREE"} /\ j = 1
    BY <1>2 DEF InSegment
  <2>2. h.seg.live = 0 /\ Held(h, c, 0) = 0 /\ Held(g, c, 0) = 0
    BY <1>2, <2>1 DEF InHand, Held
  <2> QED
    BY <1>2, <2>1, <2>2 DEF InHand
<1> QED
  BY <1>1, <1>2

-----------------------------------------------------------------------------
(* The magazine: a block goes out, blocks come in                          *)

LEMMA HandEmpty ==
    \A h, c, d : InHand(h, c, 0) => InHand(h, d, 0)
<1> SUFFICES ASSUME NEW h, NEW c, NEW d, InHand(h, c, 0)
             PROVE  InHand(h, d, 0)
  OBVIOUS
<1>1. Held(h, d, 0) = Held(h, c, 0)
  BY DEF Held
<1>2. \A x \in Classes : (IF x = c THEN 0 ELSE 0) = (IF x = d THEN 0 ELSE 0)
  OBVIOUS
<1> QED
  BY <1>1, <1>2 DEF InHand

(* Marks on blocks of a magazine that were marked before.                  *)
Marked(h, g) ==
    \A d \in Classes : \A i \in g.class[d].virgin_mask :
        h.seg.zeroed /\ i <= Len(g.class[d].slots) /\ g.class[d].slots[i] = "it"

LEMMA VirginKept ==
    ASSUME setup \in Setups, NEW h, NEW g, Shape(g), Marked(h, g),
           g.seg.zeroed = h.seg.zeroed \/ \A d \in Classes : Cached(g, d, "it") = 0
    PROVE  VirginIn(g)
<1>1. CASE g.seg.zeroed = h.seg.zeroed
  BY <1>1 DEF Marked, VirginIn
<1>2. CASE \A d \in Classes : Cached(g, d, "it") = 0
  <2> SUFFICES ASSUME NEW d \in Classes, NEW i \in g.class[d].virgin_mask
               PROVE  FALSE
    BY DEF VirginIn
  <2>1. i <= Len(g.class[d].slots) /\ g.class[d].slots[i] = "it"
    BY DEF Marked
  <2>2. i \in 1 .. TCACHE_CAP /\ TCACHE_CAP \in Nat /\ g.class[d].slots \in Seq(Tags)
    BY ClassIs, MagazinesAssumption DEF Shape
  <2>3. i \in 1 .. Len(g.class[d].slots)
    BY <2>1, <2>2
  <2>4. Number(g.class[d].slots, "it") > 0
    BY <2>1, <2>2, <2>3, NumberPositive
  <2> QED
    BY <1>2, <2>4, CachedType
<1> QED
  BY <1>1, <1>2

LEMMA NoneCached ==
    ASSUME setup \in Setups, NEW g, Shape(g), NEW c, InHand(g, c, 0), g.seg.state # "MAG"
    PROVE  \A d \in Classes : Cached(g, d, "it") = 0
<1> TAKE d \in Classes
<1>1. Cached(g, d, "it") + (IF d = c THEN 0 ELSE 0) = 0 /\ Cached(g, d, "it") \in Nat
  BY CachedType DEF InHand, Held
<1> QED
  BY <1>1

(* What the user gets in a call, and what becomes of the heap.             *)
LiveNow(h) == IF h.seg.state = "LIVE" THEN 1 ELSE 0
Gave(h, g, c, s) ==
    /\ Sound(g)
    /\ \A d \in Classes : Out(g, d) + (IF d = c THEN Number(s, "other") ELSE 0) = Out(h, d)
    /\ LiveNow(g) = LiveNow(h) + Number(s, "it")
    /\ Number(s, "it") > 0 => c = setup.it

LEMMA IssueIs ==
    ASSUME NEW h \in Heaps, NEW c \in Classes, h.class[c].slots # <<>>
    PROVE  LET g == Issue(h, c)
               n == Len(h.class[c].slots)
               top == h.class[c].slots[n]
           IN  /\ g \in Heaps /\ g.ovf = h.ovf /\ g.free = h.free
               /\ \A d \in Classes : d # c => g.class[d] = h.class[d]
               /\ g.class[c] = [h.class[c] EXCEPT !.slots = Front(h.class[c].slots),
                                                  !.virgin_mask = h.class[c].virgin_mask \ {n}]
               /\ g.seg.live = h.seg.live
               /\ g.seg.state = IF top = "it" THEN "LIVE" ELSE h.seg.state
               /\ g.seg.zeroed = (h.seg.zeroed /\ top # "it")
<1> DEFINE g == Issue(h, c)
           n == Len(h.class[c].slots)
           top == h.class[c].slots[n]
           x == h.class[c]
           y == [x EXCEPT !.slots = Front(x.slots), !.virgin_mask = x.virgin_mask \ {n}]
<1>1. h.class \in [Classes -> PerClass] /\ x \in PerClass
  BY DEF Heaps
<1>2. y \in PerClass
  <2>1. x.slots \in Magazine /\ x.virgin_mask \subseteq 1 .. TCACHE_CAP /\ x.slots \in Seq(Tags)
    BY ClassIs
  <2>2. Front(x.slots) \in Magazine
    <3>1. TCACHE_CAP \in Nat /\ Len(x.slots) <= TCACHE_CAP
      BY <2>1, MagazineIs, MagazinesAssumption
    <3>2. Front(x.slots) \in Seq(Tags) /\ Len(Front(x.slots)) = Len(x.slots) - 1
          /\ Len(x.slots) \in Nat
      BY <2>1, NumberTop
    <3>3. Len(Front(x.slots)) <= TCACHE_CAP
      BY <3>1, <3>2
    <3> QED
      BY <3>2, <3>3, MagazineIs
  <2> HIDE DEF x, n
  <2> QED
    BY <1>1, <2>1, <2>2 DEF PerClass
<1>3. g.class = [h.class EXCEPT ![c] = y]
  BY <1>1 DEF Issue, Heaps, PerClass
<1>4. g.ovf = h.ovf /\ g.free = h.free
  BY DEF Issue, Heaps
<1>5. /\ g.seg.live = h.seg.live
      /\ g.seg.state = IF top = "it" THEN "LIVE" ELSE h.seg.state
      /\ g.seg.zeroed = (h.seg.zeroed /\ top # "it")
  BY DEF Issue, Heaps, Segment
<1>6. g \in Heaps
  <2>1. g.class \in [Classes -> PerClass]
    BY <1>1, <1>2, <1>3
  <2>2. g.seg \in Segment
    <3>1. h.seg \in Segment
      BY DEF Heaps
    <3>2. g.seg = [h.seg EXCEPT !.live = g.seg.live, !.state = g.seg.state,
                                !.zeroed = g.seg.zeroed]
      BY <3>1 DEF Issue, Heaps, Segment
    <3>3. g.seg.zeroed \in BOOLEAN
      BY <1>5, Zenon
    <3>4. g.seg.live \in Int /\ g.seg.state \in {"NONE", "FREE", "MAG", "LIVE"}
      BY <1>5, <3>1 DEF Segment
    <3> HIDE DEF g
    <3> QED
      BY <3>1, <3>2, <3>3, <3>4, SegMade
  <2>3. g = [h EXCEPT !.class = g.class, !.ovf = g.ovf, !.seg = g.seg, !.free = g.free]
    BY ZenonT(60) DEF Issue, Heaps
  <2>4. g.ovf \in Overflow /\ g.free \in [Classes -> Nat]
    BY <1>4 DEF Heaps
  <2> HIDE DEF g
  <2> QED
    BY <2>1, <2>2, <2>3, <2>4, HeapMade
<1> HIDE DEF g, y
<1>7. g.class[c] = y /\ \A d \in Classes : d # c => g.class[d] = h.class[d]
  BY <1>1, <1>3
<1> QED
  BY <1>4, <1>5, <1>6, <1>7 DEF g, y

LEMMA IssueSound ==
    ASSUME setup \in Setups, NEW h, Sound(h), NEW c \in Classes, h.class[c].slots # <<>>
    PROVE  Gave(h, Issue(h, c), c, <<Top(h.class[c].slots)>>)
<1> DEFINE g == Issue(h, c)
           s == h.class[c].slots
           n == Len(s)
           j == IF s[n] = "it" THEN 1 ELSE 0
<1>1. h \in Heaps /\ Base(h) /\ Shape(h) /\ DepotSound(h) /\ VirginIn(h) /\ Fresh(h)
      /\ InHand(h, c, 0)
  BY HandEmpty DEF Sound, Base, Shape
<1>2. /\ g \in Heaps /\ g.ovf = h.ovf /\ g.free = h.free
      /\ \A d \in Classes : d # c => g.class[d] = h.class[d]
      /\ g.class[c] = [h.class[c] EXCEPT !.slots = Front(s),
                                         !.virgin_mask = h.class[c].virgin_mask \ {n}]
      /\ g.seg.live = h.seg.live
      /\ g.seg.state = IF s[n] = "it" THEN "LIVE" ELSE h.seg.state
      /\ g.seg.zeroed = (h.seg.zeroed /\ s[n] # "it")
  BY <1>1, IssueIs
<1>3. /\ g.class[c].slots = Front(s) /\ g.class[c].virgin_mask = h.class[c].virgin_mask \ {n}
      /\ g.class[c].floor = h.class[c].floor /\ g.class[c].limit = h.class[c].limit
      /\ g.class[c].ovf = h.class[c].ovf /\ g.class[c].marks = h.class[c].marks
  BY <1>1, <1>2, ClassIs DEF PerClass
<1>4. /\ s \in Seq(Tags) /\ s # <<>> /\ n \in Nat \ {0} /\ Top(s) = s[n] /\ Top(s) \in Tags
      /\ Len(Front(s)) = n - 1 /\ \A i \in 1 .. n - 1 : Front(s)[i] = s[i]
      /\ \A tag : Number(s, tag) = Number(Front(s), tag) + IF s[n] = tag THEN 1 ELSE 0
      /\ Front(s) \in Seq(Tags)
  BY <1>1, ClassIs, NumberTop
<1>5. n <= FREE_PARK_CAP[c] /\ FREE_PARK_CAP[c] \in Nat
  BY <1>1, ConstantsAre DEF Shape, WithinCaps
<1>6. Magazined(h, g, c)
  <2>1. Len(g.class[c].slots) <= FREE_PARK_CAP[c]
    BY <1>3, <1>4, <1>5
  <2> HIDE DEF g, s, n
  <2> QED
    BY <1>2, <1>3, <2>1 DEF Magazined
<1> HIDE DEF g, s, n
<1>7. /\ Shape(g) /\ DepotSound(g)
      /\ \A d \in Classes : \A tag : d # c => Cached(g, d, tag) = Cached(h, d, tag)
      /\ \A tag : Cached(g, c, tag) = Rest(h, c, tag) + Number(Front(s), tag)
      /\ \A tag : Rest(h, c, tag) \in Nat
  <2>1. /\ Shape(g)
        /\ DepotSound(h) => DepotSound(g)
        /\ \A d \in Classes : \A tag : d # c => Cached(g, d, tag) = Cached(h, d, tag)
        /\ \A tag : Cached(g, c, tag) = Rest(h, c, tag) + Number(g.class[c].slots, tag)
        /\ \A tag : Rest(h, c, tag) \in Nat
    BY <1>1, <1>2, <1>6, MagazineChanged
  <2> QED
    BY <1>1, <1>3, <2>1
<1>8. \A tag : Cached(g, c, tag) + (IF s[n] = tag THEN 1 ELSE 0) = Cached(h, c, tag)
  <2> TAKE tag
  <2>1. Cached(h, c, tag) = Rest(h, c, tag) + Number(s, tag) /\ Number(Front(s), tag) \in Nat
    BY <1>1, <1>4, NumberType, RestIs DEF s
  <2>2. Number(s, tag) = Number(Front(s), tag) + IF s[n] = tag THEN 1 ELSE 0
    BY <1>4
  <2> QED
    BY <1>7, <2>1, <2>2
<1>9. j \in Nat /\ (j > 0 <=> s[n] = "it")
  OBVIOUS
<1>10. /\ InHand(g, c, 0)
       /\ j > 0 => c = setup.it /\ j = 1 /\ h.seg.state = "MAG"
  <2>1. Cached(g, c, "it") + j = Cached(h, c, "it")
    BY <1>8
  <2>2. Elsewhere(h, g, c)
    BY <1>7 DEF Elsewhere
  <2>3. g.seg.state = IF j > 0 THEN "LIVE" ELSE h.seg.state
    BY <1>2, <1>9
  <2> HIDE DEF j
  <2> QED
    BY <1>1, <1>2, <1>7, <1>9, <2>1, <2>2, <2>3, HandIssues
<1>11. VirginIn(g) /\ Fresh(g)
  <2>1. Marked(h, g)
    <3> SUFFICES ASSUME NEW d \in Classes, NEW i \in g.class[d].virgin_mask
                 PROVE  h.seg.zeroed /\ i <= Len(g.class[d].slots) /\ g.class[d].slots[i] = "it"
      BY DEF Marked
    <3>1. /\ i \in h.class[d].virgin_mask
          /\ d = c => i # n
      BY <1>2, <1>3
    <3>2. i <= Len(h.class[d].slots) /\ h.class[d].slots[i] = "it" /\ h.seg.zeroed
      BY <1>1, <3>1 DEF VirginIn
    <3>3. i \in 1 .. TCACHE_CAP /\ TCACHE_CAP \in Nat
      BY <1>1, <3>1, ClassIs, MagazinesAssumption
    <3>4. CASE d = c
      BY <1>3, <1>4, <3>1, <3>2, <3>3, <3>4 DEF s, n
    <3>5. CASE d # c
      BY <1>2, <3>2, <3>5
    <3> QED
      BY <3>4, <3>5
  <2>2. CASE s[n] = "it"
    <3>1. g.seg.state = "LIVE"
      BY <1>2, <2>2
    <3> QED
      BY <1>7, <1>10, <2>1, <3>1, NoneCached, VirginKept DEF Fresh
  <2>3. CASE s[n] # "it"
    <3>1. g.seg.zeroed = h.seg.zeroed /\ g.seg.state = h.seg.state
      BY <1>1, <1>2, <2>3 DEF Heaps, Segment
    <3> QED
      BY <1>1, <1>7, <2>1, <3>1, VirginKept DEF Fresh
  <2> QED
    BY <2>2, <2>3
<1>12. Sound(g)
  BY <1>7, <1>10, <1>11, HandEmpty DEF Sound, Base
<1>13. /\ Number(<<Top(s)>>, "it") = j
       /\ Number(<<Top(s)>>, "other") = IF s[n] = "other" THEN 1 ELSE 0
  BY <1>4, NumberOne
<1>14. LiveNow(g) = LiveNow(h) + j
  BY <1>2, <1>9, <1>10 DEF LiveNow
<1>15. \A d \in Classes : Out(g, d) + (IF d = c THEN Number(<<Top(s)>>, "other") ELSE 0) = Out(h, d)
  <2> TAKE d \in Classes
  <2>1. h.free[d] \in Nat /\ Cached(h, d, "other") \in Nat /\ Cached(g, d, "other") \in Nat
        /\ g.free[d] = h.free[d]
    BY <1>1, <1>2, <1>7, ClassIs, CachedType
  <2>2. CASE d = c
    BY <1>8, <1>13, <2>1, <2>2 DEF Out
  <2>3. CASE d # c
    BY <1>7, <2>1, <2>3 DEF Out
  <2> QED
    BY <2>2, <2>3
<1> QED
  BY <1>10, <1>12, <1>13, <1>14, <1>15 DEF Gave, g, s

(* A heap with another magazine for c, another segment and free blocks.    *)
Remade(h, c, m, v, t, f) ==
    [h EXCEPT !.class[c].slots = m, !.class[c].virgin_mask = v, !.seg = t, !.free = f]

Remakes(h, g, c, m, v, t, f) ==
    /\ g \in Heaps /\ Shape(g) /\ Magazined(h, g, c)
    /\ g.class[c].slots = m /\ g.class[c].virgin_mask = v
    /\ g.seg = t /\ g.free = f /\ g.ovf = h.ovf
    /\ \A d \in Classes : d # c => g.class[d] = h.class[d]
    /\ \A tag : Cached(g, c, tag) = Rest(h, c, tag) + Number(m, tag)
    /\ \A d \in Classes : \A tag : d # c => Cached(g, d, tag) = Cached(h, d, tag)
    /\ \A tag : Rest(h, c, tag) \in Nat
    /\ DepotSound(h) => DepotSound(g)

LEMMA RemadeIs ==
    ASSUME setup \in Setups, NEW h, Shape(h), NEW c \in Classes,
           NEW m \in Magazine, Len(m) <= FREE_PARK_CAP[c],
           NEW v \in SUBSET (1 .. TCACHE_CAP), NEW t \in Segment, NEW f \in [Classes -> Nat],
           NEW g, g = Remade(h, c, m, v, t, f)
    PROVE  Remakes(h, g, c, m, v, t, f)
<1> DEFINE x == h.class[c]
           y == [x EXCEPT !.slots = m, !.virgin_mask = v]
<1>1. h \in Heaps /\ h.class \in [Classes -> PerClass] /\ x \in PerClass
  BY DEF Heaps, Shape
<1>2. y \in PerClass /\ y.slots = m /\ y.virgin_mask = v /\ y.floor = x.floor
      /\ y.limit = x.limit /\ y.ovf = x.ovf /\ y.marks = x.marks
  <2> HIDE DEF x
  <2> QED
    BY <1>1 DEF PerClass
<1>3. g = [h EXCEPT !.class = [h.class EXCEPT ![c] = y], !.seg = t, !.free = f]
  BY <1>1 DEF Remade, Heaps, PerClass
<1> HIDE DEF y
<1>4. /\ g.class = [h.class EXCEPT ![c] = y]
      /\ g.seg = t /\ g.free = f /\ g.ovf = h.ovf
  BY <1>1, <1>3 DEF Heaps
<1>5. g \in Heaps
  <2>1. g.class \in [Classes -> PerClass]
    BY <1>1, <1>2, <1>4
  <2>2. g = [h EXCEPT !.class = g.class, !.ovf = g.ovf, !.seg = g.seg, !.free = g.free]
    BY <1>1, <1>3, <1>4 DEF Heaps
  <2>3. g.ovf \in Overflow
    BY <1>1, <1>4 DEF Heaps
  <2> QED
    BY ZenonT(60), <1>1, <1>4, <2>1, <2>2, <2>3, HeapMade
<1>6. g.class[c] = y /\ \A d \in Classes : d # c => g.class[d] = h.class[d]
  BY <1>1, <1>4
<1>7. Magazined(h, g, c)
  BY <1>2, <1>4, <1>6 DEF Magazined, x
<1>8. Shape(g)
  <2>1. WithinCaps(g)
    BY <1>2, <1>4, <1>6 DEF Shape, WithinCaps, x
  <2> QED
    BY <1>5, <2>1 DEF Shape
<1>9. /\ \A d \in Classes : \A tag : d # c => Cached(g, d, tag) = Cached(h, d, tag)
      /\ \A tag : Cached(g, c, tag) = Rest(h, c, tag) + Number(g.class[c].slots, tag)
      /\ \A tag : Rest(h, c, tag) \in Nat
      /\ DepotSound(h) => DepotSound(g)
  BY <1>5, <1>7, MagazineChanged
<1> QED
  BY <1>2, <1>4, <1>5, <1>6, <1>7, <1>8, <1>9 DEF Remakes

PushedSeg(h, some) ==
    [h.seg EXCEPT !.state = IF Number(some, "it") > 0 THEN "MAG" ELSE h.seg.state]

LEMMA PushedIs ==
    ASSUME setup \in Setups, NEW h, Shape(h), NEW c \in Classes, NEW some \in Seq(Tags),
           Len(h.class[c].slots) + Len(some) <= FREE_PARK_CAP[c]
    PROVE  LET n == Len(h.class[c].slots)
           IN  Remakes(h, Pushed(h, c, some), c, h.class[c].slots \o some,
                       h.class[c].virgin_mask \ (n + 1 .. n + Len(some)),
                       PushedSeg(h, some), h.free)
<1> DEFINE g == Pushed(h, c, some)
           s == h.class[c].slots
           n == Len(s)
           m == s \o some
           v == h.class[c].virgin_mask \ (n + 1 .. n + Len(some))
           t == PushedSeg(h, some)
<1>1. h \in Heaps /\ h.seg \in Segment /\ h.free \in [Classes -> Nat]
  BY DEF Shape, Heaps
<1>2. s \in Seq(Tags) /\ n \in Nat /\ Len(some) \in Nat
  BY <1>1, ClassIs
<1>3. m \in Seq(Tags) /\ Len(m) = n + Len(some)
  BY <1>2, NumberConcat
<1>4. FREE_PARK_CAP[c] \in 1 .. TCACHE_CAP /\ TCACHE_CAP \in Nat
  BY ConstantsAre
<1>5. m \in Magazine /\ Len(m) <= FREE_PARK_CAP[c]
  <2> HIDE DEF m, n
  <2>1. Len(m) <= TCACHE_CAP /\ Len(m) <= FREE_PARK_CAP[c]
    BY <1>2, <1>3, <1>4 DEF n
  <2> QED
    BY <1>3, <2>1, MagazineIs
<1>6. t \in Segment
  BY <1>1 DEF Segment, PushedSeg
<1>7. v \in SUBSET (1 .. TCACHE_CAP)
  BY <1>1, ClassIs
<1>8. g = Remade(h, c, m, v, t, h.free)
  BY <1>1 DEF Pushed, PushedSeg, Remade, Heaps, PerClass, Segment
<1> HIDE DEF g, m, v, t, s, n
<1>9. Remakes(h, g, c, m, v, t, h.free)
  BY <1>1, <1>5, <1>6, <1>7, <1>8, RemadeIs
<1> QED
  BY <1>9 DEF g, m, v, t, s, n

(* A call had s in hand and put all of it into the magazine or back.       *)
LEMMA PushedSound ==
    ASSUME setup \in Setups, NEW h, Base(h), NEW c \in Classes, NEW some \in Seq(Tags),
           NEW k \in Nat, InHand(h, c, Number(some, "it") + k),
           Len(h.class[c].slots) + Len(some) <= FREE_PARK_CAP[c]
    PROVE  LET g == Pushed(h, c, some)
           IN  /\ Base(g) /\ InHand(g, c, k)
               /\ \A d \in Classes : Out(g, d) = Out(h, d)
                                        + IF d = c THEN Number(some, "other") ELSE 0
               /\ Number(some, "it") = 0 => g.seg.state = h.seg.state
               /\ Number(some, "it") > 0 => g.seg.state = "MAG"
<1> DEFINE g == Pushed(h, c, some)
           s == h.class[c].slots
           n == Len(s)
           m == s \o some
           v == h.class[c].virgin_mask \ (n + 1 .. n + Len(some))
           j == Number(some, "it")
           t == PushedSeg(h, some)
<1>1. h \in Heaps /\ Shape(h) /\ DepotSound(h) /\ VirginIn(h) /\ Fresh(h)
      /\ h.seg \in Segment /\ h.free \in [Classes -> Nat]
  BY DEF Base, Shape, Heaps
<1>2. /\ s \in Seq(Tags) /\ n \in Nat /\ Len(some) \in Nat /\ j \in Nat
      /\ Number(some, "other") \in Nat
      /\ \A tag : Number(s, tag) \in Nat /\ Number(some, tag) \in Nat
  BY <1>1, ClassIs, NumberType
<1>3. /\ m \in Seq(Tags) /\ Len(m) = n + Len(some)
      /\ \A tag : Number(m, tag) = Number(s, tag) + Number(some, tag)
      /\ \A i \in 1 .. n : m[i] = s[i]
  <2>1. \A i \in 1 .. n : m[i] = s[i]
    BY <1>2
  <2> QED
    BY SMTT(30), <1>2, <2>1, NumberConcat
<1>6. t \in Segment /\ t.live = h.seg.live /\ t.zeroed = h.seg.zeroed
      /\ t.state = IF j > 0 THEN "MAG" ELSE h.seg.state
  BY <1>1 DEF Segment, PushedSeg
<1>8. Remakes(h, g, c, m, v, t, h.free)
  BY <1>1, PushedIs
<1> HIDE DEF g, m, v, t, s, n, j
<1>9. /\ g \in Heaps /\ Shape(g) /\ DepotSound(g)
      /\ g.class[c].slots = m /\ g.class[c].virgin_mask = v
      /\ g.seg = t /\ g.free = h.free
      /\ \A d \in Classes : d # c => g.class[d] = h.class[d]
      /\ \A tag : Cached(g, c, tag) = Rest(h, c, tag) + Number(m, tag)
      /\ \A d \in Classes : \A tag : d # c => Cached(g, d, tag) = Cached(h, d, tag)
      /\ \A tag : Rest(h, c, tag) \in Nat
  BY <1>1, <1>8 DEF Remakes
<1>10. \A tag : Cached(g, c, tag) = Cached(h, c, tag) + Number(some, tag)
  <2> TAKE tag
  <2>1. Cached(h, c, tag) = Rest(h, c, tag) + Number(s, tag)
    BY <1>1, RestIs DEF s
  <2> QED
    BY <1>2, <1>3, <1>9, <2>1
<1>11. InHand(g, c, k)
  <2>1. Elsewhere(h, g, c) /\ InHand(h, c, j + k) /\ Cached(g, c, "it") = Cached(h, c, "it") + j
    BY <1>9, <1>10 DEF Elsewhere, j
  <2>2. g.seg.live = h.seg.live /\ g.seg.state = IF j > 0 THEN "MAG" ELSE h.seg.state
    BY <1>6, <1>9
  <2> QED
    BY <1>1, <1>2, <1>9, <2>1, <2>2, HandPuts
<1>12. VirginIn(g) /\ Fresh(g)
  <2>1. Marked(h, g)
    <3> SUFFICES ASSUME NEW d \in Classes, NEW i \in g.class[d].virgin_mask
                 PROVE  h.seg.zeroed /\ i <= Len(g.class[d].slots) /\ g.class[d].slots[i] = "it"
      BY DEF Marked
    <3>1. i \in h.class[d].virgin_mask
      BY <1>9 DEF v
    <3>2. i <= Len(h.class[d].slots) /\ h.class[d].slots[i] = "it" /\ h.seg.zeroed
      BY <1>1, <3>1 DEF VirginIn
    <3>3. i \in 1 .. TCACHE_CAP /\ TCACHE_CAP \in Nat
      BY <1>1, <3>1, ClassIs, MagazinesAssumption
    <3>4. CASE d = c
      <4>1. i \in 1 .. n /\ s[i] = "it"
        BY <1>2, <3>2, <3>3, <3>4 DEF s, n
      <4>2. m[i] = "it" /\ i <= Len(m)
        BY <1>2, <1>3, <4>1
      <4> QED
        BY <1>9, <3>2, <3>4, <4>2
    <3>5. CASE d # c
      BY <1>9, <3>2, <3>5
    <3> QED
      BY <3>4, <3>5
  <2>2. VirginIn(g)
    BY <1>6, <1>9, <2>1, VirginKept
  <2> QED
    BY <1>1, <1>6, <1>9, <2>2 DEF Fresh
<1>13. \A d \in Classes : Out(g, d) = Out(h, d) + IF d = c THEN Number(some, "other") ELSE 0
  <2> TAKE d \in Classes
  <2>1. h.free[d] \in Nat /\ Cached(h, d, "other") \in Nat /\ g.free[d] = h.free[d]
    BY <1>1, <1>9, CachedType
  <2>2. CASE d = c
    BY <1>2, <1>10, <2>1, <2>2 DEF Out
  <2>3. CASE d # c
    BY <1>9, <2>1, <2>3 DEF Out
  <2> QED
    BY <2>2, <2>3
<1> QED
  BY <1>2, <1>6, <1>9, <1>11, <1>12, <1>13 DEF Base, g, j

(* The magazine of c loses the blocks out, which the call has in hand.     *)
Parts(h, c, m, out, v) ==
    /\ m \in Seq(Tags) /\ out \in Seq(Tags) /\ Len(m) <= Len(h.class[c].slots)
    /\ \A tag : Number(h.class[c].slots, tag) = Number(m, tag) + Number(out, tag)
    /\ v \subseteq 1 .. TCACHE_CAP
    /\ \A i \in v : h.seg.zeroed /\ i <= Len(m) /\ m[i] = "it"

LEMMA TakenOut ==
    ASSUME setup \in Setups, NEW h, Base(h), NEW c \in Classes, NEW k \in Nat, InHand(h, c, k),
           NEW m, NEW out, NEW v, Parts(h, c, m, out, v),
           NEW g, g = Remade(h, c, m, v, h.seg, h.free)
    PROVE  /\ Base(g) /\ InHand(g, c, Number(out, "it") + k) /\ g.class[c].slots = m
           /\ g.seg = h.seg
           /\ \A d \in Classes : Out(g, d) + (IF d = c THEN Number(out, "other") ELSE 0) = Out(h, d)
           /\ Number(out, "it") > 0 => h.seg.state = "MAG" /\ k = 0
<1> DEFINE s == h.class[c].slots
<1>1. h \in Heaps /\ Shape(h) /\ DepotSound(h) /\ VirginIn(h) /\ Fresh(h)
      /\ h.seg \in Segment /\ h.free \in [Classes -> Nat]
  BY DEF Base, Shape, Heaps
<1>0. /\ m \in Seq(Tags) /\ out \in Seq(Tags) /\ Len(m) <= Len(s)
      /\ \A tag : Number(s, tag) = Number(m, tag) + Number(out, tag)
      /\ v \in SUBSET (1 .. TCACHE_CAP)
      /\ \A i \in v : h.seg.zeroed /\ i <= Len(m) /\ m[i] = "it"
  BY DEF Parts
<1>2. /\ s \in Seq(Tags) /\ Len(s) \in Nat /\ Len(m) \in Nat /\ Len(s) <= FREE_PARK_CAP[c]
      /\ FREE_PARK_CAP[c] \in 1 .. TCACHE_CAP /\ TCACHE_CAP \in Nat
  <2>1. Len(s) <= FREE_PARK_CAP[c]
    BY <1>1 DEF Shape, WithinCaps
  <2> QED
    BY <1>0, <1>1, <2>1, ClassIs, ConstantsAre, MagazineIs
<1>3. Len(m) <= FREE_PARK_CAP[c] /\ Len(m) <= TCACHE_CAP /\ m \in Magazine
  <2>1. Len(m) <= FREE_PARK_CAP[c] /\ Len(m) <= TCACHE_CAP
    BY <1>0, <1>2
  <2> QED
    BY <1>0, <2>1, MagazineIs
<1> HIDE DEF s
<1>4. /\ g \in Heaps /\ Shape(g) /\ DepotSound(g)
      /\ g.class[c].slots = m /\ g.class[c].virgin_mask = v
      /\ g.seg = h.seg /\ g.free = h.free
      /\ \A d \in Classes : d # c => g.class[d] = h.class[d]
      /\ \A tag : Cached(g, c, tag) = Rest(h, c, tag) + Number(m, tag)
      /\ \A d \in Classes : \A tag : d # c => Cached(g, d, tag) = Cached(h, d, tag)
      /\ \A tag : Rest(h, c, tag) \in Nat
  <2>1. Remakes(h, g, c, m, v, h.seg, h.free)
    BY <1>0, <1>1, <1>3, RemadeIs
  <2> QED
    BY <1>1, <2>1 DEF Remakes
<1>5. \A tag : Cached(g, c, tag) + Number(out, tag) = Cached(h, c, tag) /\ Number(out, tag) \in Nat
  <2> TAKE tag
  <2>1. Cached(h, c, tag) = Rest(h, c, tag) + Number(s, tag)
    BY <1>1, RestIs DEF s
  <2>2. Number(m, tag) \in Nat /\ Number(out, tag) \in Nat
    BY <1>0, NumberType
  <2>3. Number(s, tag) = Number(m, tag) + Number(out, tag)
    BY <1>0
  <2> QED
    BY <1>4, <2>1, <2>2, <2>3
<1>6. InHand(g, c, Number(out, "it") + k) /\ (Number(out, "it") > 0 => h.seg.state = "MAG" /\ k = 0)
  <2>1. Elsewhere(h, g, c)
    BY <1>4 DEF Elsewhere
  <2> QED
    BY <1>1, <1>4, <1>5, <2>1, HandTakes
<1>7. VirginIn(g)
  <2>1. Marked(h, g)
    <3> SUFFICES ASSUME NEW d \in Classes, NEW i \in g.class[d].virgin_mask
                 PROVE  h.seg.zeroed /\ i <= Len(g.class[d].slots) /\ g.class[d].slots[i] = "it"
      BY DEF Marked
    <3>1. CASE d = c
      BY <1>0, <1>4, <3>1
    <3>2. CASE d # c
      BY <1>1, <1>4, <3>2 DEF VirginIn
    <3> QED
      BY <3>1, <3>2
  <2> QED
    BY <1>4, <2>1, VirginKept
<1>8. \A d \in Classes : Out(g, d) + (IF d = c THEN Number(out, "other") ELSE 0) = Out(h, d)
  <2> TAKE d \in Classes
  <2>1. /\ h.free[d] \in Nat /\ Cached(h, d, "other") \in Nat /\ g.free[d] = h.free[d]
        /\ Cached(g, d, "other") \in Nat
    BY <1>1, <1>4, CachedType
  <2>2. CASE d = c
    BY <1>5, <2>1, <2>2 DEF Out
  <2>3. CASE d # c
    BY <1>4, <2>1, <2>3 DEF Out
  <2> QED
    BY <2>2, <2>3
<1> QED
  BY <1>1, <1>4, <1>6, <1>7, <1>8 DEF Base, Fresh

(* ... and which it flushes, while it has the block that was freed in hand. *)
Made(h, g, c, k) ==
    /\ Base(g) /\ InHand(g, c, k)
    /\ \A d \in Classes : Out(g, d) = Out(h, d)
    /\ g.seg.state = "LIVE" <=> h.seg.state = "LIVE"

LEMMA FlushedOut ==
    ASSUME setup \in Setups, NEW h, Base(h), NEW c \in Classes, NEW k \in Nat, InHand(h, c, k),
           NEW m, NEW out, NEW v, Parts(h, c, m, out, v),
           NEW g, g = Flush(Remade(h, c, m, v, h.seg, h.free), c, out)
    PROVE  Made(h, g, c, k) /\ g.class[c].slots = m
<1> DEFINE x == Remade(h, c, m, v, h.seg, h.free)
<1>1. /\ Base(x) /\ InHand(x, c, Number(out, "it") + k) /\ x.class[c].slots = m
      /\ x.seg = h.seg
      /\ \A d \in Classes : Out(x, d) + (IF d = c THEN Number(out, "other") ELSE 0) = Out(h, d)
      /\ Number(out, "it") > 0 => h.seg.state = "MAG" /\ k = 0
  BY TakenOut
<1>2. g = Flush(x, c, out)
  OBVIOUS
<1> HIDE DEF x
<1>3. /\ Base(g) /\ InHand(g, c, k) /\ g.class = x.class /\ g.ovf = x.ovf
      /\ \A d \in Classes : Out(g, d) = Out(x, d)
                               + IF d = c THEN Number(out, "other") ELSE 0
      /\ Number(out, "it") = 0 => g.seg.state = x.seg.state
      /\ Number(out, "it") > 0 => g.seg.state = "FREE" /\ x.seg.state \in {"MAG", "LIVE"}
  BY <1>1, <1>2, FlushSound DEF Parts
<1>4. Number(out, "it") \in Nat
  BY NumberType DEF Parts
<1>5. \A d \in Classes : Out(g, d) = Out(h, d)
  BY <1>1, <1>3
<1>6. g.seg.state = "LIVE" <=> h.seg.state = "LIVE"
  BY <1>1, <1>3, <1>4
<1> QED
  BY <1>1, <1>3, <1>5, <1>6 DEF Made

LEMMA HalfFlushedSound ==
    ASSUME setup \in Setups, NEW h, Base(h), NEW c \in Classes, NEW k \in Nat, InHand(h, c, k),
           FREE_PARK_CAP[c] = TCACHE_CAP, Len(h.class[c].slots) = TCACHE_CAP
    PROVE  /\ Made(h, HalfFlushed(h, c), c, k)
           /\ Len(HalfFlushed(h, c).class[c].slots) < TCACHE_CAP
<1> DEFINE s == h.class[c].slots
           n == FLUSH_N
           m == SubSeq(s, n + 1, TCACHE_CAP)
           out == SubSeq(s, 1, n)
           v == MarksMoved(h.class[c].virgin_mask)
           g == HalfFlushed(h, c)
<1>1. h \in Heaps /\ Shape(h) /\ VirginIn(h) /\ s \in Seq(Tags)
  BY ClassIs DEF Base, Shape
<1>2. TCACHE_CAP \in Nat /\ TCACHE_CAP > 1 /\ n \in Nat /\ n < TCACHE_CAP /\ n > 0
  BY ConstantsAre DEF FLUSH_N
<1> HIDE DEF n
<1>3. /\ out \in Seq(Tags) /\ m \in Seq(Tags) /\ Len(m) = TCACHE_CAP - n
      /\ \A i \in 1 .. TCACHE_CAP - n : m[i] = s[n + i]
      /\ \A tag : Number(s, tag) = Number(m, tag) + Number(out, tag)
  <2>1. n \in 0 .. Len(s)
    BY <1>2
  <2>2. /\ SubSeq(s, 1, n) \in Seq(Tags)
        /\ SubSeq(s, n + 1, Len(s)) \in Seq(Tags) /\ Len(SubSeq(s, n + 1, Len(s))) = Len(s) - n
        /\ \A i \in 1 .. Len(s) - n : SubSeq(s, n + 1, Len(s))[i] = s[n + i]
        /\ \A tag : Number(s, tag) = Number(SubSeq(s, 1, n), tag)
                                       + Number(SubSeq(s, n + 1, Len(s)), tag)
    BY <1>1, <2>1, NumberSplit
  <2>3. \A tag : Number(SubSeq(s, 1, n), tag) \in Nat /\ Number(SubSeq(s, n + 1, Len(s)), tag) \in Nat
    BY <2>2, NumberType
  <2> QED
    BY <2>2, <2>3
<1>4. v \in SUBSET (1 .. TCACHE_CAP)
  BY DEF MarksMoved
<1>5. \A i \in v : h.seg.zeroed /\ i <= Len(m) /\ m[i] = "it"
  <2> TAKE i \in v
  <2>1. PICK x \in h.class[c].virgin_mask : i = x - n
    BY DEF MarksMoved, n
  <2>2. i \in 1 .. TCACHE_CAP
    BY <1>4
  <2>3. h.seg.zeroed /\ x <= Len(s) /\ s[x] = "it"
    BY <1>1 DEF VirginIn
  <2>4. x \in 1 .. TCACHE_CAP
    BY <1>1, ClassIs
  <2>5. i \in 1 .. TCACHE_CAP - n /\ n + i = x
    BY <1>2, <2>1, <2>2, <2>3, <2>4
  <2> HIDE DEF m, v, s
  <2> QED
    BY <1>2, <1>3, <2>3, <2>5
<1>6. g = Flush(Remade(h, c, m, v, h.seg, h.free), c, out)
  <2>1. Remade(h, c, m, v, h.seg, h.free)
          = [h EXCEPT !.class[c].slots = m, !.class[c].virgin_mask = v]
    BY <1>1 DEF Remade, Heaps
  <2> QED
    BY <2>1 DEF HalfFlushed, n
<1>7. Len(m) <= Len(s) /\ Len(m) < TCACHE_CAP
  BY <1>2, <1>3
<1> HIDE DEF g, m, v, out
<1>8. Parts(h, c, m, out, v)
  BY <1>3, <1>4, <1>5, <1>7 DEF Parts
<1>9. Made(h, g, c, k) /\ g.class[c].slots = m
  BY <1>6, <1>8, FlushedOut
<1> QED
  BY <1>7, <1>9 DEF g

(* What the user gave back in a call.                                      *)
Took(h, g, c, s) ==
    /\ Sound(g)
    /\ \A d \in Classes : Out(g, d) = Out(h, d) + IF d = c THEN Number(s, "other") ELSE 0
    /\ LiveNow(g) + Number(s, "it") = LiveNow(h)

LEMMA HandGives ==
    ASSUME setup \in Setups, NEW h, Sound(h), NEW c \in Classes, NEW k \in Nat,
           k <= IF c = setup.it THEN LiveNow(h) ELSE 0
    PROVE  InHand(h, c, k) /\ Base(h)
<1>1. InHand(h, c, 0) /\ Base(h) /\ Shape(h)
  BY HandEmpty DEF Sound, Base
<1>2. CASE k = 0
  BY <1>1, <1>2
<1>3. CASE k # 0
  <2>1. c = setup.it /\ h.seg.state = "LIVE" /\ k = 1
    BY <1>3 DEF LiveNow
  <2>2. \A d \in Classes : Cached(h, d, "it") = 0
    BY <1>1, <2>1, NoneCached
  <2>3. \A d \in Classes : Cached(h, d, "it") + (IF d = c THEN k ELSE 0)
                             = IF d = setup.it THEN Held(h, c, k) ELSE 0
    BY <2>1, <2>2 DEF Held
  <2> QED
    BY <1>1, <2>3 DEF InHand
<1> QED
  BY <1>2, <1>3

LEMMA PushOne ==
    ASSUME setup \in Setups, NEW h, NEW c \in Classes, NEW tag \in Tags,
           tag = "it" => h.seg.state = "LIVE",
           NEW x, Made(h, x, c, Number(<<tag>>, "it")),
           Len(x.class[c].slots) < FREE_PARK_CAP[c]
    PROVE  Took(h, Pushed(x, c, <<tag>>), c, <<tag>>)
<1> DEFINE g == Pushed(x, c, <<tag>>)
           k == Number(<<tag>>, "it")
<1>1. /\ <<tag>> \in Seq(Tags) /\ Len(<<tag>>) = 1
      /\ k = IF tag = "it" THEN 1 ELSE 0
  BY NumberOne
<1>2. Base(x) /\ InHand(x, c, k + 0) /\ (x.seg.state = "LIVE" <=> h.seg.state = "LIVE")
      /\ \A d \in Classes : Out(x, d) = Out(h, d)
  BY <1>1 DEF Made
<1>3. Len(x.class[c].slots) + Len(<<tag>>) <= FREE_PARK_CAP[c]
  <2>1. Len(x.class[c].slots) \in Nat /\ FREE_PARK_CAP[c] \in Nat
    BY <1>2, ClassIs, ConstantsAre, MagazineIs DEF Base, Shape
  <2> QED
    BY <1>1, <2>1
<1>4. /\ Base(g) /\ InHand(g, c, 0)
      /\ \A d \in Classes : Out(g, d) = Out(x, d) + IF d = c THEN Number(<<tag>>, "other") ELSE 0
      /\ k = 0 => g.seg.state = x.seg.state
      /\ k > 0 => g.seg.state = "MAG"
  BY <1>1, <1>2, <1>3, PushedSound
<1>5. Sound(g)
  BY <1>4, HandEmpty DEF Sound
<1>6. LiveNow(g) + k = LiveNow(h)
  BY <1>1, <1>2, <1>4 DEF LiveNow
<1>7. \A d \in Classes : Out(g, d) = Out(h, d) + IF d = c THEN Number(<<tag>>, "other") ELSE 0
  BY <1>2, <1>4
<1> QED
  BY <1>5, <1>6, <1>7 DEF Took

LEMMA SegEqual ==
    ASSUME NEW s \in Segment, NEW t \in Segment,
           s.live = t.live, s.state = t.state, s.zeroed = t.zeroed
    PROVE  s = t
BY DEF Segment

LEMMA HeapEqual ==
    ASSUME NEW h \in Heaps, NEW g \in Heaps, h.ovf = g.ovf, h.seg = g.seg, h.free = g.free,
           \A c \in Classes :
             /\ h.class[c].slots = g.class[c].slots
             /\ h.class[c].virgin_mask = g.class[c].virgin_mask
             /\ h.class[c].floor = g.class[c].floor /\ h.class[c].ovf = g.class[c].ovf
             /\ h.class[c].limit = g.class[c].limit /\ h.class[c].marks = g.class[c].marks
    PROVE  h = g
<1>1. \A c \in Classes : h.class[c] \in PerClass /\ g.class[c] \in PerClass
  BY DEF Heaps
<1>2. \A c \in Classes : h.class[c] = g.class[c]
  BY <1>1 DEF PerClass
<1>3. h.class = g.class
  BY <1>2 DEF Heaps
<1> QED
  BY <1>3 DEF Heaps

(* The mark of the evicted block is cleared by the push that follows.      *)
LEMMA EvictedIs ==
    ASSUME setup \in Setups, NEW h, Shape(h), NEW c \in Classes, h.class[c].slots # <<>>,
           NEW one \in Seq(Tags), Len(one) = 1, NEW x,
           x = Flush(Remade(h, c, Front(h.class[c].slots),
                            h.class[c].virgin_mask \ {Len(h.class[c].slots)}, h.seg, h.free),
                     c, <<Top(h.class[c].slots)>>)
    PROVE  Pushed(Evicted(h, c), c, one) = Pushed(x, c, one)
<1> DEFINE s == h.class[c].slots
           v == h.class[c].virgin_mask
           n == Len(s)
           m == Front(s)
           top == <<Top(s)>>
           r == Remade(h, c, m, v, h.seg, h.free)
           q == Remade(h, c, m, v \ {n}, h.seg, h.free)
           e == Evicted(h, c)
<1>1. h \in Heaps /\ h.class[c] \in PerClass /\ h.seg \in Segment
      /\ h.free \in [Classes -> Nat]
  BY DEF Heaps, Shape
<1>2. /\ n \in Nat \ {0} /\ Len(m) = n - 1 /\ m \in Seq(Tags) /\ top \in Seq(Tags)
      /\ n <= FREE_PARK_CAP[c] /\ FREE_PARK_CAP[c] \in 1 .. TCACHE_CAP /\ TCACHE_CAP \in Nat
      /\ v \subseteq 1 .. TCACHE_CAP
  <2>1. n <= FREE_PARK_CAP[c]
    BY DEF Shape, WithinCaps
  <2> QED
    BY <1>1, <2>1, ClassIs, NumberTop, NumberOne, ConstantsAre
<1>3. m \in Magazine /\ Len(m) <= FREE_PARK_CAP[c]
  <2> HIDE DEF m, n
  <2>1. Len(m) <= TCACHE_CAP /\ Len(m) <= FREE_PARK_CAP[c]
    BY <1>2
  <2> QED
    BY <1>2, <2>1, MagazineIs
<1>4. e = Flush(r, c, top)
  <2>1. [h EXCEPT !.class[c].slots = m] = r
    <3>1. [h.class[c] EXCEPT !.slots = m] = [h.class[c] EXCEPT !.slots = m, !.virgin_mask = v]
      BY <1>1 DEF PerClass
    <3> QED
      BY <1>1, <3>1 DEF Remade, Heaps
  <2> QED
    BY <2>1 DEF Evicted
<1>5. x = Flush(q, c, top)
  OBVIOUS
<1> HIDE DEF e, r, q, m, v, s, n, top
<1>6. Remakes(h, r, c, m, v, h.seg, h.free) /\ Remakes(h, q, c, m, v \ {n}, h.seg, h.free)
  <2>1. v \in SUBSET (1 .. TCACHE_CAP) /\ v \ {n} \in SUBSET (1 .. TCACHE_CAP)
    BY <1>2
  <2> QED
    BY <1>1, <1>3, <2>1, RemadeIs DEF r, q
<1>7. /\ Shape(r) /\ r.seg = h.seg /\ r.free = h.free /\ r.ovf = h.ovf
      /\ Shape(q) /\ q.seg = h.seg /\ q.free = h.free /\ q.ovf = h.ovf
      /\ \A d \in Classes : d # c => r.class[d] = q.class[d]
      /\ r.class[c].slots = m /\ q.class[c].slots = m
      /\ r.class[c].virgin_mask = v /\ q.class[c].virgin_mask = v \ {n}
      /\ r.class[c].floor = q.class[c].floor /\ r.class[c].limit = q.class[c].limit
      /\ r.class[c].ovf = q.class[c].ovf /\ r.class[c].marks = q.class[c].marks
  BY <1>6 DEF Remakes, Magazined
<1>8. /\ Shape(e) /\ Shape(x) /\ e.class = r.class /\ x.class = q.class
      /\ e.ovf = h.ovf /\ x.ovf = h.ovf /\ e.free = x.free
      /\ e.seg.live = x.seg.live /\ e.seg.state = x.seg.state /\ e.seg.zeroed = x.seg.zeroed
  <2> DEFINE f == [h.free EXCEPT ![c] = @ + Number(top, "other")]
             k == Number(top, "it")
  <2>1. /\ Shape(e) /\ e.class = r.class /\ e.ovf = h.ovf /\ e.free = f
        /\ e.seg.live = h.seg.live - k
        /\ e.seg.state = IF k > 0 THEN "FREE" ELSE h.seg.state
        /\ e.seg.zeroed = (h.seg.zeroed /\ k = 0)
    BY <1>2, <1>4, <1>7, FlushIs
  <2>2. /\ Shape(x) /\ x.class = q.class /\ x.ovf = h.ovf /\ x.free = f
        /\ x.seg.live = h.seg.live - k
        /\ x.seg.state = IF k > 0 THEN "FREE" ELSE h.seg.state
        /\ x.seg.zeroed = (h.seg.zeroed /\ k = 0)
    BY <1>2, <1>5, <1>7, FlushIs
  <2> HIDE DEF f, k
  <2>3. e.seg.zeroed = x.seg.zeroed
    BY <2>1, <2>2, Zenon
  <2> QED
    BY <2>1, <2>2, <2>3
<1>9. e.seg = x.seg
  BY <1>8, SegEqual DEF Shape, Heaps
<1>10. Len(m) + Len(one) <= FREE_PARK_CAP[c] /\ Len(m) + 1 .. Len(m) + Len(one) = {n}
  BY <1>2
<1> DEFINE a == Pushed(e, c, one)
           b == Pushed(x, c, one)
<1>11. /\ Remakes(e, a, c, m \o one, v \ {n}, PushedSeg(e, one), e.free)
       /\ Remakes(x, b, c, m \o one, (v \ {n}) \ {n}, PushedSeg(x, one), x.free)
  BY ZenonT(60), <1>7, <1>8, <1>10, PushedIs
<1> HIDE DEF a, b
<1>12. PushedSeg(e, one) = PushedSeg(x, one)
  BY <1>9 DEF PushedSeg
<1>13. /\ a \in Heaps /\ b \in Heaps /\ a.ovf = b.ovf /\ a.seg = b.seg /\ a.free = b.free
       /\ a.class[c].slots = b.class[c].slots
       /\ a.class[c].virgin_mask = b.class[c].virgin_mask
       /\ \A d \in Classes : d # c => a.class[d] = b.class[d]
       /\ a.class[c].floor = b.class[c].floor /\ a.class[c].limit = b.class[c].limit
       /\ a.class[c].ovf = b.class[c].ovf /\ a.class[c].marks = b.class[c].marks
  <2>1. /\ a \in Heaps /\ a.ovf = h.ovf /\ a.seg = PushedSeg(e, one) /\ a.free = e.free
        /\ a.class[c].slots = m \o one /\ a.class[c].virgin_mask = v \ {n}
        /\ \A d \in Classes : d # c => a.class[d] = r.class[d]
        /\ a.class[c].floor = r.class[c].floor /\ a.class[c].limit = r.class[c].limit
        /\ a.class[c].ovf = r.class[c].ovf /\ a.class[c].marks = r.class[c].marks
    BY <1>8, <1>11 DEF Remakes, Magazined
  <2>2. /\ b \in Heaps /\ b.ovf = h.ovf /\ b.seg = PushedSeg(x, one) /\ b.free = x.free
        /\ b.class[c].slots = m \o one /\ b.class[c].virgin_mask = v \ {n}
        /\ \A d \in Classes : d # c => b.class[d] = q.class[d]
        /\ b.class[c].floor = q.class[c].floor /\ b.class[c].limit = q.class[c].limit
        /\ b.class[c].ovf = q.class[c].ovf /\ b.class[c].marks = q.class[c].marks
    <3>1. (v \ {n}) \ {n} = v \ {n}
      OBVIOUS
    <3> QED
      BY <1>8, <1>11, <3>1 DEF Remakes, Magazined
  <2>3. /\ r.class[c].floor = q.class[c].floor /\ r.class[c].limit = q.class[c].limit
        /\ r.class[c].ovf = q.class[c].ovf /\ r.class[c].marks = q.class[c].marks
        /\ \A d \in Classes : d # c => r.class[d] = q.class[d]
    BY <1>7, Zenon
  <2>4. PushedSeg(e, one) = PushedSeg(x, one) /\ e.free = x.free
    BY <1>8, <1>12, Zenon
  <2>5. a.ovf = b.ovf /\ a.seg = b.seg /\ a.free = b.free
    BY <2>1, <2>2, <2>4, Zenon
  <2>6. \A d \in Classes : d # c => a.class[d] = b.class[d]
    BY <2>1, <2>2, <2>3
  <2> QED
    BY <2>1, <2>2, <2>3, <2>5, <2>6
<1>14. a = b
  BY <1>13, HeapEqual
<1> QED
  BY <1>14 DEF a, b, e

LEMMA EvictedSound ==
    ASSUME setup \in Setups, NEW h, NEW x, NEW c \in Classes, NEW tag \in Tags,
           tag = "it" => h.seg.state = "LIVE", Made(h, x, c, Number(<<tag>>, "it")),
           x.class[c].slots # <<>>
    PROVE  Took(h, Pushed(Evicted(x, c), c, <<tag>>), c, <<tag>>)
<1> DEFINE s == x.class[c].slots
           n == Len(s)
           m == Front(s)
           v == x.class[c].virgin_mask \ {n}
           out == <<Top(s)>>
           k == Number(<<tag>>, "it")
           g == Flush(Remade(x, c, m, v, x.seg, x.free), c, out)
<1>1. Base(x) /\ InHand(x, c, k) /\ Shape(x) /\ x \in Heaps /\ VirginIn(x)
      /\ (x.seg.state = "LIVE" <=> h.seg.state = "LIVE")
      /\ \A d \in Classes : Out(x, d) = Out(h, d)
  BY DEF Made, Base, Shape
<1>2. k \in Nat /\ <<tag>> \in Seq(Tags) /\ Len(<<tag>>) = 1
  BY NumberOne, NumberType
<1>3. /\ s \in Seq(Tags) /\ n \in Nat \ {0} /\ Top(s) \in Tags /\ Top(s) = s[n]
      /\ m \in Seq(Tags) /\ Len(m) = n - 1
      /\ \A i \in 1 .. n - 1 : m[i] = s[i]
      /\ \A t : Number(s, t) = Number(m, t) + IF Top(s) = t THEN 1 ELSE 0
      /\ n <= FREE_PARK_CAP[c] /\ FREE_PARK_CAP[c] \in Nat
  <2>1. n <= FREE_PARK_CAP[c]
    BY <1>1 DEF Shape, WithinCaps
  <2>2. s \in Seq(Tags) /\ s # <<>> /\ FREE_PARK_CAP[c] \in Nat
    BY <1>1, ClassIs, ConstantsAre
  <2> HIDE DEF s
  <2>3. /\ Len(s) \in Nat \ {0} /\ Top(s) \in Tags /\ Top(s) = s[Len(s)]
        /\ Front(s) \in Seq(Tags) /\ Len(Front(s)) = Len(s) - 1
        /\ \A i \in 1 .. Len(s) - 1 : Front(s)[i] = s[i]
        /\ \A t : Number(s, t) = Number(Front(s), t) + IF Top(s) = t THEN 1 ELSE 0
    BY <2>2, NumberTop
  <2> QED
    BY <2>1, <2>2, <2>3
<1>4. out \in Seq(Tags) /\ \A t : Number(out, t) = IF Top(s) = t THEN 1 ELSE 0
  BY <1>3, NumberOne
<1>5. v \subseteq 1 .. TCACHE_CAP
  BY <1>1, ClassIs
<1>6. \A i \in v : x.seg.zeroed /\ i <= Len(m) /\ m[i] = "it"
  <2> TAKE i \in v
  <2>1. x.seg.zeroed /\ i <= n /\ s[i] = "it" /\ i # n
    BY <1>1 DEF VirginIn
  <2>2. i \in 1 .. TCACHE_CAP /\ TCACHE_CAP \in Nat
    BY <1>5, MagazinesAssumption
  <2> HIDE DEF m, n, s
  <2>3. i \in 1 .. n - 1
    BY <1>3, <2>1, <2>2
  <2> QED
    BY <1>3, <2>1, <2>3
<1>7. Parts(x, c, m, out, v)
  <2>1. Len(m) <= Len(s) /\ \A t : Number(s, t) = Number(m, t) + Number(out, t)
    BY SMTT(30), <1>3, <1>4
  <2> HIDE DEF m, v, out
  <2> QED
    BY <1>3, <1>4, <1>5, <1>6, <2>1 DEF Parts
<1> HIDE DEF g
<1>8. Made(x, g, c, k) /\ g.class[c].slots = m
  <2>1. g = Flush(Remade(x, c, m, v, x.seg, x.free), c, out)
    BY DEF g
  <2> HIDE DEF m, v, out, k
  <2> QED
    BY <1>1, <1>2, <1>7, <2>1, FlushedOut
<1>9. Made(h, g, c, k)
  BY <1>1, <1>8 DEF Made
<1>10. Len(g.class[c].slots) < FREE_PARK_CAP[c]
  BY <1>3, <1>8
<1>11. Took(h, Pushed(g, c, <<tag>>), c, <<tag>>)
  BY <1>9, <1>10, PushOne
<1>12. Pushed(Evicted(x, c), c, <<tag>>) = Pushed(g, c, <<tag>>)
  <2>1. g = Flush(Remade(x, c, Front(x.class[c].slots),
                         x.class[c].virgin_mask \ {Len(x.class[c].slots)}, x.seg, x.free),
                  c, <<Top(x.class[c].slots)>>)
    BY DEF g
  <2> QED
    BY <1>1, <1>2, <2>1, EvictedIs
<1> QED
  BY <1>11, <1>12

-----------------------------------------------------------------------------
(* A refill, and the batches                                               *)

LEMMA FoundIs ==
    ASSUME setup \in Setups, NEW h \in Heaps, NEW c \in Classes, NEW want \in Nat,
           NEW some \in Found(h, c, want)
    PROVE  /\ some \in Seq(Tags) /\ Len(some) <= want
           /\ Number(some, "it") \in Nat /\ Number(some, "other") \in Nat
           /\ Number(some, "it") <= InSegment(h, c)
           /\ Number(some, "other") <= h.free[c]
<1> DEFINE it == IF c = setup.it /\ h.seg.state \in {"NONE", "FREE"} THEN 1 ELSE 0
           n == Smaller(want, it + h.free[c])
<1>1. h.free[c] \in Nat
  BY ClassIs
<1>2. n \in Nat /\ n <= want
  BY <1>1 DEF Smaller
<1>3. some \in [1 .. n -> Tags] /\ Number(some, "it") <= it /\ Number(some, "other") <= h.free[c]
  BY DEF Found
<1>4. some \in Seq(Tags) /\ Len(some) <= want
  <2> HIDE DEF n
  <2> QED
    BY <1>2, <1>3
<1> QED
  BY <1>3, <1>4, NumberType DEF InSegment

TakenSeg(h, some, state) ==
    [h.seg EXCEPT !.live = h.seg.live + Number(some, "it"),
                  !.state = IF Number(some, "it") > 0 THEN state ELSE h.seg.state]
TakenFree(h, c, some) == [h.free EXCEPT ![c] = h.free[c] - Number(some, "other")]

LEMMA TakenIs ==
    ASSUME setup \in Setups, NEW h \in Heaps, NEW c \in Classes, NEW want \in Nat,
           NEW some \in Found(h, c, want), NEW state \in {"MAG", "LIVE"}
    PROVE  LET t == TakenSeg(h, some, state)
           IN  /\ t \in Segment /\ t.live = h.seg.live + Number(some, "it")
               /\ t.state = IF Number(some, "it") > 0 THEN state ELSE h.seg.state
               /\ t.zeroed = h.seg.zeroed
               /\ TakenFree(h, c, some) \in [Classes -> Nat]
               /\ \A d \in Classes : TakenFree(h, c, some)[d] + (IF d = c THEN Number(some, "other") ELSE 0)
                                       = h.free[d]
<1> DEFINE t == TakenSeg(h, some, state)
           f == TakenFree(h, c, some)
<1>1. h.seg \in Segment /\ h.free \in [Classes -> Nat]
  BY DEF Heaps
<1>2. /\ Number(some, "it") \in Nat /\ Number(some, "other") \in Nat
      /\ Number(some, "other") <= h.free[c]
  BY FoundIs
<1>3. /\ t \in Segment /\ t.live = h.seg.live + Number(some, "it")
      /\ t.state = IF Number(some, "it") > 0 THEN state ELSE h.seg.state
      /\ t.zeroed = h.seg.zeroed
  <2> DEFINE x == IF Number(some, "it") > 0 THEN state ELSE h.seg.state
             y == h.seg.live + Number(some, "it")
  <2>1. x \in {"NONE", "FREE", "MAG", "LIVE"} /\ y \in Int
    BY <1>1, <1>2 DEF Segment
  <2>2. t = [h.seg EXCEPT !.live = y, !.state = x]
    BY DEF TakenSeg
  <2> HIDE DEF t, x, y
  <2>3. t \in Segment /\ t.live = y /\ t.state = x /\ t.zeroed = h.seg.zeroed
    BY <1>1, <2>1, <2>2 DEF Segment
  <2> QED
    BY <2>3 DEF x, y
<1>4. \A d \in Classes : f[d] = IF d = c THEN h.free[c] - Number(some, "other") ELSE h.free[d]
  BY <1>1 DEF TakenFree
<1>5. h.free[c] - Number(some, "other") \in Nat
  BY <1>1, <1>2
<1>6. f \in [Classes -> Nat]
  BY <1>1, <1>5 DEF TakenFree
<1>7. \A d \in Classes : f[d] + (IF d = c THEN Number(some, "other") ELSE 0) = h.free[d]
  BY <1>1, <1>2, <1>4, <1>5
<1> QED
  BY <1>3, <1>6, <1>7

LEMMA FilledSound ==
    ASSUME setup \in Setups, NEW h, Sound(h), NEW c \in Classes, h.class[c].slots = <<>>,
           NEW some \in Found(h, c, FREE_PARK_CAP[c]), NEW zeroed \in BOOLEAN
    PROVE  Keeps(h, Filled(h, c, some, zeroed))
           /\ Filled(h, c, some, zeroed).class[c].slots = some
<1> DEFINE g == Filled(h, c, some, zeroed)
           t == TakenSeg(h, some, "MAG")
           f == TakenFree(h, c, some)
           v == IF zeroed THEN VirginOf(h, some) ELSE h.class[c].virgin_mask
           j == Number(some, "it")
<1>1. h \in Heaps /\ Shape(h) /\ DepotSound(h) /\ VirginIn(h) /\ Fresh(h) /\ InHand(h, c, 0)
      /\ h.seg \in Segment /\ h.free \in [Classes -> Nat]
  BY HandEmpty DEF Sound, Base, Shape, Heaps
<1>2. FREE_PARK_CAP[c] \in 1 .. TCACHE_CAP /\ TCACHE_CAP \in Nat
  BY ConstantsAre
<1>3. /\ some \in Seq(Tags) /\ Len(some) <= FREE_PARK_CAP[c] /\ Len(some) \in Nat
      /\ j \in Nat /\ Number(some, "other") \in Nat /\ j <= InSegment(h, c)
  BY <1>1, <1>2, FoundIs, MagazineIs
<1>4. some \in Magazine
  <2>1. Len(some) <= TCACHE_CAP
    BY <1>2, <1>3
  <2> QED
    BY <1>3, <2>1, MagazineIs
<1>5. /\ t \in Segment /\ t.live = h.seg.live + j
      /\ t.state = IF j > 0 THEN "MAG" ELSE h.seg.state
      /\ t.zeroed = h.seg.zeroed /\ f \in [Classes -> Nat]
      /\ \A d \in Classes : f[d] + (IF d = c THEN Number(some, "other") ELSE 0) = h.free[d]
  <2>1. FREE_PARK_CAP[c] \in Nat
    BY <1>2
  <2> QED
    BY <1>1, <2>1, TakenIs
<1>6. h.class[c].virgin_mask = {}
  <2> SUFFICES ASSUME NEW i \in h.class[c].virgin_mask PROVE FALSE
    OBVIOUS
  <2>1. i <= 0 /\ i \in 1 .. TCACHE_CAP
    BY <1>1, ClassIs DEF VirginIn
  <2> QED
    BY <1>2, <2>1
<1>7. /\ v \in SUBSET (1 .. TCACHE_CAP)
      /\ \A i \in v : h.seg.zeroed /\ i <= Len(some) /\ some[i] = "it"
  <2>1. CASE zeroed
    <3>1. v = VirginOf(h, some)
      BY <2>1
    <3>2. \A i \in VirginOf(h, some) : i \in 1 .. Len(some) /\ some[i] = "it" /\ h.seg.state = "NONE"
      BY <1>3 DEF VirginOf
    <3>3. VirginOf(h, some) # {} => h.seg.zeroed
      BY <1>1, <3>2 DEF Fresh
    <3> HIDE DEF v
    <3> QED
      BY <1>2, <1>3, <3>1, <3>2, <3>3
  <2>2. CASE ~ zeroed
    BY <1>6, <2>2
  <2> QED
    BY <2>1, <2>2
<1>8. g = Remade(h, c, some, v, t, f)
  <2>1. CASE zeroed
    BY <1>1, <2>1 DEF Filled, Taken, TakenSeg, TakenFree, Remade, Heaps, Segment, PerClass
  <2>2. CASE ~ zeroed
    BY <1>1, <2>2 DEF Filled, Taken, TakenSeg, TakenFree, Remade, Heaps, Segment, PerClass
  <2> QED
    BY <2>1, <2>2
<1> HIDE DEF g, t, f, v, j
<1>9. Remakes(h, g, c, some, v, t, f)
  BY <1>1, <1>3, <1>4, <1>5, <1>7, <1>8, RemadeIs
<1>10. /\ g \in Heaps /\ Shape(g) /\ DepotSound(g)
       /\ g.class[c].slots = some /\ g.class[c].virgin_mask = v
       /\ g.seg = t /\ g.free = f
       /\ \A d \in Classes : d # c => g.class[d] = h.class[d]
       /\ \A tag : Cached(g, c, tag) = Rest(h, c, tag) + Number(some, tag)
       /\ \A d \in Classes : \A tag : d # c => Cached(g, d, tag) = Cached(h, d, tag)
       /\ \A tag : Rest(h, c, tag) \in Nat
  BY <1>1, <1>9 DEF Remakes
<1>11. \A tag : Cached(h, c, tag) = Rest(h, c, tag)
  <2> TAKE tag
  <2>1. Cached(h, c, tag) = Rest(h, c, tag) + Number(<<>>, tag) /\ Rest(h, c, tag) \in Nat
    BY <1>1, RestIs
  <2>2. Number(<<>>, tag) = 0
    BY NumberEmpty
  <2> QED
    BY <2>1, <2>2
<1>12. InHand(g, c, 0)
  <2>1. Elsewhere(h, g, c) /\ Cached(g, c, "it") = Cached(h, c, "it") + j
    BY <1>10, <1>11 DEF Elsewhere, j
  <2>2. g.seg.live = h.seg.live + j /\ g.seg.state = IF j > 0 THEN "MAG" ELSE h.seg.state
    BY <1>5, <1>10
  <2> QED
    BY <1>1, <1>3, <1>10, <2>1, <2>2, HandFills
<1>13. VirginIn(g)
  <2>1. Marked(h, g)
    <3> SUFFICES ASSUME NEW d \in Classes, NEW i \in g.class[d].virgin_mask
                 PROVE  h.seg.zeroed /\ i <= Len(g.class[d].slots) /\ g.class[d].slots[i] = "it"
      BY DEF Marked
    <3>1. CASE d = c
      BY <1>7, <1>10, <3>1
    <3>2. CASE d # c
      BY <1>1, <1>10, <3>2 DEF VirginIn
    <3> QED
      BY <3>1, <3>2
  <2> QED
    BY <1>5, <1>10, <2>1, VirginKept
<1>14. Fresh(g)
  BY <1>1, <1>5, <1>10 DEF Fresh
<1>15. Sound(g)
  BY <1>10, <1>12, <1>13, <1>14, HandEmpty DEF Sound, Base
<1>16. \A d \in Classes : Out(g, d) = Out(h, d)
  <2> TAKE d \in Classes
  <2>1. /\ h.free[d] \in Nat /\ Cached(h, d, "other") \in Nat /\ g.free[d] \in Nat
        /\ g.free[d] + (IF d = c THEN Number(some, "other") ELSE 0) = h.free[d]
    BY <1>1, <1>5, <1>10, CachedType
  <2>2. CASE d = c
    BY <1>3, <1>10, <1>11, <2>1, <2>2 DEF Out
  <2>3. CASE d # c
    BY <1>10, <2>1, <2>3 DEF Out
  <2> QED
    BY <2>2, <2>3
<1>17. g.seg.state = "LIVE" <=> h.seg.state = "LIVE"
  <2>1. CASE j > 0
    BY <1>3, <1>5, <1>10, <2>1 DEF InSegment
  <2>2. CASE ~ (j > 0)
    BY <1>5, <1>10, <2>2
  <2> QED
    BY <2>1, <2>2
<1> QED
  BY <1>10, <1>15, <1>16, <1>17 DEF Keeps, g

BatchOut(h, c, m, out) ==
    [h EXCEPT !.class[c].slots = SubSeq(h.class[c].slots, 1, m),
              !.class[c].virgin_mask = h.class[c].virgin_mask \cap (1 .. m),
              !.seg.state = IF Number(out, "it") > 0 THEN "LIVE" ELSE h.seg.state]

LEMMA BatchOutSound ==
    ASSUME setup \in Setups, NEW h, Sound(h), NEW c \in Classes,
           NEW m \in 0 .. Len(h.class[c].slots), NEW out,
           out = SubSeq(h.class[c].slots, m + 1, Len(h.class[c].slots))
    PROVE  Gave(h, BatchOut(h, c, m, out), c, out) /\ out \in Seq(Tags)
           /\ BatchOut(h, c, m, out).class[c] =
                [h.class[c] EXCEPT !.slots = SubSeq(h.class[c].slots, 1, m),
                                   !.virgin_mask = h.class[c].virgin_mask \cap (1 .. m)]
<1> DEFINE g == BatchOut(h, c, m, out)
           s == h.class[c].slots
           a == SubSeq(s, 1, m)
           v == h.class[c].virgin_mask \cap (1 .. m)
           j == Number(out, "it")
           st == IF j > 0 THEN "LIVE" ELSE h.seg.state
           t == [h.seg EXCEPT !.state = st]
<1>1. h \in Heaps /\ Shape(h) /\ DepotSound(h) /\ VirginIn(h) /\ Fresh(h) /\ InHand(h, c, 0)
      /\ h.seg \in Segment /\ h.free \in [Classes -> Nat]
  BY HandEmpty DEF Sound, Base, Shape, Heaps
<1>2. /\ s \in Seq(Tags) /\ Len(s) \in Nat /\ Len(s) <= FREE_PARK_CAP[c]
      /\ FREE_PARK_CAP[c] \in 1 .. TCACHE_CAP /\ TCACHE_CAP \in Nat
  <2>1. Len(s) <= FREE_PARK_CAP[c]
    BY <1>1 DEF Shape, WithinCaps
  <2> QED
    BY <1>1, <2>1, ClassIs, ConstantsAre
<1>3. /\ a \in Seq(Tags) /\ Len(a) = m /\ \A i \in 1 .. m : a[i] = s[i]
      /\ out \in Seq(Tags)
      /\ \A tag : Number(s, tag) = Number(a, tag) + Number(out, tag)
  BY <1>2, NumberSplit
<1>4. \A tag : Number(a, tag) \in Nat /\ Number(out, tag) \in Nat
  BY <1>3, NumberType
<1>5. a \in Magazine /\ Len(a) <= FREE_PARK_CAP[c]
  <2>1. Len(a) <= FREE_PARK_CAP[c] /\ Len(a) <= TCACHE_CAP
    BY <1>2, <1>3
  <2> HIDE DEF a
  <2> QED
    BY <1>3, <2>1, MagazineIs
<1>6. t \in Segment /\ t.live = h.seg.live /\ t.state = st /\ t.zeroed = h.seg.zeroed
  <2>1. st \in {"NONE", "FREE", "MAG", "LIVE"}
    BY <1>1 DEF Segment
  <2> HIDE DEF st
  <2> QED
    BY <1>1, <2>1 DEF Segment
<1>7. v \in SUBSET (1 .. TCACHE_CAP)
  BY <1>1, ClassIs
<1>8. g = Remade(h, c, a, v, t, h.free)
  BY <1>1 DEF BatchOut, Remade, Heaps, Segment
<1> HIDE DEF g, s, a, v, j, st, t
<1>9. Remakes(h, g, c, a, v, t, h.free)
  BY <1>1, <1>5, <1>6, <1>7, <1>8, RemadeIs
<1>10. /\ g \in Heaps /\ Shape(g) /\ DepotSound(g)
       /\ g.class[c].slots = a /\ g.class[c].virgin_mask = v
       /\ g.seg = t /\ g.free = h.free
       /\ \A d \in Classes : d # c => g.class[d] = h.class[d]
       /\ \A tag : Cached(g, c, tag) = Rest(h, c, tag) + Number(a, tag)
       /\ \A d \in Classes : \A tag : d # c => Cached(g, d, tag) = Cached(h, d, tag)
       /\ \A tag : Rest(h, c, tag) \in Nat
  BY <1>1, <1>9 DEF Remakes
<1>11. \A tag : Cached(g, c, tag) + Number(out, tag) = Cached(h, c, tag)
  <2> TAKE tag
  <2>1. Cached(h, c, tag) = Rest(h, c, tag) + Number(s, tag)
    BY <1>1, RestIs DEF s
  <2> QED
    BY <1>3, <1>4, <1>10, <2>1
<1>12. /\ InHand(g, c, 0)
       /\ j > 0 => c = setup.it /\ j = 1 /\ h.seg.state = "MAG"
  <2>1. j \in Nat /\ Elsewhere(h, g, c) /\ Cached(g, c, "it") + j = Cached(h, c, "it")
    BY <1>4, <1>10, <1>11 DEF Elsewhere, j
  <2>2. g.seg.live = h.seg.live /\ g.seg.state = IF j > 0 THEN "LIVE" ELSE h.seg.state
    BY <1>6, <1>10 DEF st
  <2> QED
    BY <1>1, <1>10, <2>1, <2>2, HandIssues
<1>13. Marked(h, g)
  <2> SUFFICES ASSUME NEW d \in Classes, NEW i \in g.class[d].virgin_mask
               PROVE  h.seg.zeroed /\ i <= Len(g.class[d].slots) /\ g.class[d].slots[i] = "it"
    BY DEF Marked
  <2>1. CASE d = c
    <3>1. i \in h.class[c].virgin_mask /\ i \in 1 .. m
      BY <1>10, <2>1 DEF v
    <3>2. h.seg.zeroed /\ s[i] = "it"
      BY <1>1, <3>1 DEF VirginIn, s
    <3> QED
      BY <1>3, <1>10, <2>1, <3>1, <3>2
  <2>2. CASE d # c
    BY <1>1, <1>10, <2>2 DEF VirginIn
  <2> QED
    BY <2>1, <2>2
<1>14. VirginIn(g) /\ Fresh(g)
  <2>1. VirginIn(g)
    BY <1>6, <1>10, <1>13, VirginKept
  <2> QED
    BY <1>1, <1>6, <1>10, <2>1 DEF Fresh, st
<1>15. Sound(g)
  BY <1>10, <1>12, <1>14, HandEmpty DEF Sound, Base
<1>16. \A d \in Classes : Out(g, d) + (IF d = c THEN Number(out, "other") ELSE 0) = Out(h, d)
  <2> TAKE d \in Classes
  <2>1. /\ h.free[d] \in Nat /\ Cached(h, d, "other") \in Nat /\ Cached(g, d, "other") \in Nat
        /\ g.free[d] = h.free[d]
    BY <1>1, <1>10, CachedType
  <2>2. CASE d = c
    BY <1>4, <1>11, <2>1, <2>2 DEF Out
  <2>3. CASE d # c
    BY <1>10, <2>1, <2>3 DEF Out
  <2> QED
    BY <2>2, <2>3
<1>17. LiveNow(g) = LiveNow(h) + j
  <2>1. j \in Nat
    BY <1>4 DEF j
  <2> QED
    BY <1>6, <1>10, <1>12, <2>1 DEF LiveNow, st
<1>18. g.class[c] = [h.class[c] EXCEPT !.slots = a, !.virgin_mask = v]
  BY <1>1, <1>8 DEF Remade, Heaps
<1> QED
  BY <1>3, <1>12, <1>15, <1>16, <1>17, <1>18 DEF Gave, g, j, a, v, s

Lent(h, c, some, given) ==
    [Taken(h, c, some, "LIVE") EXCEPT !.seg.zeroed = @ /\ Number(given, "it") = 0]

LEMMA LentSound ==
    ASSUME setup \in Setups, NEW h, Sound(h), NEW c \in Classes, NEW want \in Nat,
           NEW some \in Found(h, c, want), NEW given, Number(given, "it") \in Nat,
           Number(some, "it") > 0 => Number(given, "it") > 0,
           Number(given, "it") > 0 => Number(some, "it") > 0 \/ h.seg.state = "LIVE"
    PROVE  Gave(h, Lent(h, c, some, given), c, some)
<1> DEFINE g == Lent(h, c, some, given)
           x == TakenSeg(h, some, "LIVE")
           z == (h.seg.zeroed /\ Number(given, "it") = 0)
           t == [x EXCEPT !.zeroed = z]
           f == TakenFree(h, c, some)
           j == Number(some, "it")
           s == h.class[c].slots
           v == h.class[c].virgin_mask
<1>1. h \in Heaps /\ Shape(h) /\ DepotSound(h) /\ VirginIn(h) /\ Fresh(h) /\ InHand(h, c, 0)
      /\ h.seg \in Segment /\ h.free \in [Classes -> Nat]
  BY HandEmpty DEF Sound, Base, Shape, Heaps
<1>2. /\ some \in Seq(Tags) /\ j \in Nat /\ Number(some, "other") \in Nat
      /\ j <= InSegment(h, c)
  BY <1>1, FoundIs
<1>3. /\ x \in Segment /\ x.live = h.seg.live + j
      /\ x.state = IF j > 0 THEN "LIVE" ELSE h.seg.state
      /\ x.zeroed = h.seg.zeroed /\ f \in [Classes -> Nat]
      /\ \A d \in Classes : f[d] + (IF d = c THEN Number(some, "other") ELSE 0) = h.free[d]
  BY <1>1, TakenIs
<1>4. /\ t \in Segment /\ t.live = h.seg.live + j
      /\ t.state = IF j > 0 THEN "LIVE" ELSE h.seg.state
      /\ t.zeroed = z
  <2>1. z \in BOOLEAN
    BY Zenon
  <2> HIDE DEF x, z
  <2>2. t \in Segment /\ t.live = x.live /\ t.state = x.state /\ t.zeroed = z
    BY <1>3, <2>1 DEF Segment
  <2> QED
    BY <1>3, <2>2
<1>5. s \in Magazine /\ Len(s) <= FREE_PARK_CAP[c] /\ v \in SUBSET (1 .. TCACHE_CAP)
  BY <1>1, ClassIs DEF Shape, WithinCaps
<1>6. g = Remade(h, c, s, v, t, f)
  <2>1. [h.class EXCEPT ![c] = [h.class[c] EXCEPT !.slots = s, !.virgin_mask = v]] = h.class
    BY <1>1 DEF Heaps, PerClass
  <2>2. g = [h EXCEPT !.seg = t, !.free = f]
    <3>1. Taken(h, c, some, "LIVE") = [h EXCEPT !.seg = x, !.free = f]
      BY <1>1 DEF Taken, TakenSeg, TakenFree, Heaps
    <3> DEFINE y == Taken(h, c, some, "LIVE")
    <3>2. y.seg = x
      BY <1>1, <3>1 DEF Heaps
    <3>3. g = [y EXCEPT !.seg = [x EXCEPT !.zeroed = (x.zeroed /\ Number(given, "it") = 0)]]
      <4> HIDE DEF y, x
      <4> QED
        BY <3>2 DEF Lent, y
    <3>4. (x.zeroed /\ Number(given, "it") = 0) = z
      BY <1>3
    <3>5. g = [y EXCEPT !.seg = t]
      BY <3>3, <3>4
    <3> HIDE DEF g, t, x
    <3> QED
      BY <1>1, <3>1, <3>5 DEF Heaps
  <2>3. Remade(h, c, s, v, t, f) = [h EXCEPT !.seg = t, !.free = f]
    <3> DEFINE y == [h.class[c] EXCEPT !.slots = s, !.virgin_mask = v]
    <3>1. h.class[c] \in PerClass
      BY <1>1 DEF Heaps
    <3> HIDE DEF t, f, s, v
    <3>2. Remade(h, c, s, v, t, f)
            = [h EXCEPT !.class = [h.class EXCEPT ![c] = y], !.seg = t, !.free = f]
      BY <1>1, <3>1 DEF Remade, Heaps, PerClass
    <3> HIDE DEF y
    <3> QED
      BY <1>1, <2>1, <3>2 DEF Heaps, y
  <2> QED
    BY <2>2, <2>3
<1> HIDE DEF g, x, z, t, f, j, s, v
<1>7. Remakes(h, g, c, s, v, t, f)
  BY <1>1, <1>3, <1>4, <1>5, <1>6, RemadeIs
<1>8. /\ g \in Heaps /\ Shape(g) /\ DepotSound(g)
      /\ g.class[c].slots = s /\ g.class[c].virgin_mask = v
      /\ g.seg = t /\ g.free = f
      /\ \A d \in Classes : d # c => g.class[d] = h.class[d]
      /\ \A tag : Cached(g, c, tag) = Rest(h, c, tag) + Number(s, tag)
      /\ \A d \in Classes : \A tag : d # c => Cached(g, d, tag) = Cached(h, d, tag)
  BY <1>1, <1>7 DEF Remakes
<1>9. \A d \in Classes : \A tag : Cached(g, d, tag) = Cached(h, d, tag)
  <2>1. \A tag : Cached(h, c, tag) = Rest(h, c, tag) + Number(s, tag)
    BY <1>1, RestIs DEF s
  <2> QED
    BY <1>8, <2>1
<1>10. InHand(g, c, 0) /\ (j > 0 => c = setup.it /\ j = 1 /\ h.seg.state # "LIVE")
  BY <1>1, <1>2, <1>4, <1>8, <1>9, HandLends
<1>11. Marked(h, g)
  BY <1>1, <1>8 DEF Marked, VirginIn, s, v
<1>12. VirginIn(g)
  <2>1. CASE Number(given, "it") = 0
    <3>1. g.seg.zeroed = h.seg.zeroed
      BY <1>1, <1>4, <1>8, <2>1 DEF z, Segment
    <3> QED
      BY <1>8, <1>11, <3>1, VirginKept
  <2>2. CASE Number(given, "it") > 0
    <3>1. g.seg.state = "LIVE"
      BY <1>2, <1>4, <1>8, <2>2 DEF j
    <3> QED
      BY <1>8, <1>10, <1>11, <3>1, NoneCached, VirginKept
  <2> QED
    BY <2>1, <2>2
<1>13. Fresh(g)
  <2> SUFFICES ASSUME g.seg.state = "NONE" PROVE g.seg.zeroed
    BY DEF Fresh
  <2>1. j = 0 /\ h.seg.state = "NONE"
    BY <1>2, <1>4, <1>8
  <2>2. Number(given, "it") = 0 /\ h.seg.zeroed
    BY <1>1, <2>1 DEF Fresh, j
  <2> QED
    BY <1>4, <1>8, <2>2 DEF z
<1>14. Sound(g)
  BY <1>8, <1>10, <1>12, <1>13, HandEmpty DEF Sound, Base
<1>15. \A d \in Classes : Out(g, d) + (IF d = c THEN Number(some, "other") ELSE 0) = Out(h, d)
  <2> TAKE d \in Classes
  <2>1. /\ h.free[d] \in Nat /\ Cached(h, d, "other") \in Nat /\ f[d] \in Nat
        /\ f[d] + (IF d = c THEN Number(some, "other") ELSE 0) = h.free[d]
        /\ g.free[d] = f[d] /\ Cached(g, d, "other") = Cached(h, d, "other")
    BY <1>1, <1>3, <1>8, <1>9, CachedType
  <2> QED
    BY <1>2, <2>1 DEF Out
<1>16. LiveNow(g) = LiveNow(h) + j
  BY <1>2, <1>4, <1>8, <1>10 DEF LiveNow
<1> QED
  BY <1>10, <1>14, <1>15, <1>16 DEF Gave, g, j

LEMMA BatchTaken ==
    ASSUME setup \in Setups, NEW h, Sound(h), NEW c \in Classes, NEW some \in Seq(Tags),
           Number(some, "it") <= IF c = setup.it THEN LiveNow(h) ELSE 0,
           NEW n \in 0 .. Len(some), Len(h.class[c].slots) + n <= FREE_PARK_CAP[c]
    PROVE  Took(h, Flush(Pushed(h, c, SubSeq(some, 1, n)), c, SubSeq(some, n + 1, Len(some))),
                c, some)
<1> DEFINE a == SubSeq(some, 1, n)
           b == SubSeq(some, n + 1, Len(some))
           x == Pushed(h, c, a)
           g == Flush(x, c, b)
<1>1. /\ a \in Seq(Tags) /\ Len(a) = n /\ b \in Seq(Tags)
      /\ \A tag : Number(some, tag) = Number(a, tag) + Number(b, tag)
  BY NumberSplit
<1> HIDE DEF a, b
<1>2. \A tag : Number(a, tag) \in Nat /\ Number(b, tag) \in Nat /\ Number(some, tag) \in Nat
  BY <1>1, NumberType
<1>3. Base(h) /\ InHand(h, c, Number(a, "it") + Number(b, "it"))
  BY <1>1, <1>2, HandGives
<1>4. /\ Base(x) /\ InHand(x, c, Number(b, "it"))
      /\ \A d \in Classes : Out(x, d) = Out(h, d) + IF d = c THEN Number(a, "other") ELSE 0
      /\ Number(a, "it") = 0 => x.seg.state = h.seg.state
      /\ Number(a, "it") > 0 => x.seg.state = "MAG"
  <2>1. Len(h.class[c].slots) + Len(a) <= FREE_PARK_CAP[c]
    BY <1>1
  <2> QED
    BY <1>1, <1>2, <1>3, <2>1, PushedSound
<1> HIDE DEF x
<1>5. InHand(x, c, Number(b, "it") + 0)
  BY <1>2, <1>4
<1>6. /\ Base(g) /\ InHand(g, c, 0)
      /\ \A d \in Classes : Out(g, d) = Out(x, d) + IF d = c THEN Number(b, "other") ELSE 0
      /\ Number(b, "it") = 0 => g.seg.state = x.seg.state
      /\ Number(b, "it") > 0 => g.seg.state = "FREE"
  BY <1>1, <1>4, <1>5, FlushSound
<1>7. Sound(g)
  BY <1>6, HandEmpty DEF Sound
<1>8. ASSUME NEW d \in Classes
      PROVE  Out(g, d) = Out(h, d) + IF d = c THEN Number(some, "other") ELSE 0
  <2>1. Out(h, d) \in Nat
    BY <1>3, ClassIs, CachedType DEF Out, Base, Shape
  <2>2. Number(some, "other") = Number(a, "other") + Number(b, "other")
    BY <1>1
  <2>3. CASE d = c
    <3>1. Number(a, "other") \in Nat /\ Number(b, "other") \in Nat
      BY <1>2
    <3>2. Out(x, d) = Out(h, d) + Number(a, "other") /\ Out(g, d) = Out(x, d) + Number(b, "other")
      BY <1>4, <1>6, <2>3
    <3> QED
      BY <2>1, <2>2, <2>3, <3>1, <3>2
  <2>4. CASE d # c
    BY <1>4, <1>6, <2>1, <2>4
  <2> QED
    BY <2>3, <2>4
<1>9. LiveNow(g) + Number(some, "it") = LiveNow(h)
  <2>1. Number(some, "it") = Number(a, "it") + Number(b, "it")
    BY <1>1
  <2>2. Number(a, "it") \in Nat /\ Number(b, "it") \in Nat
    BY <1>2
  <2>3. CASE Number(some, "it") = 0
    BY <1>4, <1>6, <2>1, <2>2, <2>3 DEF LiveNow
  <2>4. CASE Number(some, "it") > 0
    <3>1. LiveNow(h) = 1 /\ Number(some, "it") = 1
      BY <2>1, <2>2, <2>4 DEF LiveNow
    <3>2. g.seg.state # "LIVE"
      BY <1>4, <1>6, <2>1, <2>2, <2>4
    <3> QED
      BY <3>1, <3>2 DEF LiveNow
  <2> QED
    BY <2>1, <2>2, <2>3, <2>4
<1> QED
  BY <1>7, <1>8, <1>9 DEF Took, g, x, a, b

-----------------------------------------------------------------------------
(* An empty segment is given back                                          *)

LEMMA SettledSound ==
    ASSUME setup \in Setups, NEW h, Sound(h), NEW g \in Settled(h)
    PROVE  Keeps(h, g)
<1>1. CASE g = h
  BY <1>1 DEF Keeps
<1>2. CASE g = Released(h) /\ h.seg.live = 0
  <2>1. h \in Heaps /\ Shape(h) /\ DepotSound(h) /\ InHand(h, 0, 0) /\ VirginIn(h)
    BY DEF Sound, Base, Shape
  <2>2. /\ g.class = h.class /\ g.ovf = h.ovf /\ g.free = h.free
        /\ g.seg.live = 0 /\ g.seg.state = "NONE" /\ g.seg.zeroed = TRUE
        /\ g.seg \in Segment
    BY <1>2, <2>1 DEF Released, Heaps, Segment
  <2>3. g \in Heaps
    <3>1. g = [h EXCEPT !.seg = g.seg]
      BY <1>2, <2>1 DEF Released, Heaps
    <3> QED
      BY <2>1, <2>2, <3>1 DEF Heaps
  <2>4. Shape(g) /\ DepotSound(g)
    BY <2>1, <2>2, <2>3 DEF Shape, WithinCaps, DepotSound, RecordsAreReachable, LatchIsStarved
  <2>5. \A d \in Classes : \A tag : Cached(g, d, tag) = Cached(h, d, tag)
    <3> TAKE d \in Classes
    <3> TAKE tag
    <3>1. SameBlocks(h, g, d)
      BY <2>2 DEF SameBlocks
    <3> QED
      BY <3>1, SameCached
  <2>6. h.seg.state \notin {"MAG", "LIVE"}
    BY <1>2, <2>1 DEF InHand
  <2>7. \A d \in Classes : Cached(h, d, "it") = 0
    BY <2>1, <2>6, NoneCached
  <2>8. InHand(g, 0, 0)
    BY <2>2, <2>5, <2>7 DEF InHand, Held
  <2>9. VirginIn(g) /\ Fresh(g)
    <3>1. \A d \in Classes : h.class[d].virgin_mask = {}
      BY <2>1, <2>7, NoMarks
    <3> QED
      BY <2>2, <3>1 DEF VirginIn, Fresh
  <2>10. Sound(g)
    BY <2>4, <2>8, <2>9 DEF Sound, Base
  <2> QED
    BY <2>2, <2>5, <2>6, <2>10 DEF Keeps, Out
<1> QED
  BY <1>1, <1>2 DEF Settled

-----------------------------------------------------------------------------
(* The books of the overflow, when a record comes or goes                  *)

OverflowOK(o) ==
    /\ o \in Overflow /\ BooksBalance(o) /\ Unbacked(o)
    /\ \A c \in DepotClasses : RingOK(o, c) /\ DOMAIN o.ring[c] = 1 .. cap_for(c)

LEMMA SoundOverflow ==
    ASSUME setup \in Setups, NEW h, Shape(h)
    PROVE  BooksBalance(h.ovf) /\ Unbacked(h.ovf) => OverflowOK(h.ovf)
<1>1. h.ovf \in Overflow
  BY DEF Shape, Heaps
<1> QED
  BY <1>1, RingIs DEF OverflowOK

Bytes(o) == [c \in DepotClasses |-> o.len[c] * mag_bytes[c]]

LEMMA BytesAre ==
    ASSUME setup \in Setups, NEW o \in Overflow
    PROVE  Numbers(Bytes(o), DepotClasses) /\ DOMAIN Bytes(o) = DepotClasses
<1>1. \A c \in DepotClasses : o.len[c] \in Nat /\ mag_bytes[c] \in Nat
  BY OverflowIs, ConstantsAre
<1>2. \A c \in DepotClasses : o.len[c] * mag_bytes[c] \in Nat
  BY <1>1
<1> QED
  BY <1>2 DEF Bytes, Numbers

LEMMA ByteSteps ==
    ASSUME NEW n \in Nat, NEW b \in Nat
    PROVE  (n + 1) * b = n * b + b
BY SMT

(* A class has k records more, or none of another class has fewer bytes.   *)
LEMMA BytesChange ==
    ASSUME setup \in Setups, NEW o \in Overflow, NEW p \in Overflow, NEW c \in DepotClasses,
           p.len[c] = o.len[c] + 1, \A d \in DepotClasses : d # c => p.len[d] = o.len[d]
    PROVE  Sum(Bytes(p)) = Sum(Bytes(o)) + mag_bytes[c] /\ Sum(Bytes(o)) \in Nat
<1>1. /\ Numbers(Bytes(o), DepotClasses) /\ DOMAIN Bytes(o) = DepotClasses
      /\ Numbers(Bytes(p), DepotClasses) /\ DOMAIN Bytes(p) = DepotClasses
  BY BytesAre
<1>2. \A d \in DepotClasses : d # c => Bytes(p)[d] = Bytes(o)[d]
  BY DEF Bytes
<1>3. /\ Sum(Bytes(p)) - Bytes(p)[c] = Sum(Bytes(o)) - Bytes(o)[c]
      /\ Sum(Bytes(p)) \in Nat /\ Sum(Bytes(o)) \in Nat
  BY <1>1, <1>2, ConstantsAre, SumChanges
<1>4. o.len[c] \in Nat /\ mag_bytes[c] \in Nat
  BY OverflowIs, ConstantsAre
<1>5. Bytes(p)[c] = Bytes(o)[c] + mag_bytes[c] /\ Bytes(o)[c] \in Nat
  <2>1. (o.len[c] + 1) * mag_bytes[c] = o.len[c] * mag_bytes[c] + mag_bytes[c]
    BY <1>4, ByteSteps
  <2>2. Bytes(p)[c] = (o.len[c] + 1) * mag_bytes[c] /\ Bytes(o)[c] = o.len[c] * mag_bytes[c]
    BY DEF Bytes
  <2> QED
    BY <1>1, <2>1, <2>2 DEF Numbers
<1> QED
  BY <1>3, <1>4, <1>5

LEMMA BytesPositive ==
    ASSUME setup \in Setups, NEW o, OverflowOK(o), NEW c \in DepotClasses, o.len[c] > 0
    PROVE  o.bytes >= mag_bytes[c] /\ o.bytes > 0
<1> DEFINE p == [o EXCEPT !.len = [@ EXCEPT ![c] = o.len[c] - 1]]
<1>1. o \in Overflow /\ o.len \in [DepotClasses -> Nat]
  BY DEF OverflowOK, Overflow
<1>2. o.len[c] - 1 \in Nat
  BY <1>1
<1>3. p \in Overflow /\ p.len[c] = o.len[c] - 1
      /\ \A d \in DepotClasses : d # c => p.len[d] = o.len[d]
  BY <1>1, <1>2 DEF Overflow
<1> HIDE DEF p
<1>4. o.len[c] = p.len[c] + 1
  BY <1>1, <1>3
<1>5. Sum(Bytes(o)) = Sum(Bytes(p)) + mag_bytes[c] /\ Sum(Bytes(p)) \in Nat
  BY <1>1, <1>3, <1>4, BytesChange
<1>6. o.bytes = Sum(Bytes(o)) /\ mag_bytes[c] \in Nat \ {0}
  BY ConstantsAre DEF OverflowOK, BooksBalance, Bytes
<1> QED
  BY <1>5, <1>6

(* Everything of another class is as it was.                               *)
OtherRings(o, p, c) ==
    \A d \in DepotClasses : d # c =>
        /\ p.ring[d] = o.ring[d] /\ p.len[d] = o.len[d] /\ p.head[d] = o.head[d]
        /\ p.low[d] = o.low[d] /\ p.debt[d] = o.debt[d] /\ p.committed[d] = o.committed[d]

SameUse(o, p, d) ==
    p.ring[d] = o.ring[d] /\ p.len[d] = o.len[d] /\ p.head[d] = o.head[d]

LEMMA SameUseIs ==
    \A o, p, d : SameUse(o, p, d) => InUse(p, d) = InUse(o, d) /\ (RingOK(o, d) <=> RingOK(p, d))
<1> SUFFICES ASSUME NEW o, NEW p, NEW d, SameUse(o, p, d)
             PROVE  InUse(p, d) = InUse(o, d) /\ (RingOK(o, d) <=> RingOK(p, d))
  OBVIOUS
<1>1. \A i : Slot(p, d, i) = Slot(o, d, i)
  BY DEF SameUse, Slot
<1>2. p.len[d] = o.len[d] /\ p.head[d] = o.head[d]
  BY DEF SameUse
<1>3. InUse(p, d) = InUse(o, d)
  BY <1>1, <1>2, Zenon DEF InUse
<1>4. RingOK(o, d) <=> RingOK(p, d)
  BY <1>2, Zenon DEF RingOK
<1> QED
  BY <1>3, <1>4

(* One record of c more (o to p), or one less (p to o): at k.              *)
Record(o, p, c, k) ==
    /\ o \in Overflow /\ p \in Overflow /\ OtherRings(o, p, c)
    /\ p.len[c] = o.len[c] + 1 /\ p.bytes = o.bytes + mag_bytes[c]
    /\ InUse(p, c) = InUse(o, c) \cup {k} /\ k \notin InUse(o, c) /\ k \in 1 .. cap_for(c)
    /\ \A i \in InUse(o, c) : p.ring[c][i] = o.ring[c][i]
    /\ RingOK(o, c) /\ RingOK(p, c)
    /\ DOMAIN o.ring[c] = 1 .. cap_for(c) /\ DOMAIN p.ring[c] = 1 .. cap_for(c)
    /\ o.reserved = p.reserved

LEMMA RecordMore ==
    ASSUME setup \in Setups, NEW o, OverflowOK(o), NEW c \in DepotClasses, NEW p, NEW k,
           Record(o, p, c, k), Len(p.ring[c][k]) = TCACHE_CAP, p.bytes <= depot_budget,
           p.debt[c] = o.debt[c], p.low[c] = o.low[c], o.reserved,
           p.committed[c] >= o.committed[c], k <= p.committed[c]
    PROVE  OverflowOK(p)
<1>1. o \in Overflow /\ p \in Overflow /\ OtherRings(o, p, c)
  BY DEF Record
<1>2. \A d \in DepotClasses : d # c => SameUse(o, p, d)
  BY <1>1 DEF OtherRings, SameUse
<1>3. ASSUME NEW d \in DepotClasses
      PROVE  RingOK(p, d) /\ DOMAIN p.ring[d] = 1 .. cap_for(d)
  <2>1. CASE d = c
    BY <2>1 DEF Record
  <2>2. CASE d # c
    BY <1>2, <2>2, SameUseIs DEF OverflowOK, SameUse
  <2> QED
    BY <2>1, <2>2
<1>4. p.bytes = Sum(Bytes(p))
  <2>1. Sum(Bytes(p)) = Sum(Bytes(o)) + mag_bytes[c]
    BY <1>1, BytesChange DEF Record, OtherRings
  <2> QED
    BY <2>1 DEF Record, OverflowOK, BooksBalance, Bytes
<1>5. ASSUME NEW d \in DepotClasses
      PROVE  /\ p.debt[d] <= p.len[d] /\ p.low[d] <= p.len[d]
             /\ \A i \in InUse(p, d) : i <= p.committed[d] /\ Len(p.ring[d][i]) = TCACHE_CAP
  <2>1. /\ o.debt[d] <= o.len[d] /\ o.low[d] <= o.len[d]
        /\ \A i \in InUse(o, d) : i <= o.committed[d] /\ Len(o.ring[d][i]) = TCACHE_CAP
    BY DEF OverflowOK, BooksBalance
  <2>2. CASE d # c
    BY <1>1, <1>2, <2>1, <2>2, SameUseIs DEF OtherRings
  <2>3. CASE d = c
    <3>1. /\ o.len[c] \in Nat /\ o.debt[c] \in Nat /\ o.low[c] \in Nat
          /\ o.committed[c] \in Nat /\ p.committed[c] \in Nat
      BY <1>1, OverflowIs
    <3>2. p.debt[c] <= p.len[c] /\ p.low[c] <= p.len[c]
      BY <2>1, <2>3, <3>1 DEF Record
    <3>3. ASSUME NEW i \in InUse(p, c)
          PROVE  i <= p.committed[c] /\ Len(p.ring[c][i]) = TCACHE_CAP
      <4>1. CASE i = k
        BY <4>1
      <4>2. CASE i # k
        <5>1. i \in InUse(o, c)
          BY <4>2 DEF Record
        <5>2. i \in Nat
          BY <5>1, SlotIs DEF Record
        <5>3. i <= o.committed[c] /\ Len(o.ring[c][i]) = TCACHE_CAP /\ p.ring[c][i] = o.ring[c][i]
          BY <2>1, <2>3, <5>1 DEF Record
        <5> QED
          BY <3>1, <5>2, <5>3
      <4> QED
        BY <4>1, <4>2
    <3> QED
      BY <2>3, <3>2, <3>3
  <2> QED
    BY <2>2, <2>3
<1>6. BooksBalance(p)
  BY <1>4, <1>5 DEF BooksBalance, Bytes
<1> QED
  BY <1>1, <1>3, <1>6 DEF OverflowOK, Record, Unbacked

LEMMA RecordLess ==
    ASSUME setup \in Setups, NEW p, OverflowOK(p), NEW c \in DepotClasses, NEW o, NEW k,
           Record(o, p, c, k), o.debt[c] <= o.len[c], o.low[c] <= o.len[c],
           o.committed[c] = p.committed[c]
    PROVE  OverflowOK(o)
<1>1. o \in Overflow /\ p \in Overflow /\ OtherRings(o, p, c)
  BY DEF Record
<1>2. \A d \in DepotClasses : d # c => SameUse(p, o, d)
  BY <1>1 DEF OtherRings, SameUse
<1>3. ASSUME NEW d \in DepotClasses
      PROVE  RingOK(o, d) /\ DOMAIN o.ring[d] = 1 .. cap_for(d)
  <2>1. CASE d = c
    BY <2>1 DEF Record
  <2>2. CASE d # c
    BY <1>2, <2>2, SameUseIs DEF OverflowOK, SameUse
  <2> QED
    BY <2>1, <2>2
<1>4. o.bytes = Sum(Bytes(o)) /\ o.bytes <= depot_budget
  <2>1. Sum(Bytes(p)) = Sum(Bytes(o)) + mag_bytes[c] /\ Sum(Bytes(o)) \in Nat
    BY <1>1, BytesChange DEF Record, OtherRings
  <2>2. p.bytes = Sum(Bytes(p)) /\ p.bytes <= depot_budget
    BY DEF OverflowOK, BooksBalance, Bytes
  <2>3. mag_bytes[c] \in Nat /\ depot_budget \in Nat /\ o.bytes \in Nat
        /\ p.bytes = o.bytes + mag_bytes[c]
    BY <1>1, ConstantsAre DEF Record, Overflow
  <2> QED
    BY <2>1, <2>2, <2>3
<1>5. ASSUME NEW d \in DepotClasses
      PROVE  /\ o.debt[d] <= o.len[d] /\ o.low[d] <= o.len[d]
             /\ \A i \in InUse(o, d) : i <= o.committed[d] /\ Len(o.ring[d][i]) = TCACHE_CAP
  <2>1. /\ p.debt[d] <= p.len[d] /\ p.low[d] <= p.len[d]
        /\ \A i \in InUse(p, d) : i <= p.committed[d] /\ Len(p.ring[d][i]) = TCACHE_CAP
    BY DEF OverflowOK, BooksBalance
  <2>2. CASE d # c
    BY <1>1, <1>2, <2>1, <2>2, SameUseIs DEF OtherRings
  <2>3. CASE d = c
    BY <2>1, <2>3 DEF Record
  <2> QED
    BY <2>2, <2>3
<1>6. BooksBalance(o)
  BY <1>4, <1>5 DEF BooksBalance, Bytes
<1>7. Unbacked(o)
  <2> SUFFICES ASSUME ~ o.reserved, NEW d \in DepotClasses
               PROVE  o.len[d] = 0
    BY DEF Unbacked
  <2>1. p.len[d] = 0 /\ p.len[c] = 0
    BY DEF OverflowOK, Unbacked, Record
  <2>2. o.len[c] \in Nat
    BY <1>1, OverflowIs
  <2> QED
    BY <2>1, <2>2 DEF Record
<1> QED
  BY <1>1, <1>3, <1>6, <1>7 DEF OverflowOK

-----------------------------------------------------------------------------
(* A record is parked; the newest is reloaded, the oldest decays           *)

LEMMA RingPut ==
    ASSUME NEW r \in Seq(Magazine), NEW k \in DOMAIN r, NEW m \in Magazine
    PROVE  LET q == [r EXCEPT ![k] = m]
           IN  q \in Seq(Magazine) /\ DOMAIN q = DOMAIN r /\ q[k] = m
               /\ \A i \in DOMAIN r : i # k => q[i] = r[i]
<1> DEFINE q == [r EXCEPT ![k] = m]
<1>1. Len(r) \in Nat /\ DOMAIN r = 1 .. Len(r) /\ \A i \in 1 .. Len(r) : r[i] \in Magazine
  OBVIOUS
<1>2. q \in [1 .. Len(r) -> Magazine]
  BY <1>1
<1>3. q \in Seq(Magazine)
  <2> HIDE DEF q
  <2> QED
    BY <1>1, <1>2, SeqDef
<1> QED
  BY <1>1, <1>3

(* What no change of the records touches.                                  *)
Alike(o, p) ==
    /\ (p.reserved <=> o.reserved) /\ (p.reserve_failed <=> o.reserve_failed)
    /\ p.armed = o.armed /\ p.events = o.events /\ p.epoch_len = o.epoch_len
    /\ p.starved = o.starved

LEMMA ParkedSound ==
    ASSUME setup \in Setups, NEW o, OverflowOK(o), NEW c \in DepotClasses, o.reserved,
           o.len[c] < cap_for(c), o.bytes + mag_bytes[c] <= depot_budget, NEW m \in Full
    PROVE  LET p == Parked(o, c, m)
               k == Slot(o, c, o.len[c])
           IN  /\ OverflowOK(p) /\ Alike(o, p) /\ Record(o, p, c, k)
               /\ p.ring[c][k] = m /\ p.debt = o.debt
<1> DEFINE p == Parked(o, c, m)
           k == Slot(o, c, o.len[c])
           ring == [o.ring[c] EXCEPT ![k] = m]
<1>1. /\ o \in Overflow /\ o.len \in [DepotClasses -> Nat] /\ o.head \in [DepotClasses -> Nat]
      /\ o.ring \in [DepotClasses -> Seq(Magazine)] /\ o.committed \in [DepotClasses -> Nat]
      /\ o.bytes \in Nat /\ o.parked_in_epoch \subseteq DepotClasses
      /\ RingOK(o, c) /\ DOMAIN o.ring[c] = 1 .. cap_for(c)
  BY DEF OverflowOK, Overflow
<1>2. mag_bytes[c] \in Nat /\ cap_for(c) \in Nat /\ m \in Magazine
      /\ Len(m) = TCACHE_CAP
  BY ConstantsAre, MagazineIs
<1>3. k \in 1 .. cap_for(c)
  <2>1. o.len[c] \in 0 .. cap_for(c) - 1
    BY <1>1, <1>2
  <2> QED
    BY <1>1, <2>1, SlotIs
<1>4. /\ ring \in Seq(Magazine) /\ DOMAIN ring = 1 .. cap_for(c) /\ ring[k] = m
      /\ \A i \in 1 .. cap_for(c) : i # k => ring[i] = o.ring[c][i]
  <2>1. o.ring[c] \in Seq(Magazine) /\ k \in DOMAIN o.ring[c]
    BY <1>1, <1>3
  <2> HIDE DEF k
  <2> QED
    BY <1>1, <1>2, <2>1, RingPut
<1>5. p = [o EXCEPT !.committed = [o.committed EXCEPT ![c] = Larger(o.committed[c], k)],
                    !.ring = [o.ring EXCEPT ![c] = ring],
                    !.bytes = o.bytes + mag_bytes[c],
                    !.len = [o.len EXCEPT ![c] = o.len[c] + 1],
                    !.parked_in_epoch = o.parked_in_epoch \cup {c}]
  BY <1>1 DEF Parked, Overflow
<1> HIDE DEF p, k, ring
<1>6. /\ p.ring = [o.ring EXCEPT ![c] = ring] /\ p.bytes = o.bytes + mag_bytes[c]
      /\ p.len = [o.len EXCEPT ![c] = o.len[c] + 1] /\ p.head = o.head /\ p.low = o.low
      /\ p.debt = o.debt /\ p.committed = [o.committed EXCEPT ![c] = Larger(o.committed[c], k)]
  BY <1>1, <1>5 DEF Overflow
<1>7. Alike(o, p)
  BY <1>1, <1>5 DEF Overflow, Alike
<1>8. p \in Overflow
  <2>1. Larger(o.committed[c], k) \in Nat
    BY <1>1, <1>3 DEF Larger
  <2>2. /\ [o.committed EXCEPT ![c] = Larger(o.committed[c], k)] \in [DepotClasses -> Nat]
        /\ [o.ring EXCEPT ![c] = ring] \in [DepotClasses -> Seq(Magazine)]
        /\ o.bytes + mag_bytes[c] \in Nat
        /\ [o.len EXCEPT ![c] = o.len[c] + 1] \in [DepotClasses -> Nat]
        /\ o.parked_in_epoch \cup {c} \in SUBSET DepotClasses
    BY SMTT(30), <1>1, <1>2, <1>4, <2>1
  <2> QED
    BY <1>1, <1>5, <2>2 DEF Overflow
<1>9. /\ p.len[c] = o.len[c] + 1 /\ p.head[c] = o.head[c] /\ p.ring[c] = ring
      /\ p.committed[c] = Larger(o.committed[c], k)
      /\ OtherRings(o, p, c)
  BY <1>1, <1>6 DEF OtherRings
<1>10. /\ InUse(p, c) = InUse(o, c) \cup {k} /\ k \notin InUse(o, c) /\ RingOK(p, c)
  BY <1>1, <1>9, UseGrows DEF k
<1>11. Record(o, p, c, k)
  <2>1. \A i \in InUse(o, c) : p.ring[c][i] = o.ring[c][i]
    BY <1>1, <1>4, <1>9, <1>10, SlotIs
  <2>2. o.reserved = p.reserved
    BY <1>1, <1>5 DEF Overflow
  <2> QED
    BY <1>1, <1>3, <1>4, <1>6, <1>8, <1>9, <1>10, <2>1, <2>2 DEF Record
<1>12. p.committed[c] >= o.committed[c] /\ k <= p.committed[c]
  BY <1>1, <1>3, <1>9 DEF Larger
<1>13. OverflowOK(p)
  <2>1. Len(p.ring[c][k]) = TCACHE_CAP /\ p.bytes <= depot_budget
        /\ p.debt[c] = o.debt[c] /\ p.low[c] = o.low[c]
    BY <1>2, <1>4, <1>6, <1>9
  <2> QED
    BY <1>11, <1>12, <2>1, RecordMore
<1> QED
  BY <1>4, <1>6, <1>7, <1>9, <1>11, <1>13 DEF p, k

(* One record less, at k, with another head and debt.                      *)
Less(o, c, k, hd, db) ==
    [o EXCEPT !.ring = [o.ring EXCEPT ![c] = [o.ring[c] EXCEPT ![k] = <<>>]],
              !.bytes = o.bytes - mag_bytes[c],
              !.len = [o.len EXCEPT ![c] = o.len[c] - 1],
              !.low = [o.low EXCEPT ![c] = LowAfter(o, c)],
              !.head = [o.head EXCEPT ![c] = hd],
              !.debt = [o.debt EXCEPT ![c] = db]]

Lesser(o, p, c, k) ==
    /\ OverflowOK(p) /\ Alike(o, p) /\ Record(p, o, c, k) /\ OtherRings(o, p, c)

LEMMA LessSound ==
    ASSUME setup \in Setups, NEW o, OverflowOK(o), NEW c \in DepotClasses, o.len[c] > 0,
           NEW k \in 1 .. cap_for(c), NEW hd \in Nat, NEW db \in 0 .. o.len[c] - 1,
           NEW p, p = Less(o, c, k, hd, db),
           InUse(o, c) = InUse(p, c) \cup {k}, k \notin InUse(p, c), RingOK(p, c)
    PROVE  Lesser(o, p, c, k)
<1> DEFINE ring == [o.ring[c] EXCEPT ![k] = <<>>]
<1>1. /\ o \in Overflow /\ o.len \in [DepotClasses -> Nat] /\ o.head \in [DepotClasses -> Nat]
      /\ o.ring \in [DepotClasses -> Seq(Magazine)] /\ o.committed \in [DepotClasses -> Nat]
      /\ o.debt \in [DepotClasses -> Nat] /\ o.low \in [DepotClasses -> Nat]
      /\ o.bytes \in Nat /\ RingOK(o, c) /\ DOMAIN o.ring[c] = 1 .. cap_for(c)
      /\ o.low[c] <= o.len[c]
  BY DEF OverflowOK, Overflow, BooksBalance
<1>2. mag_bytes[c] \in Nat \ {0} /\ cap_for(c) \in Nat /\ o.bytes >= mag_bytes[c]
  BY ConstantsAre, BytesPositive
<1>3. o.len[c] \in Nat \ {0} /\ o.low[c] \in Nat
  BY <1>1
<1>4. /\ ring \in Seq(Magazine) /\ DOMAIN ring = 1 .. cap_for(c)
      /\ \A i \in 1 .. cap_for(c) : i # k => ring[i] = o.ring[c][i]
  <2>1. o.ring[c] \in Seq(Magazine) /\ k \in DOMAIN o.ring[c] /\ <<>> \in Magazine
    BY <1>1, NumberEmpty
  <2> QED
    BY <1>1, <2>1, RingPut
<1>5. LowAfter(o, c) \in 0 .. o.len[c] - 1
  BY <1>1, <1>3 DEF LowAfter, Smaller
<1>6. p = [o EXCEPT !.ring = [o.ring EXCEPT ![c] = ring],
                    !.bytes = o.bytes - mag_bytes[c],
                    !.len = [o.len EXCEPT ![c] = o.len[c] - 1],
                    !.low = [o.low EXCEPT ![c] = LowAfter(o, c)],
                    !.head = [o.head EXCEPT ![c] = hd],
                    !.debt = [o.debt EXCEPT ![c] = db]]
  BY DEF Less
<1> HIDE DEF ring
<1>7. /\ p.ring = [o.ring EXCEPT ![c] = ring] /\ p.bytes = o.bytes - mag_bytes[c]
      /\ p.len = [o.len EXCEPT ![c] = o.len[c] - 1]
      /\ p.low = [o.low EXCEPT ![c] = LowAfter(o, c)]
      /\ p.head = [o.head EXCEPT ![c] = hd] /\ p.debt = [o.debt EXCEPT ![c] = db]
      /\ p.committed = o.committed
  BY <1>1, <1>6 DEF Overflow
<1>8. Alike(o, p) /\ o.reserved = p.reserved
  BY <1>1, <1>6 DEF Overflow, Alike
<1>9. p \in Overflow
  <2>0. /\ o.bytes - mag_bytes[c] \in Nat /\ o.len[c] - 1 \in Nat /\ LowAfter(o, c) \in Nat
        /\ hd \in Nat /\ db \in Nat /\ ring \in Seq(Magazine)
    <3>1. o.bytes - mag_bytes[c] \in Nat
      BY <1>1, <1>2
    <3>2. o.len[c] - 1 \in Nat /\ db \in Nat
      BY <1>3
    <3>3. LowAfter(o, c) \in Nat
      BY <1>3, <1>5
    <3> QED
      BY <1>4, <3>1, <3>2, <3>3
  <2>1. /\ [o.ring EXCEPT ![c] = ring] \in [DepotClasses -> Seq(Magazine)]
        /\ o.bytes - mag_bytes[c] \in Nat
        /\ [o.len EXCEPT ![c] = o.len[c] - 1] \in [DepotClasses -> Nat]
        /\ [o.low EXCEPT ![c] = LowAfter(o, c)] \in [DepotClasses -> Nat]
        /\ [o.head EXCEPT ![c] = hd] \in [DepotClasses -> Nat]
        /\ [o.debt EXCEPT ![c] = db] \in [DepotClasses -> Nat]
    BY <1>1, <2>0
  <2> QED
    BY ZenonT(60), <1>1, <1>6, <2>1 DEF Overflow
<1>10. /\ p.len[c] = o.len[c] - 1 /\ p.ring[c] = ring /\ p.low[c] = LowAfter(o, c)
       /\ p.debt[c] = db /\ p.committed[c] = o.committed[c]
       /\ OtherRings(o, p, c)
  BY <1>1, <1>7 DEF OtherRings
<1>11. Record(p, o, c, k)
  <2>1. \A i \in InUse(p, c) : o.ring[c][i] = p.ring[c][i]
    BY <1>1, <1>4, <1>10, SlotIs
  <2>2. o.len[c] = p.len[c] + 1 /\ o.bytes = p.bytes + mag_bytes[c]
    BY <1>1, <1>2, <1>3, <1>7, <1>10
  <2>3. OtherRings(p, o, c)
    BY <1>10 DEF OtherRings
  <2>4. DOMAIN o.ring[c] = 1 .. cap_for(c) /\ DOMAIN p.ring[c] = 1 .. cap_for(c)
    BY <1>1, <1>4, <1>10
  <2> QED
    BY <1>1, <1>8, <1>9, <2>1, <2>2, <2>3, <2>4 DEF Record
<1>12. p.debt[c] <= p.len[c] /\ p.low[c] <= p.len[c]
  BY <1>3, <1>5, <1>10
<1>13. OverflowOK(p)
  BY <1>10, <1>11, <1>12, RecordLess
<1> QED
  BY <1>8, <1>10, <1>11, <1>13 DEF Lesser

Newest(o, c) == Slot(o, c, o.len[c] - 1)

LEMMA ReloadSound ==
    ASSUME setup \in Setups, NEW o, OverflowOK(o), NEW c \in DepotClasses, o.len[c] > 0
    PROVE  /\ Lesser(o, reload(o, c), c, Newest(o, c))
           /\ reload(o, c) = Less(o, c, Newest(o, c), o.head[c], Smaller(o.debt[c], o.len[c] - 1))
<1> DEFINE k == Newest(o, c)
           db == Smaller(o.debt[c], o.len[c] - 1)
           p == Less(o, c, k, o.head[c], db)
<1>1. /\ o \in Overflow /\ o.len \in [DepotClasses -> Nat] /\ o.head \in [DepotClasses -> Nat]
      /\ o.ring \in [DepotClasses -> Seq(Magazine)] /\ o.low \in [DepotClasses -> Nat]
      /\ o.debt \in [DepotClasses -> Nat] /\ RingOK(o, c) /\ cap_for(c) \in Nat
  BY ConstantsAre DEF OverflowOK, Overflow
<1>2. db \in 0 .. o.len[c] - 1 /\ o.len[c] \in Nat \ {0}
  BY <1>1 DEF Smaller
<1>3. k \in 1 .. cap_for(c)
  <2>1. o.len[c] - 1 \in 0 .. cap_for(c) - 1
    BY <1>1, <1>2 DEF RingOK
  <2> QED
    BY <1>1, <2>1, SlotIs DEF Newest
<1> HIDE DEF k, db
<1>4. p.head[c] = o.head[c] /\ p.len[c] = o.len[c] - 1 /\ p.head = o.head
  BY <1>1 DEF Less, Overflow
<1>5. reload(o, c) = p
  <2>1. Shortened(o, c, k) = [o EXCEPT !.ring = [o.ring EXCEPT ![c] = [o.ring[c] EXCEPT ![k] = <<>>]],
                                        !.bytes = o.bytes - mag_bytes[c],
                                        !.len = [o.len EXCEPT ![c] = o.len[c] - 1],
                                        !.low = [o.low EXCEPT ![c] = LowAfter(o, c)]]
    BY <1>1 DEF Shortened, Overflow
  <2>2. [o.head EXCEPT ![c] = o.head[c]] = o.head
    BY <1>1
  <2>3. reload(o, c) = [Shortened(o, c, k) EXCEPT !.debt[c] = Smaller(@, o.len[c] - 1)]
    BY DEF reload, Newest, k
  <2> QED
    BY <1>1, <2>1, <2>2, <2>3 DEF Less, Overflow, db
<1> HIDE DEF p
<1>6. /\ InUse(o, c) = InUse(p, c) \cup {k} /\ k \notin InUse(p, c) /\ RingOK(p, c)
  <2>1. RingOK(p, c) /\ p.len[c] < cap_for(c) /\ o.len[c] = p.len[c] + 1
    BY <1>1, <1>2, <1>4 DEF RingOK
  <2>2. Slot(p, c, p.len[c]) = k
    BY <1>4 DEF Slot, Newest, k
  <2> QED
    BY <1>4, <2>1, <2>2, UseGrows
<1>7. Lesser(o, p, c, k)
  BY <1>1, <1>2, <1>3, <1>6, LessSound DEF p
<1> QED
  BY <1>5, <1>7 DEF p, k, db

LEMMA PopSound ==
    ASSUME setup \in Setups, NEW o, OverflowOK(o), NEW c \in DepotClasses, o.len[c] > 0
    PROVE  Lesser(o, pop_oldest(o, c), c, Slot(o, c, 0))
<1> DEFINE k == Slot(o, c, 0)
           db == Larger(o.debt[c] - 1, 0)
           hd == Slot(o, c, 1) - 1
           p == Less(o, c, k, hd, db)
<1>1. /\ o \in Overflow /\ o.len \in [DepotClasses -> Nat] /\ o.head \in [DepotClasses -> Nat]
      /\ o.ring \in [DepotClasses -> Seq(Magazine)] /\ o.low \in [DepotClasses -> Nat]
      /\ o.debt \in [DepotClasses -> Nat] /\ RingOK(o, c) /\ cap_for(c) \in Nat
      /\ o.debt[c] <= o.len[c]
  BY ConstantsAre DEF OverflowOK, Overflow, BooksBalance
<1>2. db \in 0 .. o.len[c] - 1 /\ o.len[c] \in Nat \ {0}
  BY <1>1 DEF Larger
<1> HIDE DEF k, db
<1>3. p.head[c] = hd /\ p.len[c] = o.len[c] - 1
  BY <1>1 DEF Less, Overflow
<1>4. pop_oldest(o, c) = p
  <2>1. Shortened(o, c, k) = [o EXCEPT !.ring = [o.ring EXCEPT ![c] = [o.ring[c] EXCEPT ![k] = <<>>]],
                                        !.bytes = o.bytes - mag_bytes[c],
                                        !.len = [o.len EXCEPT ![c] = o.len[c] - 1],
                                        !.low = [o.low EXCEPT ![c] = LowAfter(o, c)]]
    BY <1>1 DEF Shortened, Overflow
  <2>2. pop_oldest(o, c) = [Shortened(o, c, k) EXCEPT !.head[c] = hd, !.debt[c] = Larger(@ - 1, 0)]
    BY DEF pop_oldest, k
  <2> QED
    BY <1>1, <2>1, <2>2 DEF Less, Overflow, db
<1> HIDE DEF p
<1>5. /\ InUse(o, c) = InUse(p, c) \cup {k} /\ k \notin InUse(p, c) /\ RingOK(p, c)
      /\ k \in 1 .. cap_for(c)
  BY <1>1, <1>3, UseShrinks DEF k
<1>6. hd \in Nat
  BY <1>3, <1>5 DEF RingOK
<1> HIDE DEF hd
<1>7. Lesser(o, p, c, k)
  BY <1>2, <1>5, <1>6, LessSound DEF p
<1> QED
  BY <1>4, <1>7 DEF k

(* What the ring of a class keeps.                                         *)
InRing(o, d, tag) == Cardinality(Places(Records(o, d), tag))

LEMMA SameRing ==
    \A o, p, d : SameUse(o, p, d) => \A tag : InRing(p, d, tag) = InRing(o, d, tag)
<1> SUFFICES ASSUME NEW o, NEW p, NEW d, SameUse(o, p, d), NEW tag
             PROVE  InRing(p, d, tag) = InRing(o, d, tag)
  OBVIOUS
<1>1. InUse(p, d) = InUse(o, d) /\ p.ring[d] = o.ring[d]
  BY SameUseIs DEF SameUse
<1>2. Records(p, d) = Records(o, d)
  BY <1>1, Zenon DEF Records
<1> QED
  BY <1>2 DEF InRing

(* One magazine m more in the ring of c.                                   *)
Stored(o, p, c, m) ==
    /\ \A d \in DepotClasses : \A tag :
         InRing(p, d, tag) = InRing(o, d, tag) + IF d = c THEN Number(m, tag) ELSE 0
    /\ \A d \in DepotClasses : p.len[d] = o.len[d] + IF d = c THEN 1 ELSE 0
    /\ p.armed = o.armed /\ p.starved = o.starved /\ p.bytes = o.bytes + mag_bytes[c]

LEMMA InRingType ==
    ASSUME setup \in Setups, NEW o, NEW d \in DepotClasses, RingOK(o, d), NEW tag
    PROVE  InRing(o, d, tag) \in Nat
<1>1. IsFiniteSet(DOMAIN Records(o, d))
  BY SlotIs DEF Records
<1> QED
  BY <1>1, PlacesFinite DEF InRing

LEMMA RecordStored ==
    ASSUME setup \in Setups, NEW o, NEW p, NEW c \in DepotClasses, NEW k, Record(o, p, c, k),
           Alike(o, p), NEW m \in Magazine, m = p.ring[c][k],
           \A d \in DepotClasses : RingOK(o, d)
    PROVE  Stored(o, p, c, m)
<1>1. ASSUME NEW d \in DepotClasses, NEW tag
      PROVE  InRing(p, d, tag) = InRing(o, d, tag) + IF d = c THEN Number(m, tag) ELSE 0
  <2>1. CASE d = c
    <3>1. /\ RingOK(o, c) /\ InUse(p, c) = InUse(o, c) \cup {k} /\ k \notin InUse(o, c)
          /\ \A i \in InUse(o, c) : p.ring[c][i] = o.ring[c][i]
          /\ p.ring[c][k] \in Magazine
      BY DEF Record
    <3>2. Cardinality(Places(Records(p, c), tag))
            = Cardinality(Places(Records(o, c), tag)) + Number(p.ring[c][k], tag)
      BY <3>1, RecordsAdd
    <3> QED
      BY <2>1, <3>2 DEF InRing
  <2>2. CASE d # c
    <3>1. SameUse(o, p, d)
      BY <2>2 DEF Record, OtherRings, SameUse
    <3>2. InRing(p, d, tag) = InRing(o, d, tag)
      BY <3>1, SameRing
    <3> QED
      BY <2>2, <3>2, InRingType
  <2> QED
    BY <2>1, <2>2
<1>2. ASSUME NEW d \in DepotClasses
      PROVE  p.len[d] = o.len[d] + IF d = c THEN 1 ELSE 0
  <2>1. o.len[d] \in Nat
    BY OverflowIs DEF Record
  <2> QED
    BY <2>1 DEF Record, OtherRings
<1>3. p.armed = o.armed /\ p.starved = o.starved /\ p.bytes = o.bytes + mag_bytes[c]
  BY DEF Alike, Record
<1> QED
  BY <1>1, <1>2, <1>3 DEF Stored

(* The same records, in the same places.                                   *)
Spared(o, r) ==
    /\ r \in Overflow /\ (o.reserved => r.reserved)
    /\ r.ring = o.ring /\ r.len = o.len /\ r.head = o.head /\ r.bytes = o.bytes
    /\ \A d \in DepotClasses : /\ o.len[d] = 0 \/ r.committed[d] >= o.committed[d]
                               /\ r.debt[d] <= r.len[d] /\ r.low[d] <= r.len[d]

LEMMA SparedSound ==
    ASSUME setup \in Setups, NEW o, OverflowOK(o), NEW r, Spared(o, r)
    PROVE  OverflowOK(r) /\ \A d \in DepotClasses : \A tag : InRing(r, d, tag) = InRing(o, d, tag)
<1>1. \A d \in DepotClasses : SameUse(o, r, d)
  BY DEF Spared, SameUse
<1>2. \A d \in DepotClasses : InUse(r, d) = InUse(o, d) /\ RingOK(r, d)
  BY <1>1, SameUseIs DEF OverflowOK
<1>3. r \in Overflow /\ o \in Overflow /\ BooksBalance(o) /\ Unbacked(o)
  BY DEF Spared, OverflowOK
<1>4. ASSUME NEW d \in DepotClasses, NEW i \in InUse(r, d)
      PROVE  i <= r.committed[d] /\ Len(r.ring[d][i]) = TCACHE_CAP
  <2>1. i <= o.committed[d] /\ Len(o.ring[d][i]) = TCACHE_CAP
    BY <1>2, <1>3, <1>4 DEF BooksBalance
  <2>2. i \in Nat
    BY <1>2, <1>4, SlotIs
  <2>4. o.len[d] # 0
    BY <1>2, <1>4 DEF InUse
  <2>3. o.committed[d] \in Nat /\ r.committed[d] \in Nat /\ r.committed[d] >= o.committed[d]
    BY <1>3, <2>4, OverflowIs DEF Spared
  <2> QED
    BY <2>1, <2>2, <2>3 DEF Spared
<1>5. BooksBalance(r)
  <2>1. r.bytes = Sum([d \in DepotClasses |-> r.len[d] * mag_bytes[d]]) /\ r.bytes <= depot_budget
    BY <1>3 DEF BooksBalance, Spared
  <2> QED
    BY <1>4, <2>1 DEF BooksBalance, Spared
<1>6. Unbacked(r)
  BY <1>3 DEF Unbacked, Spared
<1>7. \A d \in DepotClasses : DOMAIN r.ring[d] = 1 .. cap_for(d)
  BY DEF OverflowOK, Spared
<1>8. \A d \in DepotClasses : \A tag : InRing(r, d, tag) = InRing(o, d, tag)
  BY <1>1, SameRing
<1> QED
  BY <1>2, <1>3, <1>5, <1>6, <1>7, <1>8 DEF OverflowOK

LEMMA ReservedIs ==
    ASSUME setup \in Setups, NEW o, OverflowOK(o), NEW c \in DepotClasses, NEW os
    PROVE  LET r == ensure_reserved(o, os)
           IN  Spared(o, r) /\ OverflowOK(r) /\ r.armed = o.armed /\ r.starved = o.starved
<1> DEFINE r == ensure_reserved(o, os)
<1> HIDE DEF r
<1> SUFFICES Spared(o, r) /\ r.armed = o.armed /\ r.starved = o.starved
  BY SparedSound DEF r
<1>1. /\ o \in Overflow /\ o.committed \in [DepotClasses -> Nat]
      /\ \A d \in DepotClasses : o.committed[d] \in Nat /\ o.len[d] \in Nat
      /\ \A d \in DepotClasses : o.debt[d] <= o.len[d] /\ o.low[d] <= o.len[d]
  BY DEF OverflowOK, BooksBalance, Overflow
<1>2. CASE r = o
  BY <1>1, <1>2 DEF Spared
<1>3. CASE r = [o EXCEPT !.reserve_failed = TRUE]
  <2>1. r \in Overflow
    BY <1>1, <1>3 DEF Overflow
  <2>2. /\ (o.reserved => r.reserved) /\ r.armed = o.armed /\ r.starved = o.starved
        /\ r.ring = o.ring /\ r.len = o.len /\ r.head = o.head /\ r.bytes = o.bytes
        /\ r.committed = o.committed /\ r.debt = o.debt /\ r.low = o.low
    BY <1>1, <1>3 DEF Overflow
  <2>3. \A d \in DepotClasses : /\ r.committed[d] >= o.committed[d]
                                /\ r.debt[d] <= r.len[d] /\ r.low[d] <= r.len[d]
    BY <1>1, <2>2
  <2> QED
    BY <2>1, <2>2, <2>3, Zenon DEF Spared
<1>4. CASE ~ o.reserved
           /\ r = [o EXCEPT !.reserved = TRUE, !.committed[FirstClass] = 1, !.epoch_len = EPOCH_MIN]
  <2> DEFINE cm == [o.committed EXCEPT ![FirstClass] = 1]
  <2>0. FirstClass \in DepotClasses
    <3>1. DepotClasses \in SUBSET Nat /\ DepotClasses # {}
      BY ConstantsAre
    <3>2. \E x \in DepotClasses : \A y \in DepotClasses : x =< y
      BY <3>1, HasLeast
    <3> QED
      BY <3>2 DEF FirstClass
  <2>1. cm \in [DepotClasses -> Nat]
    BY <1>1
  <2>2. r = [o EXCEPT !.reserved = TRUE, !.committed = cm, !.epoch_len = EPOCH_MIN]
    BY <1>1, <1>4 DEF Overflow
  <2>3. EPOCH_MIN \in Nat
    BY ConstantsAre
  <2>4. \A d \in DepotClasses : o.len[d] = 0
    BY <1>4 DEF OverflowOK, Unbacked
  <2> HIDE DEF cm
  <2>5. r \in Overflow
    BY <1>1, <2>1, <2>2, <2>3 DEF Overflow
  <2>6. /\ r.reserved /\ r.armed = o.armed /\ r.starved = o.starved
        /\ r.ring = o.ring /\ r.len = o.len /\ r.head = o.head /\ r.bytes = o.bytes
        /\ r.committed = cm /\ r.debt = o.debt /\ r.low = o.low
    BY <1>1, <2>2 DEF Overflow
  <2>7. \A d \in DepotClasses : r.debt[d] <= r.len[d] /\ r.low[d] <= r.len[d]
    BY <1>1, <2>6
  <2> QED
    BY <2>4, <2>5, <2>6, <2>7, Zenon DEF Spared
<1> QED
  BY <1>2, <1>3, <1>4 DEF ensure_reserved, r

(* The same magazines in the rings.                                        *)
Unstored(o, p) ==
    /\ \A d \in DepotClasses : \A tag : InRing(p, d, tag) = InRing(o, d, tag)
    /\ p.len = o.len /\ p.armed = o.armed /\ p.starved = o.starved /\ p.bytes = o.bytes

LEMMA ParkSound ==
    ASSUME setup \in Setups, NEW o, OverflowOK(o), NEW c \in DepotClasses, NEW m \in Full, NEW os
    PROVE  LET p == Park(o, c, m, os)
           IN  /\ OverflowOK(p.o)
               /\ p.ok => Stored(o, p.o, c, m)
               /\ ~ p.ok => Unstored(o, p.o)
<1> DEFINE p == Park(o, c, m, os)
           r == ensure_reserved(o, os)
           ok == /\ r.reserved
                 /\ r.len[c] < cap_for(c)
                 /\ os = "no_commit" => Slot(r, c, r.len[c]) <= r.committed[c]
<1>1. CASE o.bytes + mag_bytes[c] > depot_budget
  <2>1. p = [ok |-> FALSE, o |-> o]
    BY <1>1 DEF Park
  <2>2. p.o = o /\ ~ p.ok
    BY <2>1
  <2> HIDE DEF p
  <2> QED
    BY <2>2 DEF Unstored, p
<1>2. CASE ~ (o.bytes + mag_bytes[c] > depot_budget)
  <2>1. p = [ok |-> ok, o |-> IF ok THEN Parked(r, c, m) ELSE r]
    BY <1>2 DEF Park
  <2>2. (p.ok <=> ok) /\ p.o = IF ok THEN Parked(r, c, m) ELSE r
    <3> HIDE DEF ok
    <3> QED
      BY <2>1
  <2>3. Spared(o, r) /\ OverflowOK(r) /\ r.armed = o.armed /\ r.starved = o.starved
    BY ReservedIs
  <2> HIDE DEF p, r
  <2>4. /\ \A d \in DepotClasses : \A tag : InRing(r, d, tag) = InRing(o, d, tag)
        /\ r.len = o.len /\ r.bytes = o.bytes
    BY <2>3, SparedSound DEF Spared
  <2>5. CASE ok
    <3>1. r.reserved /\ r.len[c] < cap_for(c)
      BY <2>5
    <3>2. r.bytes + mag_bytes[c] <= depot_budget
      <4>1. o.bytes \in Nat /\ mag_bytes[c] \in Nat /\ depot_budget \in Nat
        BY ConstantsAre DEF OverflowOK, Overflow
      <4> QED
        BY <1>2, <2>4, <4>1
    <3> DEFINE q == Parked(r, c, m)
               k == Slot(r, c, r.len[c])
    <3>3. /\ OverflowOK(q) /\ Alike(r, q) /\ Record(r, q, c, k)
          /\ q.ring[c][k] = m
      BY <2>3, <3>1, <3>2, ParkedSound
    <3> HIDE DEF q, k
    <3>4. m \in Magazine /\ \A d \in DepotClasses : RingOK(r, d)
      BY <2>3, MagazineIs, ConstantsAre DEF OverflowOK
    <3>5. Stored(r, q, c, m)
      BY <3>3, <3>4, RecordStored
    <3>6. Stored(o, q, c, m)
      BY <2>3, <2>4, <3>5 DEF Stored
    <3>7. p.o = q /\ p.ok
      BY <2>2, <2>5 DEF q
    <3> QED
      BY <3>3, <3>6, <3>7 DEF p
  <2>6. CASE ~ ok
    <3>1. p.o = r /\ ~ p.ok
      BY <2>2, <2>6
    <3>2. Unstored(o, r)
      BY <2>3, <2>4 DEF Unstored
    <3> QED
      BY <2>3, <3>1, <3>2 DEF p
  <2> QED
    BY <2>5, <2>6
<1> QED
  BY <1>1, <1>2

(* Off the ring: what was there, m, is a full magazine.                    *)
Drawn(o, p, c, m) == OverflowOK(p) /\ Stored(p, o, c, m) /\ m \in Full

LEMMA LesserDraws ==
    ASSUME setup \in Setups, NEW o, OverflowOK(o), NEW c \in DepotClasses, NEW p, NEW k,
           Lesser(o, p, c, k)
    PROVE  Drawn(o, p, c, o.ring[c][k])
<1> DEFINE m == o.ring[c][k]
<1>1. OverflowOK(p) /\ Alike(o, p) /\ Record(p, o, c, k)
  BY DEF Lesser
<1>2. k \in InUse(o, c) /\ k \in DOMAIN o.ring[c] /\ o.ring[c] \in Seq(Magazine)
  BY <1>1, OverflowIs DEF Record, OverflowOK
<1>3. m \in Magazine
  <2> DEFINE r == o.ring[c]
  <2>1. r \in Seq(Magazine) /\ k \in DOMAIN r
    BY <1>2
  <2> HIDE DEF r
  <2>2. r[k] \in Magazine
    BY <2>1
  <2> QED
    BY <2>2 DEF r
<1>4. Len(m) = TCACHE_CAP
  BY <1>2 DEF OverflowOK, BooksBalance
<1>5. m \in Full
  BY <1>3, <1>4, MagazineIs, ConstantsAre
<1>6. Alike(p, o)
  BY <1>1 DEF Alike
<1>7. Stored(p, o, c, m)
  <2>1. \A d \in DepotClasses : RingOK(p, d)
    BY <1>1 DEF OverflowOK
  <2> HIDE DEF m
  <2>2. m = o.ring[c][k]
    BY DEF m
  <2> QED
    BY <1>1, <1>3, <1>6, <2>1, <2>2, RecordStored
<1> QED
  BY <1>1, <1>5, <1>7 DEF Drawn

-----------------------------------------------------------------------------
(* A heap with other classes and another overflow                          *)

Rung(o) == o.bytes > 0 => o.armed = Classes

ClassOK(o, x, d) ==
    /\ x \in PerClass /\ Len(x.slots) <= FREE_PARK_CAP[d]
    /\ Len(x.floor) <= IF d \in DepotClasses THEN DEPOT_K[d] ELSE 0
    /\ d \in o.armed <=> "TICK" \in x.marks
    /\ d \in DepotClasses =>
         /\ x.ovf = IF o.len[d] > 0 THEN 1 ELSE 0
         /\ x.limit = open_limit(d) \/ (x.limit = DEPOT_K[d] /\ d \in o.starved)

Content(x, o, d, tag) ==
    Number(x.slots, tag) + Cardinality(Places(x.floor, tag))
    + IF d \in DepotClasses THEN InRing(o, d, tag) ELSE 0

LEMMA DepotIs ==
    ASSUME setup \in Setups, NEW h \in Heaps
    PROVE  Shape(h) /\ DepotSound(h) <=>
             /\ OverflowOK(h.ovf) /\ Rung(h.ovf)
             /\ \A d \in Classes : ClassOK(h.ovf, h.class[d], d)
<1>1. h.ovf \in Overflow /\ h.class \in [Classes -> PerClass]
  BY DEF Heaps
<1>2. DepotClasses \subseteq Classes /\ \A d \in DepotClasses : cap_for(d) \in Nat
  BY ConstantsAre
<1>3. h.ovf.armed \subseteq Classes
  BY <1>1 DEF Overflow
<1>4. ASSUME Shape(h), DepotSound(h)
      PROVE  /\ OverflowOK(h.ovf) /\ Rung(h.ovf)
             /\ \A d \in Classes : ClassOK(h.ovf, h.class[d], d)
  <2>1. OverflowOK(h.ovf)
    BY <1>4, SoundOverflow DEF DepotSound
  <2>2. Rung(h.ovf)
    BY <1>4 DEF Rung, DepotSound, RecordsAreReachable
  <2>3. ASSUME NEW d \in Classes
        PROVE  ClassOK(h.ovf, h.class[d], d)
    <3>1. h.class[d] \in PerClass
      BY <1>1
    <3>2. /\ Len(h.class[d].slots) <= FREE_PARK_CAP[d]
          /\ Len(h.class[d].floor) <= IF d \in DepotClasses THEN DEPOT_K[d] ELSE 0
      BY <1>4 DEF Shape, WithinCaps
    <3>3. d \in h.ovf.armed <=> "TICK" \in h.class[d].marks
      BY <1>4 DEF DepotSound, RecordsAreReachable
    <3>4. d \in DepotClasses =>
            /\ h.class[d].ovf = IF h.ovf.len[d] > 0 THEN 1 ELSE 0
            /\ h.class[d].limit = open_limit(d) \/ (h.class[d].limit = DEPOT_K[d] /\ d \in h.ovf.starved)
      BY <1>4 DEF DepotSound, RecordsAreReachable, LatchIsStarved
    <3> QED
      BY <3>1, <3>2, <3>3, <3>4 DEF ClassOK
  <2> QED
    BY <2>1, <2>2, <2>3
<1>5. ASSUME OverflowOK(h.ovf), Rung(h.ovf), \A d \in Classes : ClassOK(h.ovf, h.class[d], d)
      PROVE  Shape(h) /\ DepotSound(h)
  <2>1. WithinCaps(h)
    <3>1. \A d \in Classes : /\ Len(h.class[d].slots) <= FREE_PARK_CAP[d]
                             /\ Len(h.class[d].floor) <= IF d \in DepotClasses THEN DEPOT_K[d] ELSE 0
      BY <1>5 DEF ClassOK
    <3>2. \A d \in DepotClasses : /\ DOMAIN h.ovf.ring[d] = 1 .. cap_for(d)
                                  /\ h.ovf.len[d] <= cap_for(d) /\ h.ovf.head[d] <= cap_for(d)
      BY <1>2, <1>5 DEF OverflowOK, RingOK
    <3> QED
      BY <3>1, <3>2 DEF WithinCaps
  <2>2. RecordsAreReachable(h)
    <3>1. \A d \in DepotClasses : h.class[d].ovf = IF h.ovf.len[d] > 0 THEN 1 ELSE 0
      BY <1>2, <1>5 DEF ClassOK
    <3>2. h.ovf.armed = {d \in Classes : "TICK" \in h.class[d].marks}
      BY <1>3, <1>5 DEF ClassOK
    <3>3. h.ovf.bytes > 0 => h.ovf.armed = Classes
      BY <1>5 DEF Rung
    <3> QED
      BY <3>1, <3>2, <3>3 DEF RecordsAreReachable
  <2>3. LatchIsStarved(h)
    BY <1>2, <1>5 DEF ClassOK, LatchIsStarved
  <2> QED
    BY <1>5, <2>1, <2>2, <2>3 DEF Shape, DepotSound, OverflowOK
<1> QED
  BY <1>4, <1>5

MarksOK(x, y) == y.virgin_mask = {} \/ (y.virgin_mask = x.virgin_mask /\ y.slots = x.slots)

Alter(h, cl, o) == [h EXCEPT !.class = cl, !.ovf = o]

Alters(h, cl, o) ==
    /\ cl \in [Classes -> PerClass] /\ OverflowOK(o) /\ Rung(o)
    /\ \A d \in Classes : ClassOK(o, cl[d], d) /\ MarksOK(h.class[d], cl[d])

Balanced(h, cl, o) ==
    \A d \in Classes : \A tag : Content(cl[d], o, d, tag) = Cached(h, d, tag)

LEMMA AlterBase ==
    ASSUME setup \in Setups, NEW h, Base(h), NEW cl, NEW o, Alters(h, cl, o),
           NEW g, g = Alter(h, cl, o)
    PROVE  /\ Base(g) /\ g \in Heaps /\ g.class = cl /\ g.ovf = o /\ g.seg = h.seg /\ g.free = h.free
           /\ \A d, tag : Cached(g, d, tag) = Content(cl[d], o, d, tag)
<1>1. h \in Heaps /\ Shape(h) /\ VirginIn(h) /\ Fresh(h)
  BY DEF Base, Shape
<1>2. cl \in [Classes -> PerClass] /\ o \in Overflow
  BY DEF Alters, OverflowOK
<1>3. /\ g \in Heaps /\ g.class = cl /\ g.ovf = o /\ g.seg = h.seg /\ g.free = h.free
  BY <1>1, <1>2 DEF Alter, Heaps
<1>4. Shape(g) /\ DepotSound(g)
  BY <1>3, DepotIs DEF Alters
<1>5. VirginIn(g)
  <2>1. Marked(h, g)
    <3> SUFFICES ASSUME NEW d \in Classes, NEW i \in g.class[d].virgin_mask
                 PROVE  h.seg.zeroed /\ i <= Len(g.class[d].slots) /\ g.class[d].slots[i] = "it"
      BY DEF Marked
    <3>1. MarksOK(h.class[d], g.class[d])
      BY <1>3 DEF Alters
    <3>2. i \in h.class[d].virgin_mask /\ g.class[d].slots = h.class[d].slots
      BY <3>1 DEF MarksOK
    <3> QED
      BY <1>1, <3>2 DEF VirginIn
  <2> QED
    BY <1>3, <1>4, <2>1, VirginKept
<1>6. Fresh(g)
  BY <1>1, <1>3 DEF Fresh
<1>7. \A d, tag : Cached(g, d, tag) = Content(cl[d], o, d, tag)
  BY <1>3 DEF Cached, Content, InRing
<1> QED
  BY <1>3, <1>4, <1>5, <1>6, <1>7 DEF Base

LEMMA AlterSound ==
    ASSUME setup \in Setups, NEW h, Sound(h), NEW cl, NEW o, Alters(h, cl, o),
           Balanced(h, cl, o), NEW g, g = Alter(h, cl, o)
    PROVE  Keeps(h, g) /\ g.class = cl /\ g.ovf = o
<1>1. Base(h) /\ InHand(h, 0, 0)
  BY DEF Sound
<1>2. /\ Base(g) /\ g \in Heaps /\ g.class = cl /\ g.ovf = o /\ g.seg = h.seg /\ g.free = h.free
      /\ \A d, tag : Cached(g, d, tag) = Content(cl[d], o, d, tag)
  BY <1>1, AlterBase
<1>3. \A d \in Classes : \A tag : Cached(g, d, tag) = Cached(h, d, tag)
  BY <1>2 DEF Balanced
<1>4. InHand(g, 0, 0)
  BY <1>1, <1>2, <1>3 DEF InHand, Held
<1>5. \A d \in Classes : Out(g, d) = Out(h, d)
  BY <1>2, <1>3 DEF Out
<1> QED
  BY <1>2, <1>4, <1>5 DEF Keeps, Sound

(* Another heap that keeps the same blocks at the same places.             *)
LEMMA KeepsAgain ==
    \A h, g, x : Keeps(h, g) /\ Keeps(g, x) => Keeps(h, x)
BY DEF Keeps

LEMMA KeepsSelf ==
    \A h : Sound(h) => Keeps(h, h)
BY DEF Keeps

LEMMA SoundIs ==
    ASSUME setup \in Setups, NEW h, Sound(h)
    PROVE  /\ Base(h) /\ Shape(h) /\ h \in Heaps /\ h.ovf \in Overflow
           /\ h.class \in [Classes -> PerClass]
           /\ OverflowOK(h.ovf) /\ Rung(h.ovf)
           /\ \A d \in Classes : ClassOK(h.ovf, h.class[d], d)
           /\ \A d, tag : Cached(h, d, tag) = Content(h.class[d], h.ovf, d, tag)
<1>1. Base(h) /\ Shape(h) /\ DepotSound(h) /\ h \in Heaps
  BY DEF Sound, Base, Shape
<1>2. h.ovf \in Overflow /\ h.class \in [Classes -> PerClass]
  BY <1>1 DEF Heaps
<1>3. \A d, tag : Cached(h, d, tag) = Content(h.class[d], h.ovf, d, tag)
  BY DEF Cached, Content, InRing
<1> QED
  BY <1>1, <1>2, <1>3, DepotIs

-----------------------------------------------------------------------------
(* Steps that leave the magazines alone, and first those that move no block *)

Stays(h, g) == Keeps(h, g) /\ \A c \in Classes : g.class[c].slots = h.class[c].slots

LEMMA StaysAgain ==
    \A h, g, x : Stays(h, g) /\ Stays(g, x) => Stays(h, x)
BY DEF Stays, Keeps

LEMMA StaysSelf ==
    \A h : Sound(h) => Stays(h, h)
BY DEF Stays, Keeps

Quiet(h, cl, o) ==
    /\ cl \in [Classes -> PerClass] /\ Spared(h.ovf, o) /\ Rung(o)
    /\ \A d \in Classes :
         /\ ClassOK(o, cl[d], d) /\ cl[d].slots = h.class[d].slots
         /\ cl[d].floor = h.class[d].floor /\ cl[d].virgin_mask = h.class[d].virgin_mask

LEMMA QuietSound ==
    ASSUME setup \in Setups, NEW h, Sound(h), NEW cl, NEW o, Quiet(h, cl, o),
           NEW g, g = Alter(h, cl, o)
    PROVE  Stays(h, g) /\ g.class = cl /\ g.ovf = o
<1>1. OverflowOK(h.ovf) /\ \A d, tag : Cached(h, d, tag) = Content(h.class[d], h.ovf, d, tag)
  BY SoundIs
<1>2. OverflowOK(o) /\ \A d \in DepotClasses : \A tag : InRing(o, d, tag) = InRing(h.ovf, d, tag)
  BY <1>1, SparedSound DEF Quiet
<1>3. Alters(h, cl, o)
  BY <1>2 DEF Alters, Quiet, MarksOK
<1>4. Balanced(h, cl, o)
  <2> SUFFICES ASSUME NEW d \in Classes, NEW tag
               PROVE  Content(cl[d], o, d, tag) = Content(h.class[d], h.ovf, d, tag)
    BY <1>1 DEF Balanced
  <2>1. cl[d].slots = h.class[d].slots /\ cl[d].floor = h.class[d].floor
    BY DEF Quiet
  <2> QED
    BY <1>2, <2>1, Zenon DEF Content
<1>5. Keeps(h, g) /\ g.class = cl /\ g.ovf = o
  BY <1>3, <1>4, AlterSound
<1> QED
  BY <1>5 DEF Stays, Quiet

LEMMA LenSum ==
    ASSUME setup \in Setups, NEW o \in Overflow
    PROVE  Sum(o.len) \in Nat
<1>1. o.len \in [DepotClasses -> Nat]
  BY DEF Overflow
<1>2. DOMAIN o.len = DepotClasses /\ Numbers(o.len, DepotClasses)
  BY <1>1 DEF Numbers
<1> QED
  BY <1>2, ConstantsAre, SumCounts

LEMMA EpochIs ==
    ASSUME setup \in Setups, NEW o, OverflowOK(o), NEW fp
    PROVE  LET p == end_epoch(o, fp)
           IN  Spared(o, p) /\ p.armed = o.armed /\ p.starved = o.starved
<1> DEFINE idle == DepotClasses \ (o.parked_in_epoch \cup fp)
           dt == [c \in DepotClasses |->
                    IF c \in idle THEN Smaller((o.low[c] + 1) \div 2, o.len[c]) ELSE 0]
           el == Larger(2 * Sum(o.len), EPOCH_MIN)
           p == end_epoch(o, fp)
<1>1. o \in Overflow /\ o.len \in [DepotClasses -> Nat] /\ o.low \in [DepotClasses -> Nat]
      /\ o.committed \in [DepotClasses -> Nat]
  BY DEF OverflowOK, Overflow
<1>2. Sum(o.len) \in Nat /\ EPOCH_MIN \in Nat
  BY <1>1, LenSum, ConstantsAre
<1>3. el \in Nat
  <2> HIDE DEF Sum
  <2> QED
    BY <1>2 DEF Larger
<1>4. dt \in [DepotClasses -> Nat] /\ \A d \in DepotClasses : dt[d] <= o.len[d]
  <2>1. ASSUME NEW d \in DepotClasses
        PROVE  Smaller((o.low[d] + 1) \div 2, o.len[d]) \in 0 .. o.len[d] /\ o.len[d] \in Nat
    <3>1. o.len[d] \in Nat /\ (o.low[d] + 1) \div 2 \in Nat
      BY <1>1
    <3> QED
      BY <3>1 DEF Smaller
  <2> HIDE DEF idle
  <2>2. ASSUME NEW d \in DepotClasses
        PROVE  dt[d] \in Nat /\ dt[d] <= o.len[d]
    <3>1. dt[d] = IF d \in idle THEN Smaller((o.low[d] + 1) \div 2, o.len[d]) ELSE 0
      OBVIOUS
    <3> HIDE DEF dt
    <3> QED
      BY <2>1, <3>1
  <2>3. dt = [d \in DepotClasses |-> dt[d]]
    OBVIOUS
  <2> HIDE DEF dt
  <2> QED
    BY <2>2, <2>3
<1>5. p = [o EXCEPT !.debt = dt, !.low = o.len, !.parked_in_epoch = {}, !.events = 0,
                    !.epoch_len = el]
  BY <1>1 DEF end_epoch, Overflow
<1> HIDE DEF p, dt, el
<1>6. p \in Overflow
  BY <1>1, <1>3, <1>4, <1>5 DEF Overflow
<1>7. /\ (o.reserved => p.reserved) /\ p.armed = o.armed /\ p.starved = o.starved
      /\ p.ring = o.ring /\ p.len = o.len /\ p.head = o.head /\ p.bytes = o.bytes
      /\ p.committed = o.committed /\ p.debt = dt /\ p.low = o.len
  BY <1>1, <1>5 DEF Overflow
<1>8. \A d \in DepotClasses : /\ p.committed[d] >= o.committed[d]
                              /\ p.debt[d] <= p.len[d] /\ p.low[d] <= p.len[d]
  BY <1>1, <1>4, <1>7
<1> QED
  BY <1>6, <1>7, <1>8 DEF Spared, p

LEMMA EpochEndedSound ==
    ASSUME setup \in Setups, NEW h, Sound(h)
    PROVE  Stays(h, EpochEnded(h))
<1> DEFINE fp == {c \in DepotClasses : "FLOOR" \in h.class[c].marks}
           o == end_epoch(h.ovf, fp)
           cl == [c \in Classes |-> [h.class[c] EXCEPT !.marks = h.class[c].marks \ {"FLOOR"}]]
<1>1. /\ h \in Heaps /\ h.class \in [Classes -> PerClass]
      /\ OverflowOK(h.ovf) /\ Rung(h.ovf)
      /\ \A d \in Classes : ClassOK(h.ovf, h.class[d], d)
  BY SoundIs
<1>2. EpochEnded(h) = h \/ EpochEnded(h) = Alter(h, cl, o)
  BY <1>1 DEF EpochEnded, Alter, Heaps
<1>3. Spared(h.ovf, o) /\ o.armed = h.ovf.armed /\ o.starved = h.ovf.starved
  BY <1>1, EpochIs
<1> HIDE DEF o
<1>4. ASSUME NEW d \in Classes
      PROVE  /\ cl[d] \in PerClass
             /\ cl[d].slots = h.class[d].slots /\ cl[d].floor = h.class[d].floor
             /\ cl[d].virgin_mask = h.class[d].virgin_mask /\ cl[d].ovf = h.class[d].ovf
             /\ cl[d].limit = h.class[d].limit /\ cl[d].marks = h.class[d].marks \ {"FLOOR"}
  BY <1>1 DEF PerClass
<1>5. cl \in [Classes -> PerClass]
  BY <1>4
<1> HIDE DEF cl
<1>6. o.len = h.ovf.len /\ o.bytes = h.ovf.bytes
  BY <1>3 DEF Spared
<1>7. ASSUME NEW d \in Classes
      PROVE  ClassOK(o, cl[d], d)
  <2>1. ClassOK(h.ovf, h.class[d], d)
    BY <1>1
  <2>2. "TICK" \in cl[d].marks <=> "TICK" \in h.class[d].marks
    BY <1>4
  <2> QED
    BY <1>3, <1>4, <1>6, <2>1, <2>2 DEF ClassOK
<1>8. Quiet(h, cl, o)
  <2>1. Rung(o)
    BY <1>1, <1>3, <1>6 DEF Rung
  <2> QED
    BY <1>3, <1>4, <1>5, <1>7, <2>1 DEF Quiet
<1>9. Stays(h, Alter(h, cl, o))
  BY <1>8, QuietSound
<1> QED
  BY <1>2, <1>9, StaysSelf

LEMMA UnstarvedSound ==
    ASSUME setup \in Setups, NEW h, Sound(h)
    PROVE  Stays(h, Unstarved(h))
<1> DEFINE R == Ready(h.ovf)
           o == [h.ovf EXCEPT !.starved = h.ovf.starved \ R]
           cl == [c \in Classes |-> IF c \in R THEN [h.class[c] EXCEPT !.limit = open_limit(c)]
                                    ELSE h.class[c]]
<1>1. /\ h \in Heaps /\ h.class \in [Classes -> PerClass] /\ h.ovf \in Overflow
      /\ OverflowOK(h.ovf) /\ Rung(h.ovf)
      /\ \A d \in Classes : ClassOK(h.ovf, h.class[d], d)
  BY SoundIs
<1>2. Unstarved(h) = Alter(h, cl, o)
  BY <1>1 DEF Unstarved, Alter, Heaps, Overflow
<1>3. /\ Spared(h.ovf, o) /\ o.armed = h.ovf.armed /\ o.starved = h.ovf.starved \ R
      /\ o.len = h.ovf.len /\ o.bytes = h.ovf.bytes
  <2>1. o \in Overflow
    BY <1>1 DEF Overflow
  <2>2. /\ (h.ovf.reserved => o.reserved) /\ o.armed = h.ovf.armed
        /\ o.starved = h.ovf.starved \ R
        /\ o.ring = h.ovf.ring /\ o.len = h.ovf.len /\ o.head = h.ovf.head /\ o.bytes = h.ovf.bytes
        /\ o.committed = h.ovf.committed /\ o.debt = h.ovf.debt /\ o.low = h.ovf.low
    BY <1>1 DEF Overflow
  <2>3. \A d \in DepotClasses :
          /\ h.ovf.committed[d] \in Nat
          /\ h.ovf.debt[d] <= h.ovf.len[d] /\ h.ovf.low[d] <= h.ovf.len[d]
    BY <1>1 DEF OverflowOK, BooksBalance, Overflow
  <2> HIDE DEF o
  <2>4. \A d \in DepotClasses : o.committed[d] >= h.ovf.committed[d]
    BY <2>2, <2>3
  <2> QED
    BY <2>1, <2>2, <2>3, <2>4 DEF Spared
<1> HIDE DEF o, R
<1>4. ASSUME NEW d \in Classes
      PROVE  /\ cl[d] \in PerClass
             /\ cl[d].slots = h.class[d].slots /\ cl[d].floor = h.class[d].floor
             /\ cl[d].virgin_mask = h.class[d].virgin_mask /\ cl[d].ovf = h.class[d].ovf
             /\ cl[d].limit = IF d \in R THEN open_limit(d) ELSE h.class[d].limit
             /\ cl[d].marks = h.class[d].marks
  <2>1. h.class[d] \in PerClass /\ open_limit(d) \in Nat
    BY <1>1, ConstantsAre
  <2>2. CASE d \in R
    <3>1. cl[d] = [h.class[d] EXCEPT !.limit = open_limit(d)]
      BY <2>2
    <3> HIDE DEF cl
    <3> QED
      BY <2>1, <2>2, <3>1 DEF PerClass
  <2>3. CASE d \notin R
    BY <2>1, <2>3
  <2> QED
    BY <2>2, <2>3
<1>5. cl \in [Classes -> PerClass]
  BY <1>4
<1> HIDE DEF cl
<1>7. ASSUME NEW d \in Classes
      PROVE  ClassOK(o, cl[d], d)
  <2>1. ClassOK(h.ovf, h.class[d], d)
    BY <1>1
  <2>2. d \in DepotClasses =>
         /\ cl[d].ovf = IF o.len[d] > 0 THEN 1 ELSE 0
         /\ cl[d].limit = open_limit(d) \/ (cl[d].limit = DEPOT_K[d] /\ d \in o.starved)
    BY <1>3, <1>4, <2>1 DEF ClassOK
  <2> QED
    BY <1>3, <1>4, <2>1, <2>2 DEF ClassOK
<1>8. Quiet(h, cl, o)
  <2>1. Rung(o)
    BY <1>1, <1>3 DEF Rung
  <2> QED
    BY <1>3, <1>4, <1>5, <1>7, <2>1 DEF Quiet
<1> QED
  BY <1>2, <1>8, QuietSound

LEMMA HintIs ==
    ASSUME NEW n \in Nat
    PROVE  HintAfter(n + 1) = IF n > 0 THEN 1 ELSE 0
BY DEF HintAfter

(* The oldest record of a class goes back to the segments.                 *)
Drop(h, c) ==
    [h EXCEPT !.ovf = pop_oldest(h.ovf, c),
              !.class = [h.class EXCEPT ![c] = [h.class[c] EXCEPT !.ovf = HintAfter(h.ovf.len[c])]]]

LEMMA DropSound ==
    ASSUME setup \in Setups, NEW h, Sound(h), NEW c \in DepotClasses, h.ovf.len[c] > 0
    PROVE  Stays(h, Flush(Drop(h, c), c, h.ovf.ring[c][Slot(h.ovf, c, 0)]))
<1> DEFINE m == h.ovf.ring[c][Slot(h.ovf, c, 0)]
           o == pop_oldest(h.ovf, c)
           y == [h.class[c] EXCEPT !.ovf = HintAfter(h.ovf.len[c])]
           cl == [h.class EXCEPT ![c] = y]
           x == Drop(h, c)
           g == Flush(x, c, m)
           j == Number(m, "it")
<1>1. /\ Base(h) /\ Shape(h) /\ h \in Heaps /\ h.ovf \in Overflow
      /\ h.class \in [Classes -> PerClass] /\ OverflowOK(h.ovf) /\ Rung(h.ovf)
      /\ \A d \in Classes : ClassOK(h.ovf, h.class[d], d)
      /\ \A d, tag : Cached(h, d, tag) = Content(h.class[d], h.ovf, d, tag)
  BY SoundIs
<1>2. c \in Classes /\ DepotClasses \subseteq Classes
  BY ConstantsAre
<1>3. Drawn(h.ovf, o, c, m)
  BY <1>1, PopSound, LesserDraws
<1>4. x = Alter(h, cl, o)
  BY <1>1 DEF Drop, Alter, Heaps
<1> HIDE DEF o, m, x
<1>5. OverflowOK(o) /\ o \in Overflow /\ m \in Full /\ m \in Seq(Tags)
      /\ (\A d \in DepotClasses : \A tag :
            InRing(h.ovf, d, tag) = InRing(o, d, tag) + IF d = c THEN Number(m, tag) ELSE 0)
      /\ (\A d \in DepotClasses : h.ovf.len[d] = o.len[d] + IF d = c THEN 1 ELSE 0)
      /\ h.ovf.armed = o.armed /\ h.ovf.starved = o.starved
      /\ h.ovf.bytes = o.bytes + mag_bytes[c]
  BY <1>3, MagazineIs DEF Drawn, Stored, OverflowOK
<1>6. \A d \in DepotClasses : o.len[d] \in Nat
  BY <1>5, OverflowIs
<1>7. y.ovf = IF o.len[c] > 0 THEN 1 ELSE 0
  <2>1. h.ovf.len[c] = o.len[c] + 1
    BY <1>5
  <2>2. HintAfter(h.ovf.len[c]) = IF o.len[c] > 0 THEN 1 ELSE 0
    BY <1>6, <2>1, HintIs
  <2> QED
    BY <1>1, <1>2, <2>2 DEF PerClass
<1>8. /\ y \in PerClass /\ y.slots = h.class[c].slots /\ y.floor = h.class[c].floor
      /\ y.virgin_mask = h.class[c].virgin_mask /\ y.limit = h.class[c].limit
      /\ y.marks = h.class[c].marks
  <2>1. HintAfter(h.ovf.len[c]) \in {0, 1} /\ h.class[c] \in PerClass
    BY <1>1, <1>2 DEF HintAfter
  <2> QED
    BY <2>1 DEF PerClass
<1> HIDE DEF y
<1>9. /\ cl \in [Classes -> PerClass]
      /\ cl[c] = y /\ \A d \in Classes : d # c => cl[d] = h.class[d]
  BY <1>1, <1>2, <1>8
<1> HIDE DEF cl
<1>10. ASSUME NEW d \in Classes
       PROVE  ClassOK(o, cl[d], d) /\ MarksOK(h.class[d], cl[d])
              /\ cl[d].slots = h.class[d].slots /\ cl[d].floor = h.class[d].floor
  <2>1. ClassOK(h.ovf, h.class[d], d)
    BY <1>1
  <2>2. CASE d = c
    BY <1>2, <1>5, <1>7, <1>8, <1>9, <2>1, <2>2 DEF ClassOK, MarksOK
  <2>3. CASE d # c
    <3>1. d \in DepotClasses => h.ovf.len[d] = o.len[d]
      BY <1>5, <1>6, <2>3
    <3> QED
      BY <1>5, <1>9, <2>1, <2>3, <3>1 DEF ClassOK, MarksOK
  <2> QED
    BY <2>2, <2>3
<1>11. Rung(o)
  <2>1. o.bytes \in Nat /\ mag_bytes[c] \in Nat
    BY <1>5, ConstantsAre DEF Overflow
  <2> QED
    BY <1>1, <1>5, <2>1 DEF Rung
<1>12. Alters(h, cl, o)
  BY <1>5, <1>9, <1>10, <1>11 DEF Alters
<1>13. /\ Base(x) /\ Shape(x) /\ x \in Heaps /\ x.class = cl /\ x.seg = h.seg /\ x.free = h.free
       /\ \A d, tag : Cached(x, d, tag) = Content(cl[d], o, d, tag)
  BY <1>1, <1>4, <1>12, AlterBase DEF Base
<1>14. ASSUME NEW d \in Classes, NEW tag
       PROVE  /\ Cached(x, d, tag) + (IF d = c THEN Number(m, tag) ELSE 0) = Cached(h, d, tag)
              /\ Cached(x, d, tag) \in Nat /\ Number(m, tag) \in Nat
  <2> DEFINE a == Number(h.class[d].slots, tag)
             b == Cardinality(Places(h.class[d].floor, tag))
  <2>1. a \in Nat /\ b \in Nat /\ Number(m, tag) \in Nat
    BY <1>1, <1>5, ClassIs, CachedType, FloorIs, NumberType
  <2>2. Cached(x, d, tag) = a + b + (IF d \in DepotClasses THEN InRing(o, d, tag) ELSE 0)
    BY <1>10, <1>13 DEF Content
  <2>3. Cached(h, d, tag) = a + b + (IF d \in DepotClasses THEN InRing(h.ovf, d, tag) ELSE 0)
    BY <1>1 DEF Content
  <2>4. d \in DepotClasses => InRing(o, d, tag) \in Nat
    BY <1>5, InRingType DEF OverflowOK
  <2> HIDE DEF a, b
  <2>5. CASE d \in DepotClasses
    <3>1. InRing(h.ovf, d, tag) = InRing(o, d, tag) + IF d = c THEN Number(m, tag) ELSE 0
      BY <1>5, <2>5
    <3> QED
      BY <2>1, <2>2, <2>3, <2>4, <2>5, <3>1
  <2>6. CASE d \notin DepotClasses
    BY <2>1, <2>2, <2>3, <2>6
  <2> QED
    BY <2>5, <2>6
<1>15. j \in Nat /\ j + 0 = j
  BY <1>5, NumberType
<1>16. InHand(x, c, j + 0) /\ (j > 0 => h.seg.state = "MAG")
  <2>1. InHand(h, c, 0)
    BY HandEmpty DEF Sound
  <2>2. Elsewhere(h, x, c)
    <3> SUFFICES ASSUME NEW d \in Classes, d # c
                 PROVE  Cached(x, d, "it") = Cached(h, d, "it")
      BY DEF Elsewhere
    <3>1. Cached(x, d, "it") + 0 = Cached(h, d, "it") /\ Cached(x, d, "it") \in Nat
      BY <1>14
    <3> QED
      BY <3>1
  <2>3. Cached(x, c, "it") + j = Cached(h, c, "it")
    BY <1>2, <1>14
  <2> HIDE DEF j
  <2> QED
    BY <1>1, <1>2, <1>13, <1>15, <2>1, <2>2, <2>3, HandTakes
<1>17. /\ Base(g) /\ InHand(g, c, 0) /\ g.class = x.class
       /\ \A d \in Classes : Out(g, d) = Out(x, d) + IF d = c THEN Number(m, "other") ELSE 0
       /\ j = 0 => g.seg.state = x.seg.state
       /\ j > 0 => g.seg.state = "FREE"
  BY <1>2, <1>5, <1>13, <1>16, FlushSound
<1> HIDE DEF g
<1>18. Sound(g)
  BY <1>17, HandEmpty DEF Sound
<1>19. ASSUME NEW d \in Classes
       PROVE  Out(g, d) = Out(h, d)
  <2>1. Cached(x, d, "other") + (IF d = c THEN Number(m, "other") ELSE 0) = Cached(h, d, "other")
        /\ Cached(x, d, "other") \in Nat /\ Number(m, "other") \in Nat
    BY <1>14
  <2>2. h.free[d] \in Nat /\ x.free[d] = h.free[d]
    BY <1>1, <1>13, ClassIs
  <2>3. Out(g, d) = Out(x, d) + IF d = c THEN Number(m, "other") ELSE 0
    BY <1>17
  <2> QED
    BY <2>1, <2>2, <2>3 DEF Out
<1>20. g.seg.state = "LIVE" <=> h.seg.state = "LIVE"
  BY <1>13, <1>15, <1>16, <1>17
<1>21. \A d \in Classes : g.class[d].slots = h.class[d].slots
  BY <1>10, <1>13, <1>17
<1> QED
  BY <1>18, <1>19, <1>20, <1>21 DEF Stays, Keeps, g, x, m

LEMMA DecayOneSound ==
    ASSUME setup \in Setups, NEW h, Sound(h)
    PROVE  Stays(h, DecayOne(h))
<1>1. /\ h \in Heaps /\ h.ovf \in Overflow /\ OverflowOK(h.ovf)
      /\ h.class \in [Classes -> PerClass]
  BY SoundIs
<1>2. CASE debt_mask(h.ovf) = {}
  BY <1>2, StaysSelf DEF DecayOne
<1>3. CASE debt_mask(h.ovf) # {}
  <2> DEFINE least(c) == c \in debt_mask(h.ovf) /\ \A d \in debt_mask(h.ovf) : c <= d
             c == CHOOSE c \in debt_mask(h.ovf) : \A d \in debt_mask(h.ovf) : c <= d
  <2>1. debt_mask(h.ovf) \in SUBSET Nat /\ debt_mask(h.ovf) \subseteq DepotClasses
        /\ DepotClasses \subseteq Classes
    BY ConstantsAre DEF debt_mask
  <2>2. \E x \in debt_mask(h.ovf) : \A d \in debt_mask(h.ovf) : x =< d
    BY <1>3, <2>1, HasLeast
  <2>3. c \in debt_mask(h.ovf)
    BY <2>2
  <2>4. DecayOne(h) = Flush([h EXCEPT !.ovf = pop_oldest(@, c),
                                      !.class[c].ovf = HintAfter(h.ovf.len[c])], c,
                            h.ovf.ring[c][Slot(h.ovf, c, 0)])
    BY <1>3, Zenon DEF DecayOne
  <2> HIDE DEF c
  <2>5. c \in DepotClasses /\ c \in Classes /\ h.ovf.debt[c] > 0
    BY <2>1, <2>3 DEF debt_mask
  <2>6. h.ovf.len[c] > 0
    <3>1. h.ovf.debt[c] \in Nat /\ h.ovf.len[c] \in Nat /\ h.ovf.debt[c] <= h.ovf.len[c]
      BY <1>1, <2>5, OverflowIs DEF OverflowOK, BooksBalance
    <3> QED
      BY <2>5, <3>1
  <2>7. [h EXCEPT !.ovf = pop_oldest(@, c), !.class[c].ovf = HintAfter(h.ovf.len[c])]
          = Drop(h, c)
    BY <1>1, <2>5 DEF Drop, Heaps, PerClass
  <2> QED
    BY <2>4, <2>5, <2>6, <2>7, DropSound
<1> QED
  BY <1>2, <1>3

SoundHeaps == {h \in Heaps : Sound(h)}

LEMMA StaysSound ==
    \A h, g : Stays(h, g) => Sound(g) /\ g \in SoundHeaps
BY DEF Stays, Keeps, SoundHeaps, Sound, Base, Shape

LEMMA DecayedSound ==
    ASSUME setup \in Setups, NEW h, Sound(h)
    PROVE  Stays(h, Decayed(h))
<1> DEFINE n == DECAY_WORK
           first == EpochEnded(h)
           step == [x \in SoundHeaps |-> DecayOne(x)]
           IsPaid(f) == f = [k \in 0 .. n |-> IF k = 0 THEN first ELSE DecayOne(f[k - 1])]
           paid == CHOOSE f : IsPaid(f)
<1>1. n \in Nat
  BY ConstantsAre
<1>2. first \in SoundHeaps /\ Stays(h, first)
  BY EpochEndedSound, StaysSound
<1>3. ASSUME NEW x \in SoundHeaps
      PROVE  DecayOne(x) \in SoundHeaps
  <2>1. Sound(x)
    BY DEF SoundHeaps
  <2> QED
    BY <2>1, DecayOneSound, StaysSound
<1>4. step \in [SoundHeaps -> SoundHeaps]
  BY <1>3
<1> HIDE DEF first, n
<1>5. PICK f : IsRun(f, SoundHeaps, first, step, n)
  <2> HIDE DEF step
  <2> QED
    BY <1>1, <1>2, <1>4, RunExists
<1>6. IsPaid(f)
  <2>1. f \in [0 .. n -> SoundHeaps] /\ f[0] = first
    BY <1>5 DEF IsRun
  <2>2. ASSUME NEW k \in 1 .. n
        PROVE  f[k] = DecayOne(f[k - 1])
    <3>1. k - 1 \in 0 .. n
      BY <1>1
    <3>2. f[k - 1] \in SoundHeaps /\ f[k] = step[f[k - 1]]
      BY <1>5, <2>1, <3>1 DEF IsRun
    <3> QED
      BY <3>2
  <2>3. ASSUME NEW k \in 0 .. n
        PROVE  f[k] = IF k = 0 THEN first ELSE DecayOne(f[k - 1])
    <3>1. k # 0 => k \in 1 .. n
      BY <1>1
    <3> QED
      BY <2>1, <2>2, <3>1
  <2> QED
    BY <2>1, <2>3
<1> HIDE DEF IsPaid
<1>7. IsPaid(paid)
  BY <1>6
<1>8. Decayed(h) = Unstarved(paid[n])
  BY Zenon DEF Decayed, paid, IsPaid, first, n
<1> HIDE DEF paid
<1>9. /\ 0 \in 0 .. n /\ n \in 0 .. n
      /\ \A k \in 0 .. n : paid[k] = IF k = 0 THEN first ELSE DecayOne(paid[k - 1])
  BY <1>1, <1>7 DEF IsPaid
<1> DEFINE T == {k \in 0 .. n : Stays(h, paid[k])}
<1>10. 0 \in T
  BY <1>2, <1>9
<1>11. ASSUME NEW k \in 1 .. n, k - 1 \in T
       PROVE  k \in T
  <2>1. Stays(h, paid[k - 1]) /\ Sound(paid[k - 1])
    BY <1>11, StaysSound
  <2>2. paid[k] = DecayOne(paid[k - 1]) /\ k \in 0 .. n
    BY <1>1, <1>9
  <2>3. Stays(paid[k - 1], paid[k])
    BY <2>1, <2>2, DecayOneSound
  <2> QED
    BY <2>1, <2>2, <2>3, StaysAgain
<1>12. \A k \in 0 .. n : k \in T
  <2> HIDE DEF T
  <2> QED
    BY <1>1, <1>10, <1>11, Reaches
<1>13. Stays(h, paid[n]) /\ Sound(paid[n])
  BY <1>9, <1>12, StaysSound
<1>14. Stays(paid[n], Unstarved(paid[n]))
  BY <1>13, UnstarvedSound
<1> QED
  BY <1>8, <1>13, <1>14, StaysAgain

(* The same books with another count of events and another set armed.      *)
Recount(o, ev, ar) == [o EXCEPT !.events = ev, !.armed = ar]

LEMMA RecountIs ==
    ASSUME setup \in Setups, NEW o, OverflowOK(o), NEW ev \in Nat, NEW ar \in SUBSET Classes,
           NEW p, p = Recount(o, ev, ar)
    PROVE  /\ Spared(o, p) /\ p.armed = ar /\ p.starved = o.starved
           /\ p.len = o.len /\ p.bytes = o.bytes
<1>1. o \in Overflow
  BY DEF OverflowOK
<1>2. p \in Overflow
  BY <1>1 DEF Overflow, Recount
<1>3. /\ (o.reserved => p.reserved) /\ p.armed = ar /\ p.starved = o.starved
      /\ p.ring = o.ring /\ p.len = o.len /\ p.head = o.head /\ p.bytes = o.bytes
      /\ p.committed = o.committed /\ p.debt = o.debt /\ p.low = o.low
  BY <1>1 DEF Overflow, Recount
<1>4. \A d \in DepotClasses : /\ o.committed[d] \in Nat
                              /\ o.debt[d] <= o.len[d] /\ o.low[d] <= o.len[d]
  BY <1>1, OverflowIs DEF OverflowOK, BooksBalance
<1>5. \A d \in DepotClasses : /\ p.committed[d] >= o.committed[d]
                              /\ p.debt[d] <= p.len[d] /\ p.low[d] <= p.len[d]
  BY <1>3, <1>4
<1> QED
  BY <1>2, <1>3, <1>5 DEF Spared

LEMMA CountedSound ==
    ASSUME setup \in Setups, NEW h, Sound(h)
    PROVE  Stays(h, [h EXCEPT !.ovf.events = @ + 1])
<1> DEFINE o == Recount(h.ovf, h.ovf.events + 1, h.ovf.armed)
           g == [h EXCEPT !.ovf.events = @ + 1]
<1>1. /\ h \in Heaps /\ h.class \in [Classes -> PerClass] /\ h.ovf \in Overflow
      /\ OverflowOK(h.ovf) /\ Rung(h.ovf)
      /\ \A d \in Classes : ClassOK(h.ovf, h.class[d], d)
  BY SoundIs
<1>2. h.ovf.events \in Nat /\ h.ovf.armed \in SUBSET Classes
  BY <1>1 DEF Overflow
<1>3. g = Alter(h, h.class, o)
  BY <1>1 DEF Alter, Recount, Heaps, Overflow
<1> HIDE DEF g
<1>4. /\ Spared(h.ovf, o) /\ o.armed = h.ovf.armed /\ o.starved = h.ovf.starved
      /\ o.len = h.ovf.len /\ o.bytes = h.ovf.bytes
  BY <1>1, <1>2, RecountIs
<1> HIDE DEF o
<1>5. \A d \in Classes : ClassOK(o, h.class[d], d)
  BY <1>1, <1>4 DEF ClassOK
<1>6. Quiet(h, h.class, o)
  BY <1>1, <1>4, <1>5 DEF Quiet, Rung
<1> QED
  BY <1>3, <1>6, QuietSound DEF g

LEMMA TickSound ==
    ASSUME setup \in Setups, NEW h, Sound(h)
    PROVE  Stays(h, Tick(h))
<1> DEFINE t == [h EXCEPT !.ovf.events = @ + 1]
<1>1. Stays(h, t) /\ Sound(t)
  BY CountedSound, StaysSound
<1>2. Tick(h) \in {h, t, Decayed(t)}
  BY DEF Tick
<1> HIDE DEF t
<1>3. Stays(h, Decayed(t))
  BY <1>1, DecayedSound, StaysAgain
<1> QED
  BY <1>1, <1>2, <1>3, StaysSelf

LEMMA SegmentTickSound ==
    ASSUME setup \in Setups, NEW h, Sound(h), NEW c \in Classes
    PROVE  Stays(h, SegmentTick(h, c))
<1> DEFINE o == Recount(h.ovf, h.ovf.events, h.ovf.armed \ {c})
           y == [h.class[c] EXCEPT !.marks = h.class[c].marks \ {"TICK"}]
           cl == [h.class EXCEPT ![c] = y]
           g == [h EXCEPT !.ovf.armed = @ \ {c}, !.class[c].marks = @ \ {"TICK"}]
<1>1. /\ h \in Heaps /\ h.class \in [Classes -> PerClass] /\ h.ovf \in Overflow
      /\ OverflowOK(h.ovf) /\ Rung(h.ovf)
      /\ \A d \in Classes : ClassOK(h.ovf, h.class[d], d)
  BY SoundIs
<1>2. h.ovf.events \in Nat /\ h.ovf.armed \in SUBSET Classes /\ h.class[c] \in PerClass
  BY <1>1 DEF Overflow
<1>3. g = Alter(h, cl, o)
  BY <1>1 DEF Alter, Recount, Heaps, Overflow, PerClass
<1>4. SegmentTick(h, c) \in {h, Tick(h)} \/ (SegmentTick(h, c) = g /\ ~ (h.ovf.bytes > 0))
  BY DEF SegmentTick
<1> HIDE DEF g
<1>5. /\ Spared(h.ovf, o) /\ o.armed = h.ovf.armed \ {c} /\ o.starved = h.ovf.starved
      /\ o.len = h.ovf.len /\ o.bytes = h.ovf.bytes
  BY <1>1, <1>2, RecountIs
<1> HIDE DEF o
<1>6. /\ y \in PerClass /\ y.slots = h.class[c].slots /\ y.floor = h.class[c].floor
      /\ y.virgin_mask = h.class[c].virgin_mask /\ y.limit = h.class[c].limit
      /\ y.ovf = h.class[c].ovf /\ y.marks = h.class[c].marks \ {"TICK"}
  BY <1>2 DEF PerClass
<1> HIDE DEF y
<1>7. /\ cl \in [Classes -> PerClass]
      /\ cl[c] = y /\ \A d \in Classes : d # c => cl[d] = h.class[d]
  BY <1>1, <1>6
<1> HIDE DEF cl
<1>8. ASSUME NEW d \in Classes
      PROVE  /\ ClassOK(o, cl[d], d) /\ cl[d].slots = h.class[d].slots
             /\ cl[d].floor = h.class[d].floor /\ cl[d].virgin_mask = h.class[d].virgin_mask
  <2>1. ClassOK(h.ovf, h.class[d], d)
    BY <1>1
  <2>2. CASE d = c
    BY <1>5, <1>6, <1>7, <2>1, <2>2 DEF ClassOK
  <2>3. CASE d # c
    BY <1>5, <1>7, <2>1, <2>3 DEF ClassOK
  <2> QED
    BY <2>2, <2>3
<1>9. ~ (h.ovf.bytes > 0) => Stays(h, g)
  <2> SUFFICES ASSUME ~ (h.ovf.bytes > 0) PROVE Stays(h, g)
    OBVIOUS
  <2>1. Rung(o)
    BY <1>5 DEF Rung
  <2>2. Quiet(h, cl, o)
    BY <1>5, <1>7, <1>8, <2>1 DEF Quiet
  <2> QED
    BY <1>3, <2>2, QuietSound DEF g
<1> QED
  BY <1>4, <1>9, TickSound, StaysSelf

-----------------------------------------------------------------------------
(* A full magazine is parked                                               *)

Relisted(o, st, ar) == [o EXCEPT !.starved = st, !.armed = ar]

LEMMA RelistedIs ==
    ASSUME setup \in Setups, NEW o, OverflowOK(o), NEW st \in SUBSET DepotClasses,
           NEW ar \in SUBSET Classes, NEW p, p = Relisted(o, st, ar)
    PROVE  /\ OverflowOK(p) /\ p.armed = ar /\ p.starved = st
           /\ p.len = o.len /\ p.bytes = o.bytes
           /\ \A d \in DepotClasses : \A tag : InRing(p, d, tag) = InRing(o, d, tag)
<1>1. o \in Overflow
  BY DEF OverflowOK
<1>2. p \in Overflow
  BY <1>1 DEF Overflow, Relisted
<1>3. /\ (o.reserved => p.reserved) /\ p.armed = ar /\ p.starved = st
      /\ p.ring = o.ring /\ p.len = o.len /\ p.head = o.head /\ p.bytes = o.bytes
      /\ p.committed = o.committed /\ p.debt = o.debt /\ p.low = o.low
  BY <1>1 DEF Overflow, Relisted
<1>4. \A d \in DepotClasses : /\ o.committed[d] \in Nat
                              /\ o.debt[d] <= o.len[d] /\ o.low[d] <= o.len[d]
  BY <1>1, OverflowIs DEF OverflowOK, BooksBalance
<1>5. \A d \in DepotClasses : /\ p.committed[d] >= o.committed[d]
                              /\ p.debt[d] <= p.len[d] /\ p.low[d] <= p.len[d]
  BY <1>3, <1>4
<1>6. Spared(o, p)
  BY <1>2, <1>3, <1>5 DEF Spared
<1> QED
  BY <1>3, <1>6, SparedSound

(* What there is to know of a heap of which only class c is to change.     *)
Others(h, o, c) ==
    /\ OverflowOK(o) /\ h.ovf.starved \subseteq o.starved
    /\ \A d \in DepotClasses : d # c => /\ o.len[d] = h.ovf.len[d]
                                        /\ \A tag : InRing(o, d, tag) = InRing(h.ovf, d, tag)

LEMMA OneAltered ==
    ASSUME setup \in Setups, NEW h, Sound(h), NEW c \in Classes, NEW o, Others(h, o, c),
           o.armed = h.ovf.armed, Rung(o),
           NEW y, ClassOK(o, y, c), MarksOK(h.class[c], y),
           \A tag : Content(y, o, c, tag) = Cached(h, c, tag),
           NEW g, g = Alter(h, [h.class EXCEPT ![c] = y], o)
    PROVE  Keeps(h, g) /\ g.class[c] = y
<1> DEFINE cl == [h.class EXCEPT ![c] = y]
<1>1. /\ h \in Heaps /\ h.class \in [Classes -> PerClass] /\ h.ovf \in Overflow
      /\ \A d \in Classes : ClassOK(h.ovf, h.class[d], d)
      /\ \A d, tag : Cached(h, d, tag) = Content(h.class[d], h.ovf, d, tag)
  BY SoundIs
<1>2. y \in PerClass
  BY DEF ClassOK
<1>3. /\ cl \in [Classes -> PerClass]
      /\ cl[c] = y /\ \A d \in Classes : d # c => cl[d] = h.class[d]
  BY <1>1, <1>2
<1> HIDE DEF cl
<1>4. ASSUME NEW d \in Classes
      PROVE  /\ ClassOK(o, cl[d], d) /\ MarksOK(h.class[d], cl[d])
             /\ \A tag : Content(cl[d], o, d, tag) = Cached(h, d, tag)
  <2>1. CASE d = c
    BY <1>3, <2>1
  <2>2. CASE d # c
    <3>1. cl[d] = h.class[d] /\ ClassOK(h.ovf, h.class[d], d)
      BY <1>1, <1>3, <2>2
    <3>2. d \in DepotClasses => /\ o.len[d] = h.ovf.len[d]
                                /\ \A tag : InRing(o, d, tag) = InRing(h.ovf, d, tag)
      BY <2>2 DEF Others
    <3>3. ClassOK(o, cl[d], d)
      BY <3>1, <3>2 DEF ClassOK, Others
    <3>4. MarksOK(h.class[d], cl[d])
      BY <3>1 DEF MarksOK
    <3>5. ASSUME NEW tag
          PROVE  Content(cl[d], o, d, tag) = Cached(h, d, tag)
      <4>1. Content(h.class[d], o, d, tag) = Content(h.class[d], h.ovf, d, tag)
        BY <3>2, Zenon DEF Content
      <4> QED
        BY <1>1, <3>1, <4>1
    <3> QED
      BY <3>3, <3>4, <3>5
  <2> QED
    BY <2>1, <2>2
<1>5. Alters(h, cl, o)
  BY <1>3, <1>4 DEF Alters, Others
<1>6. Balanced(h, cl, o)
  BY <1>4 DEF Balanced
<1>7. Keeps(h, g) /\ g.class = cl
  BY <1>5, <1>6, AlterSound DEF cl
<1> QED
  BY <1>3, <1>7

(* The state that a full magazine of c can be parked from.                 *)
Parkable(h, c) ==
    /\ Sound(h) /\ c \in DepotClasses /\ c \in Classes
    /\ h.class[c].slots \in Full /\ h.class[c].slots \in Magazine

LEMMA ParkableIs ==
    ASSUME setup \in Setups, NEW h, Sound(h), NEW c \in DepotClasses,
           Len(h.class[c].slots) >= FREE_PARK_CAP[c]
    PROVE  Parkable(h, c)
<1>1. c \in Classes /\ FREE_PARK_CAP[c] = TCACHE_CAP /\ TCACHE_CAP \in Nat
  BY ConstantsAre
<1>2. h \in Heaps /\ Len(h.class[c].slots) <= FREE_PARK_CAP[c]
  BY <1>1, SoundIs DEF ClassOK
<1>3. h.class[c].slots \in Magazine /\ h.class[c].slots \in Seq(Tags)
      /\ Len(h.class[c].slots) \in Nat
  BY <1>1, <1>2, ClassIs
<1>4. h.class[c].slots \in Full
  BY <1>1, <1>2, <1>3, MagazineIs
<1> QED
  BY <1>1, <1>3, <1>4 DEF Parkable

LEMMA ParkFloorSound ==
    ASSUME setup \in Setups, NEW h, NEW c, Parkable(h, c), FloorHasRoom(h, c)
    PROVE  Keeps(h, ParkFloor(h, c)) /\ ParkFloor(h, c).class[c].slots = <<>>
<1> DEFINE s == h.class[c].slots
           f == h.class[c].floor
           x == h.class[c]
           y == [x EXCEPT !.slots = <<>>, !.virgin_mask = {}, !.floor = Append(f, s),
                          !.marks = x.marks \cup {"FLOOR"}]
           g == ParkFloor(h, c)
<1>1. Sound(h) /\ c \in DepotClasses /\ c \in Classes /\ s \in Full /\ s \in Magazine
  BY DEF Parkable
<1>2. /\ h \in Heaps /\ h.class \in [Classes -> PerClass] /\ h.ovf \in Overflow
      /\ OverflowOK(h.ovf) /\ Rung(h.ovf) /\ ClassOK(h.ovf, x, c)
      /\ \A tag : Cached(h, c, tag) = Content(x, h.ovf, c, tag)
  BY <1>1, SoundIs
<1>3. x \in PerClass /\ f \in Seq(Full) /\ s \in Seq(Tags)
  BY <1>1, <1>2, ClassIs
<1>4. g = Alter(h, [h.class EXCEPT ![c] = y], h.ovf)
  <2> DEFINE z == [x EXCEPT !.floor = Append(f, s), !.marks = x.marks \cup {"FLOOR"}]
             a == [h EXCEPT !.class[c].floor = Append(@, h.class[c].slots),
                            !.class[c].marks = @ \cup {"FLOOR"}]
  <2>1. a = [h EXCEPT !.class = [h.class EXCEPT ![c] = z]]
    BY <1>1, <1>2 DEF Heaps, PerClass
  <2>2. z \in PerClass
    BY <1>1, <1>3, FloorAppend DEF PerClass
  <2>3. g = Emptied(a, c)
    BY DEF ParkFloor
  <2>4. y = [z EXCEPT !.slots = <<>>, !.virgin_mask = {}]
    BY <1>3 DEF PerClass
  <2> HIDE DEF g, a, x, y, z
  <2>5. g = [h EXCEPT !.class = [h.class EXCEPT ![c] = [z EXCEPT !.slots = <<>>, !.virgin_mask = {}]]]
    BY <1>1, <1>2, <2>1, <2>2, <2>3 DEF Emptied, Heaps, PerClass
  <2> QED
    BY <1>2, <2>4, <2>5 DEF Alter, Heaps
<1> HIDE DEF g, x, s, f
<1>5. /\ Append(f, s) \in Seq(Full) /\ Len(Append(f, s)) = Len(f) + 1
      /\ \A tag : Cardinality(Places(Append(f, s), tag))
                    = Cardinality(Places(f, tag)) + Number(s, tag)
  BY <1>1, <1>3, FloorAppend
<1>6. /\ y \in PerClass /\ y.slots = <<>> /\ y.floor = Append(f, s) /\ y.virgin_mask = {}
      /\ y.limit = x.limit /\ y.ovf = x.ovf /\ y.marks = x.marks \cup {"FLOOR"}
  BY <1>3, <1>5, NumberEmpty DEF PerClass
<1> HIDE DEF y
<1>7. Len(f) \in Nat /\ Len(f) < DEPOT_K[c] /\ DEPOT_K[c] \in Nat /\ FREE_PARK_CAP[c] \in Nat
  BY <1>1, <1>3, FloorIs, ConstantsAre DEF FloorHasRoom, f, x
<1>8. ClassOK(h.ovf, y, c)
  <2>1. Len(y.floor) <= DEPOT_K[c] /\ Len(y.slots) <= FREE_PARK_CAP[c]
    BY <1>5, <1>6, <1>7
  <2>2. "TICK" \in y.marks <=> "TICK" \in x.marks
    BY <1>6
  <2> QED
    BY <1>1, <1>2, <1>6, <2>1, <2>2 DEF ClassOK
<1>9. \A tag : Content(y, h.ovf, c, tag) = Cached(h, c, tag)
  <2> TAKE tag
  <2>1. /\ Cardinality(Places(f, tag)) \in Nat /\ Number(s, tag) \in Nat
        /\ InRing(h.ovf, c, tag) \in Nat /\ Number(<<>>, tag) = 0
    BY <1>1, <1>2, <1>3, FloorIs, NumberType, NumberEmpty, InRingType DEF OverflowOK
  <2>2. Cached(h, c, tag) = Number(s, tag) + Cardinality(Places(f, tag)) + InRing(h.ovf, c, tag)
    BY <1>1, <1>2 DEF Content, s, f, x
  <2>3. Content(y, h.ovf, c, tag) = 0 + (Cardinality(Places(f, tag)) + Number(s, tag))
                                      + InRing(h.ovf, c, tag)
    BY <1>1, <1>5, <1>6, <2>1 DEF Content
  <2> QED
    BY <2>1, <2>2, <2>3
<1>10. Others(h, h.ovf, c) /\ MarksOK(h.class[c], y)
  BY <1>2, <1>6 DEF Others, MarksOK
<1>11. Keeps(h, g) /\ g.class[c] = y
  BY <1>1, <1>2, <1>4, <1>8, <1>9, <1>10, OneAltered DEF x
<1> QED
  BY <1>6, <1>11 DEF g

LEMMA FloorIsFull ==
    ASSUME setup \in Setups, NEW h, NEW c, Parkable(h, c), ~ FloorHasRoom(h, c)
    PROVE  Len(h.class[c].floor) = DEPOT_K[c] /\ DEPOT_K[c] \in Nat
<1>1. Sound(h) /\ c \in DepotClasses /\ c \in Classes
  BY DEF Parkable
<1>2. h \in Heaps /\ Len(h.class[c].floor) <= DEPOT_K[c]
  BY <1>1, SoundIs DEF ClassOK
<1>3. Len(h.class[c].floor) \in Nat /\ DEPOT_K[c] \in Nat
  BY <1>1, <1>2, ClassIs, FloorIs, ConstantsAre
<1> QED
  BY <1>2, <1>3 DEF FloorHasRoom

(* Refused: the records stay, the class waits to be reopened.              *)
LEMMA RefusedSound ==
    ASSUME setup \in Setups, NEW h, NEW c, Parkable(h, c), ~ FloorHasRoom(h, c),
           NEW q, OverflowOK(q), Unstored(h.ovf, q)
    PROVE  LET g == Latched([h EXCEPT !.ovf = q], c)
           IN  Keeps(h, g) /\ g.class[c].slots = h.class[c].slots
<1> DEFINE x == h.class[c]
           y == [x EXCEPT !.limit = Len(x.floor)]
           st == q.starved \cup {c}
           o == Relisted(q, st, q.armed)
           g == Latched([h EXCEPT !.ovf = q], c)
<1>1. Sound(h) /\ c \in DepotClasses /\ c \in Classes
  BY DEF Parkable
<1>2. /\ h \in Heaps /\ h.class \in [Classes -> PerClass] /\ h.ovf \in Overflow
      /\ OverflowOK(h.ovf) /\ Rung(h.ovf) /\ ClassOK(h.ovf, x, c) /\ x \in PerClass
      /\ \A tag : Cached(h, c, tag) = Content(x, h.ovf, c, tag)
  BY <1>1, SoundIs DEF ClassOK
<1>3. Len(x.floor) = DEPOT_K[c] /\ DEPOT_K[c] \in Nat
  BY FloorIsFull
<1>4. /\ q \in Overflow /\ q.armed \in SUBSET Classes /\ st \in SUBSET DepotClasses
      /\ q.len = h.ovf.len /\ q.armed = h.ovf.armed /\ q.starved = h.ovf.starved
      /\ q.bytes = h.ovf.bytes
      /\ \A d \in DepotClasses : \A tag : InRing(q, d, tag) = InRing(h.ovf, d, tag)
  BY <1>1 DEF OverflowOK, Overflow, Unstored
<1>5. g = Alter(h, [h.class EXCEPT ![c] = y], o)
  BY ZenonT(60), <1>1, <1>2, <1>4 DEF Latched, Alter, Relisted, Heaps, PerClass, Overflow
<1> HIDE DEF g, x, st
<1>6. /\ OverflowOK(o) /\ o.armed = h.ovf.armed /\ o.starved = st
      /\ o.len = h.ovf.len /\ o.bytes = h.ovf.bytes
      /\ \A d \in DepotClasses : \A tag : InRing(o, d, tag) = InRing(h.ovf, d, tag)
  BY <1>4, RelistedIs
<1> HIDE DEF o
<1>7. /\ y \in PerClass /\ y.slots = x.slots /\ y.floor = x.floor
      /\ y.virgin_mask = x.virgin_mask /\ y.limit = DEPOT_K[c] /\ y.ovf = x.ovf
      /\ y.marks = x.marks
  BY <1>2, <1>3 DEF PerClass
<1> HIDE DEF y
<1>8. ClassOK(o, y, c)
  BY <1>1, <1>2, <1>6, <1>7 DEF ClassOK, st
<1>9. \A tag : Content(y, o, c, tag) = Cached(h, c, tag)
  BY <1>1, <1>2, <1>6, <1>7, Zenon DEF Content
<1>10. Others(h, o, c) /\ MarksOK(x, y) /\ Rung(o)
  BY <1>2, <1>4, <1>6, <1>7 DEF Others, MarksOK, Rung, st
<1>11. Keeps(h, g) /\ g.class[c] = y
  BY <1>1, <1>5, <1>6, <1>8, <1>9, <1>10, OneAltered DEF x
<1> QED
  BY <1>7, <1>11 DEF g, x

(* Stored: the class has a record, the ring may be full now.               *)
Stowed(h, c, q) ==
    LET parked == [Emptied(h, c) EXCEPT !.ovf = q, !.class[c].ovf = 1]
        full == IF h.ovf.len[c] + 1 >= cap_for(c) THEN Latched(parked, c) ELSE parked
    IN  IF h.ovf.len[c] = 0 THEN Armed(full) ELSE full

StowedClass(h, c) ==
    [h.class[c] EXCEPT !.slots = <<>>, !.virgin_mask = {}, !.ovf = 1,
                       !.limit = IF h.ovf.len[c] + 1 >= cap_for(c) THEN Len(h.class[c].floor)
                                 ELSE h.class[c].limit]
StowedOvf(h, c, q) ==
    Relisted(q, IF h.ovf.len[c] + 1 >= cap_for(c) THEN q.starved \cup {c} ELSE q.starved, q.armed)

LEMMA StowedIs ==
    ASSUME setup \in Setups, NEW h \in Heaps, NEW c \in DepotClasses, NEW q \in Overflow,
           NEW cl, cl = [h.class EXCEPT ![c] = StowedClass(h, c)],
           NEW o, o = StowedOvf(h, c, q)
    PROVE  Stowed(h, c, q) =
             IF h.ovf.len[c] = 0
               THEN Alter(h, [k \in Classes |-> [cl[k] EXCEPT !.marks =
                                 cl[k].marks \cup IF k \in o.armed THEN {} ELSE {"TICK"}]],
                          Relisted(o, o.starved, Classes))
               ELSE Alter(h, cl, o)
<1> DEFINE x == h.class[c]
           z == [x EXCEPT !.slots = <<>>, !.virgin_mask = {}, !.ovf = 1]
           parked == [Emptied(h, c) EXCEPT !.ovf = q, !.class[c].ovf = 1]
           latch == h.ovf.len[c] + 1 >= cap_for(c)
           full == IF latch THEN Latched(parked, c) ELSE parked
<1>1. c \in Classes /\ h.class \in [Classes -> PerClass] /\ x \in PerClass
  BY ConstantsAre DEF Heaps
<1>2. z \in PerClass /\ z.floor = x.floor /\ z.limit = x.limit
  BY <1>1, NumberEmpty DEF PerClass
<1>3. parked = [h EXCEPT !.class = [h.class EXCEPT ![c] = z], !.ovf = q]
  BY ZenonT(60), <1>1 DEF Emptied, Heaps, PerClass
<1> HIDE DEF z, parked, latch
<1>4. full = Alter(h, cl, o)
  <2>1. CASE latch
    <3>1. StowedClass(h, c) = [z EXCEPT !.limit = Len(x.floor)]
      BY <1>1, <2>1 DEF StowedClass, z, latch, PerClass
    <3>2. o = [q EXCEPT !.starved = q.starved \cup {c}]
      BY <2>1 DEF StowedOvf, Relisted, latch, Overflow
    <3> HIDE DEF x
    <3>3. Latched(parked, c) = [h EXCEPT !.class = [h.class EXCEPT ![c] = [z EXCEPT !.limit = Len(x.floor)]],
                                         !.ovf = [q EXCEPT !.starved = q.starved \cup {c}]]
      <4> DEFINE K == [h.class EXCEPT ![c] = z]
                 z1 == [z EXCEPT !.limit = Len(x.floor)]
                 q1 == [q EXCEPT !.starved = q.starved \cup {c}]
      <4>1. K \in [Classes -> PerClass] /\ K[c] = z /\ [K EXCEPT ![c] = z1] = [h.class EXCEPT ![c] = z1]
        BY <1>1, <1>2
      <4>2. parked = [h EXCEPT !.class = K, !.ovf = q]
        BY <1>3
      <4> HIDE DEF K
      <4>3. parked \in Heaps /\ parked.class = K /\ parked.ovf = q
        BY <4>1, <4>2 DEF Heaps
      <4>4. Latched(parked, c) = [parked EXCEPT !.class[c].limit = Len(x.floor),
                                                !.ovf.starved = @ \cup {c}]
        BY <1>2, <4>1, <4>3 DEF Latched
      <4>5. Latched(parked, c) = [parked EXCEPT !.class = [K EXCEPT ![c] = z1], !.ovf = q1]
        BY <1>1, <1>2, <4>1, <4>3, <4>4 DEF Heaps, PerClass, Overflow
      <4> HIDE DEF z1, q1
      <4>6. Latched(parked, c) = [h EXCEPT !.class = [h.class EXCEPT ![c] = z1], !.ovf = q1]
        BY <4>1, <4>2, <4>5 DEF Heaps
      <4> QED
        BY <4>6 DEF z1, q1
    <3> QED
      BY <2>1, <3>1, <3>2, <3>3 DEF Alter
  <2>2. CASE ~ latch
    <3>1. StowedClass(h, c) = z
      BY <1>1, <2>2 DEF StowedClass, z, latch, PerClass
    <3>2. o = q
      BY <2>2 DEF StowedOvf, Relisted, latch, Overflow
    <3> QED
      BY <1>3, <2>2, <3>1, <3>2 DEF Alter
  <2> QED
    BY <2>1, <2>2
<1>5. Stowed(h, c, q) = IF h.ovf.len[c] = 0 THEN Armed(full) ELSE full
  BY DEF Stowed, parked, latch
<1> HIDE DEF full
<1>6. cl \in [Classes -> PerClass]
  <2>1. StowedClass(h, c) = z \/ StowedClass(h, c) = [z EXCEPT !.limit = Len(x.floor)]
    BY <1>1 DEF StowedClass, z, PerClass
  <2>2. Len(x.floor) \in Nat
    BY <1>1, ClassIs, FloorIs
  <2>3. StowedClass(h, c) \in PerClass
    BY <1>2, <2>1, <2>2 DEF PerClass
  <2> QED
    BY <1>1, <2>3
<1>7. o \in Overflow
  <2>1. o = q \/ o = [q EXCEPT !.starved = q.starved \cup {c}]
    BY DEF StowedOvf, Relisted, Overflow
  <2>2. q.starved \cup {c} \in SUBSET DepotClasses
    BY DEF Overflow
  <2> QED
    BY <2>1, <2>2 DEF Overflow
<1>8. full.class = cl /\ full.ovf = o
  BY <1>4 DEF Alter, Heaps
<1>9. Armed(full) = [full EXCEPT !.ovf.armed = Classes,
              !.class = [k \in Classes |-> [cl[k] EXCEPT !.marks =
                             cl[k].marks \cup IF k \in o.armed THEN {} ELSE {"TICK"}]]]
  BY <1>8, Zenon DEF Armed
<1> DEFINE cm == [k \in Classes |-> [cl[k] EXCEPT !.marks =
                             cl[k].marks \cup IF k \in o.armed THEN {} ELSE {"TICK"}]]
<1> HIDE DEF cm
<1>10. Armed(full) = Alter(h, cm, Relisted(o, o.starved, Classes))
  <2>1. Armed(full) = [full EXCEPT !.ovf.armed = Classes, !.class = cm]
    BY <1>9 DEF cm
  <2>2. Relisted(o, o.starved, Classes) = [o EXCEPT !.armed = Classes]
    BY <1>7 DEF Relisted, Overflow
  <2> QED
    BY <1>4, <1>7, <2>1, <2>2 DEF Alter, Heaps, Overflow
<1> QED
  BY <1>4, <1>5, <1>10 DEF cm

LEMMA StowedSound ==
    ASSUME setup \in Setups, NEW h, NEW c, Parkable(h, c), ~ FloorHasRoom(h, c),
           NEW q, OverflowOK(q), Stored(h.ovf, q, c, h.class[c].slots)
    PROVE  Keeps(h, Stowed(h, c, q)) /\ Stowed(h, c, q).class[c].slots = <<>>
<1> DEFINE x == h.class[c]
           s == x.slots
           y == StowedClass(h, c)
           o == StowedOvf(h, c, q)
           cl == [h.class EXCEPT ![c] = y]
           latch == h.ovf.len[c] + 1 >= cap_for(c)
           g == Stowed(h, c, q)
<1>1. Sound(h) /\ c \in DepotClasses /\ c \in Classes /\ s \in Full /\ s \in Magazine
  BY DEF Parkable
<1>2. /\ h \in Heaps /\ h.class \in [Classes -> PerClass] /\ h.ovf \in Overflow
      /\ OverflowOK(h.ovf) /\ Rung(h.ovf) /\ x \in PerClass
      /\ \A d \in Classes : ClassOK(h.ovf, h.class[d], d)
      /\ \A d, tag : Cached(h, d, tag) = Content(h.class[d], h.ovf, d, tag)
  BY <1>1, SoundIs DEF ClassOK
<1>3. Len(x.floor) = DEPOT_K[c] /\ DEPOT_K[c] \in Nat /\ FREE_PARK_CAP[c] \in Nat
  BY <1>1, FloorIsFull, ConstantsAre
<1>4. /\ q \in Overflow /\ q.armed \in SUBSET Classes /\ q.starved \in SUBSET DepotClasses
      /\ q.armed = h.ovf.armed /\ q.starved = h.ovf.starved
      /\ \A d \in DepotClasses : q.len[d] = h.ovf.len[d] + IF d = c THEN 1 ELSE 0
      /\ \A d \in DepotClasses : \A tag :
           InRing(q, d, tag) = InRing(h.ovf, d, tag) + IF d = c THEN Number(s, tag) ELSE 0
      /\ q.bytes = h.ovf.bytes + mag_bytes[c]
  BY DEF OverflowOK, Overflow, Stored
<1>5. /\ g = IF h.ovf.len[c] = 0
               THEN Alter(h, [k \in Classes |-> [cl[k] EXCEPT !.marks =
                                 cl[k].marks \cup IF k \in o.armed THEN {} ELSE {"TICK"}]],
                          Relisted(o, o.starved, Classes))
               ELSE Alter(h, cl, o)
  BY <1>1, <1>2, <1>4, StowedIs
<1> HIDE DEF g
<1>6. /\ y \in PerClass /\ y.slots = <<>> /\ y.floor = x.floor /\ y.virgin_mask = {}
      /\ y.ovf = 1 /\ y.marks = x.marks
      /\ y.limit = IF latch THEN DEPOT_K[c] ELSE x.limit
  <2>1. y = [x EXCEPT !.slots = <<>>, !.virgin_mask = {}, !.ovf = 1,
                      !.limit = IF latch THEN DEPOT_K[c] ELSE x.limit]
    BY <1>3 DEF StowedClass
  <2> HIDE DEF latch, y, x
  <2>2. (IF latch THEN DEPOT_K[c] ELSE x.limit) \in Nat /\ <<>> \in Magazine
    BY <1>2, <1>3, NumberEmpty DEF PerClass
  <2> QED
    BY <1>2, <2>1, <2>2 DEF PerClass
<1> HIDE DEF y
<1>7. /\ OverflowOK(o) /\ o \in Overflow /\ o.armed = h.ovf.armed
      /\ o.starved = IF latch THEN q.starved \cup {c} ELSE q.starved
      /\ o.len = q.len /\ o.bytes = q.bytes
      /\ \A d \in DepotClasses : \A tag : InRing(o, d, tag) = InRing(q, d, tag)
  <2> DEFINE st == IF latch THEN q.starved \cup {c} ELSE q.starved
  <2>1. st \in SUBSET DepotClasses
    BY <1>1, <1>4
  <2>2. o = Relisted(q, st, q.armed)
    BY DEF StowedOvf
  <2> HIDE DEF st, o
  <2>3. /\ OverflowOK(o) /\ o.armed = q.armed /\ o.starved = st
        /\ o.len = q.len /\ o.bytes = q.bytes
        /\ \A d \in DepotClasses : \A tag : InRing(o, d, tag) = InRing(q, d, tag)
    <3>1. q.armed \in SUBSET Classes
      BY <1>4
    <3> DEFINE r == Relisted(q, st, q.armed)
    <3>2. /\ OverflowOK(r) /\ r.armed = q.armed /\ r.starved = st
          /\ r.len = q.len /\ r.bytes = q.bytes
          /\ \A d \in DepotClasses : \A tag : InRing(r, d, tag) = InRing(q, d, tag)
      BY <2>1, <3>1, RelistedIs
    <3> QED
      BY <2>2, <3>2
  <2> QED
    BY <1>4, <2>3 DEF OverflowOK, st
<1> HIDE DEF o, latch
<1>8. \A d \in DepotClasses : h.ovf.len[d] \in Nat /\ \A tag : InRing(h.ovf, d, tag) \in Nat
  BY <1>2, InRingType, OverflowIs DEF OverflowOK
<1>9. /\ c \in DepotClasses => y.ovf = IF o.len[c] > 0 THEN 1 ELSE 0
      /\ y.limit = open_limit(c) \/ (y.limit = DEPOT_K[c] /\ c \in o.starved)
      /\ Len(y.slots) <= FREE_PARK_CAP[c]
      /\ Len(y.floor) <= DEPOT_K[c]
  <2>1. o.len[c] = h.ovf.len[c] + 1
    BY <1>1, <1>4, <1>7
  <2>2. y.limit = open_limit(c) \/ (y.limit = DEPOT_K[c] /\ c \in o.starved)
    BY <1>1, <1>2, <1>4, <1>6, <1>7 DEF ClassOK
  <2> QED
    BY <1>1, <1>3, <1>6, <1>8, <2>1, <2>2
<1>10. \A tag : Content(y, o, c, tag) = Cached(h, c, tag)
  <2> TAKE tag
  <2> DEFINE b == Cardinality(Places(x.floor, tag))
  <2>1. b \in Nat /\ Number(s, tag) \in Nat /\ Number(<<>>, tag) = 0
    BY <1>1, <1>2, ClassIs, FloorIs, CachedType, NumberEmpty, SoundIs
  <2>2. Cached(h, c, tag) = Number(s, tag) + b + InRing(h.ovf, c, tag)
    BY <1>1, <1>2 DEF Content
  <2>3. InRing(o, c, tag) = InRing(h.ovf, c, tag) + Number(s, tag)
    BY <1>1, <1>4, <1>7
  <2>4. Content(y, o, c, tag) = 0 + b + InRing(o, c, tag)
    BY <1>1, <1>6, <2>1 DEF Content
  <2> HIDE DEF b
  <2> QED
    BY <1>1, <1>8, <2>1, <2>2, <2>3, <2>4
<1>11. Others(h, o, c)
  <2>1. ASSUME NEW d \in DepotClasses, d # c
        PROVE  o.len[d] = h.ovf.len[d] /\ \A tag : InRing(o, d, tag) = InRing(h.ovf, d, tag)
    BY <1>4, <1>7, <1>8, <2>1
  <2> QED
    BY <1>4, <1>7, <2>1 DEF Others
<1>12. CASE h.ovf.len[c] # 0
  <2>1. g = Alter(h, cl, o)
    BY <1>5, <1>12
  <2>2. h.ovf.armed = Classes
    BY <1>1, <1>2, <1>8, <1>12, BytesPositive DEF Rung
  <2>3. ClassOK(o, y, c)
    <3>1. c \in o.armed <=> "TICK" \in y.marks
      BY <1>1, <1>2, <1>6, <1>7 DEF ClassOK
    <3> QED
      BY <1>1, <1>6, <1>9, <3>1 DEF ClassOK
  <2>4. Rung(o) /\ MarksOK(h.class[c], y)
    BY <1>6, <1>7, <2>2 DEF Rung, MarksOK
  <2>5. Keeps(h, g) /\ g.class[c] = y
    BY <1>1, <1>7, <1>10, <1>11, <2>1, <2>3, <2>4, OneAltered
  <2> QED
    BY <1>6, <2>5 DEF g
<1>13. CASE h.ovf.len[c] = 0
  <2> DEFINE cm == [k \in Classes |-> [cl[k] EXCEPT !.marks =
                                 cl[k].marks \cup IF k \in o.armed THEN {} ELSE {"TICK"}]]
             p == Relisted(o, o.starved, Classes)
  <2>1. g = Alter(h, cm, p)
    BY <1>5, <1>13
  <2>2. /\ OverflowOK(p) /\ p.armed = Classes /\ p.starved = o.starved /\ p.len = o.len
        /\ \A d \in DepotClasses : \A tag : InRing(p, d, tag) = InRing(o, d, tag)
    <3>1. o.starved \in SUBSET DepotClasses /\ Classes \in SUBSET Classes
      BY <1>7 DEF Overflow
    <3> HIDE DEF p
    <3>2. p = Relisted(o, o.starved, Classes)
      BY DEF p
    <3> QED
      BY <1>7, <3>1, <3>2, RelistedIs
  <2> HIDE DEF p
  <2>3. cl \in [Classes -> PerClass] /\ cl[c] = y /\ \A d \in Classes : d # c => cl[d] = h.class[d]
    BY <1>1, <1>2, <1>6
  <2> HIDE DEF cl
  <2>4. ASSUME NEW d \in Classes
        PROVE  /\ cm[d] \in PerClass /\ cm[d].slots = cl[d].slots
               /\ cm[d].virgin_mask = cl[d].virgin_mask /\ cm[d].floor = cl[d].floor
               /\ cm[d].ovf = cl[d].ovf /\ cm[d].limit = cl[d].limit
               /\ cm[d].marks = cl[d].marks \cup IF d \in o.armed THEN {} ELSE {"TICK"}
    <3> DEFINE t == IF d \in o.armed THEN {} ELSE {"TICK"}
    <3>1. cl[d] \in PerClass /\ cm[d] = [cl[d] EXCEPT !.marks = cl[d].marks \cup t]
      BY <2>3
    <3>2. t \subseteq {"TICK"}
      OBVIOUS
    <3> HIDE DEF t, cm
    <3>3. cm[d] \in PerClass
      BY <3>1, <3>2 DEF PerClass
    <3> QED
      BY <3>1, <3>3 DEF PerClass, t
  <2>5. cm \in [Classes -> PerClass]
    BY <2>4
  <2> HIDE DEF cm
  <2>6. ASSUME NEW d \in Classes
        PROVE  /\ "TICK" \in cm[d].marks
               /\ MarksOK(h.class[d], cm[d])
               /\ ClassOK(p, cm[d], d)
               /\ \A tag : Content(cm[d], p, d, tag) = Cached(h, d, tag)
    <3>1. "TICK" \in cm[d].marks
      <4>1. d \in o.armed => "TICK" \in cl[d].marks
        BY <1>2, <1>6, <1>7, <2>3 DEF ClassOK
      <4> QED
        BY <2>4, <4>1
    <3>2. CASE d = c
      <4>1. ClassOK(p, cm[d], d)
        BY <1>1, <1>9, <2>2, <2>3, <2>4, <3>1, <3>2 DEF ClassOK
      <4>2. MarksOK(h.class[d], cm[d])
        BY <1>6, <2>3, <2>4, <3>2 DEF MarksOK
      <4>3. \A tag : Content(cm[d], p, d, tag) = Content(y, o, c, tag)
        BY <1>1, <2>2, <2>3, <2>4, <3>2, Zenon DEF Content
      <4> QED
        BY <1>10, <3>1, <3>2, <4>1, <4>2, <4>3
    <3>3. CASE d # c
      <4>1. cl[d] = h.class[d] /\ ClassOK(h.ovf, h.class[d], d)
        BY <1>2, <2>3, <3>3
      <4>2. d \in DepotClasses => p.len[d] = h.ovf.len[d]
        BY <1>11, <2>2, <3>3 DEF Others
      <4>3. ClassOK(p, cm[d], d)
        BY <1>11, <2>2, <2>4, <3>1, <4>1, <4>2 DEF ClassOK, Others
      <4>4. MarksOK(h.class[d], cm[d])
        BY <2>4, <4>1 DEF MarksOK
      <4>5. ASSUME NEW tag
            PROVE  Content(cm[d], p, d, tag) = Cached(h, d, tag)
        <5>1. d \in DepotClasses => InRing(p, d, tag) = InRing(h.ovf, d, tag)
          BY <1>11, <2>2, <3>3 DEF Others
        <5>2. cm[d].slots = h.class[d].slots /\ cm[d].floor = h.class[d].floor
          BY <2>4, <4>1
        <5>3. Content(cm[d], p, d, tag) = Content(h.class[d], h.ovf, d, tag)
          BY <5>1, <5>2, Zenon DEF Content
        <5> QED
          BY <1>2, <5>3
      <4> QED
        BY <3>1, <4>3, <4>4, <4>5
    <3> QED
      BY <3>2, <3>3
  <2>7. Alters(h, cm, p)
    BY <2>2, <2>5, <2>6 DEF Alters, Rung
  <2>8. Balanced(h, cm, p)
    BY <2>6 DEF Balanced
  <2>9. Keeps(h, g) /\ g.class = cm
    BY <1>1, <2>1, <2>7, <2>8, AlterSound
  <2> QED
    BY <1>1, <1>6, <2>3, <2>4, <2>9 DEF g
<1> QED
  BY <1>12, <1>13

(* park_simple does what park_overflow would have done.                    *)
LEMMA ParkLane ==
    ASSUME setup \in Setups, NEW h, NEW c, Parkable(h, c), ParkIsSimple(h.ovf, c)
    PROVE  ParkOverflow(h, c, "ok") = [ok |-> TRUE, h |-> ParkSimple(h, c)]
<1> DEFINE s == h.class[c].slots
           o == h.ovf
           p == Park(o, c, s, "ok")
           o1 == Parked(o, c, s)
           e == Emptied(h, c)
           parked == [e EXCEPT !.ovf = p.o, !.class[c].ovf = 1]
           t == [parked EXCEPT !.ovf.events = @ + 1]
<1>1. Sound(h) /\ c \in DepotClasses /\ c \in Classes /\ s \in Full
  BY DEF Parkable
<1>2. /\ h \in Heaps /\ o \in Overflow /\ OverflowOK(o) /\ h.class \in [Classes -> PerClass]
      /\ h.class[c] \in PerClass
  BY <1>1, SoundIs
<1>3. /\ o.len[c] \in Nat /\ o.bytes \in Nat /\ o.events \in Nat /\ o.epoch_len \in Nat
      /\ mag_bytes[c] \in Nat \ {0} /\ cap_for(c) \in Nat /\ depot_budget \in Nat
  BY <1>1, <1>2, ConstantsAre DEF Overflow
<1>4. /\ o.len[c] > 0 /\ o.len[c] + 1 < cap_for(c) /\ o.bytes + mag_bytes[c] <= depot_budget
      /\ o.reserved /\ debt_mask(o) = {} /\ o.events + 1 < o.epoch_len
  BY DEF ParkIsSimple
<1>5. p = [ok |-> TRUE, o |-> o1]
  <2>1. ~ (o.bytes + mag_bytes[c] > depot_budget) /\ ensure_reserved(o, "ok") = o
    BY <1>3, <1>4 DEF ensure_reserved
  <2>2. o.reserved /\ o.len[c] < cap_for(c)
    BY <1>3, <1>4
  <2> QED
    BY <2>1, <2>2 DEF Park
<1>6. /\ OverflowOK(o1) /\ o1 \in Overflow /\ o1.debt = o.debt /\ o1.events = o.events
      /\ o1.epoch_len = o.epoch_len
  <2>1. o.len[c] < cap_for(c)
    BY <1>3, <1>4
  <2> HIDE DEF s, o
  <2> QED
    BY <1>1, <1>2, <1>4, <2>1, ParkedSound DEF OverflowOK, Alike
<1>7. o1.bytes # 0
  <2>1. o1.bytes = o.bytes + mag_bytes[c]
    BY <1>2 DEF Parked, Overflow
  <2> QED
    BY <1>3, <2>1
<1>8. e \in Heaps /\ e.ovf = o /\ e.class[c] \in PerClass
  BY <1>1, <1>2, NumberEmpty DEF Emptied, Heaps, PerClass
<1>9. p.o = o1 /\ p.ok
  <2> HIDE DEF o1, p
  <2> QED
    BY <1>5
<1> HIDE DEF e, o1, p, parked
<1>10. parked.ovf = o1 /\ t = [e EXCEPT !.ovf = [o1 EXCEPT !.events = @ + 1], !.class[c].ovf = 1]
  <2>1. parked = [e EXCEPT !.ovf = o1, !.class[c].ovf = 1]
    BY <1>9 DEF parked
  <2> QED
    BY <1>6, <1>8, <2>1 DEF Heaps, Overflow
<1>11. t.ovf = [o1 EXCEPT !.events = @ + 1]
  BY <1>8, <1>10 DEF Heaps
<1>12. t = ParkSimple(h, c)
  <2>1. ParkSimple(h, c) = [e EXCEPT !.ovf = [Parked(o, c, s) EXCEPT !.events = @ + 1],
                                     !.class[c].ovf = 1]
    BY DEF ParkSimple, e
  <2> QED
    BY <1>8, <1>10, <2>1 DEF o1
<1>13. Tick(parked) = t
  <2>1. parked.ovf.bytes # 0
    BY <1>7, <1>10
  <2>2. t.ovf.events = o.events + 1 /\ t.ovf.epoch_len = o.epoch_len /\ t.ovf.debt = o.debt
    BY <1>6, <1>11 DEF Overflow
  <2>3. ~ (t.ovf.events >= t.ovf.epoch_len) /\ debt_mask(t.ovf) = {}
    BY <1>3, <1>4, <2>2 DEF debt_mask
  <2> HIDE DEF t
  <2>4. t = [parked EXCEPT !.ovf.events = @ + 1]
    BY DEF t
  <2> QED
    BY <2>1, <2>3, <2>4 DEF Tick
<1>14. depot_budget # 0 /\ p.ok /\ ~ (o.len[c] + 1 >= cap_for(c)) /\ o.len[c] # 0
  BY <1>3, <1>4, <1>9
<1>15. ParkOverflow(h, c, "ok") = [ok |-> TRUE, h |-> Tick(parked)]
  BY <1>14 DEF ParkOverflow, parked, p, e
<1> QED
  BY <1>12, <1>13, <1>15

(* A park either empties the magazine or leaves it.                        *)
Parks(h, c, p) ==
    /\ Keeps(h, p.h)
    /\ p.ok => p.h.class[c].slots = <<>>
    /\ ~ p.ok => p.h.class[c].slots = h.class[c].slots

LEMMA ParkOverflowSound ==
    ASSUME setup \in Setups, NEW h, NEW c, Parkable(h, c), ~ FloorHasRoom(h, c), NEW os
    PROVE  Parks(h, c, ParkOverflow(h, c, os))
<1> DEFINE s == h.class[c].slots
           q == Park(h.ovf, c, s, os)
           p == ParkOverflow(h, c, os)
<1>1. Sound(h) /\ c \in DepotClasses /\ c \in Classes /\ s \in Full
  BY DEF Parkable
<1>2. h \in Heaps /\ OverflowOK(h.ovf) /\ h.ovf \in Overflow
  BY <1>1, SoundIs
<1>3. /\ OverflowOK(q.o)
      /\ q.ok => Stored(h.ovf, q.o, c, s)
      /\ ~ q.ok => Unstored(h.ovf, q.o)
  <2> HIDE DEF s
  <2> QED
    BY <1>1, <1>2, ParkSound
<1>4. q.ok => depot_budget # 0
  <2>1. ~ (h.ovf.bytes + mag_bytes[c] > depot_budget) \/ q = [ok |-> FALSE, o |-> h.ovf]
    BY DEF Park
  <2>2. h.ovf.bytes \in Nat /\ mag_bytes[c] \in Nat \ {0} /\ depot_budget \in Nat
    BY <1>1, <1>2, ConstantsAre DEF Overflow
  <2> HIDE DEF q
  <2> QED
    BY <2>1, <2>2
<1>5. p = IF depot_budget = 0 \/ ~ q.ok
            THEN [ok |-> FALSE, h |-> Latched([h EXCEPT !.ovf = q.o], c)]
            ELSE [ok |-> TRUE, h |-> Tick(Stowed(h, c, q.o))]
  BY DEF ParkOverflow, Stowed
<1> HIDE DEF p
<1>6. CASE ~ q.ok
  <2>1. ~ p.ok /\ p.h = Latched([h EXCEPT !.ovf = q.o], c)
    BY <1>5, <1>6
  <2> HIDE DEF q
  <2>2. Keeps(h, p.h) /\ p.h.class[c].slots = h.class[c].slots
    BY <1>3, <1>6, <2>1, RefusedSound
  <2> QED
    BY <2>1, <2>2 DEF Parks, p
<1>7. CASE q.ok
  <2>1. p.ok /\ p.h = Tick(Stowed(h, c, q.o))
    BY <1>4, <1>5, <1>7
  <2> DEFINE g == Stowed(h, c, q.o)
  <2> HIDE DEF q
  <2>2. Keeps(h, g) /\ g.class[c].slots = <<>>
    BY <1>3, <1>7, StowedSound
  <2> HIDE DEF g
  <2>3. Sound(g)
    BY <2>2 DEF Keeps
  <2>4. Stays(g, Tick(g))
    BY <2>3, TickSound
  <2>5. Keeps(h, Tick(g)) /\ Tick(g).class[c].slots = <<>>
    BY <1>1, <2>2, <2>4, KeepsAgain DEF Stays
  <2> QED
    BY <2>1, <2>5 DEF Parks, p, g
<1> QED
  BY <1>6, <1>7

LEMMA ParkFullSound ==
    ASSUME setup \in Setups, NEW h, Sound(h), NEW c \in Classes,
           Len(h.class[c].slots) >= FREE_PARK_CAP[c], NEW os
    PROVE  Parks(h, c, ParkFull(h, c, os))
<1> DEFINE p == ParkFull(h, c, os)
<1>1. CASE ~ depot_may_park(h, c)
  <2>1. p = [ok |-> FALSE, h |-> h]
    BY <1>1 DEF ParkFull
  <2>2. ~ p.ok /\ p.h = h
    BY <2>1
  <2> HIDE DEF p
  <2> QED
    BY <2>2, KeepsSelf DEF Parks, p
<1>2. CASE depot_may_park(h, c)
  <2>1. c \in DepotClasses
    BY <1>2 DEF depot_may_park
  <2>2. Parkable(h, c)
    BY <2>1, ParkableIs
  <2>3. CASE FloorHasRoom(h, c)
    <3>1. p = [ok |-> TRUE, h |-> ParkFloor(h, c)]
      BY <1>2, <2>3 DEF ParkFull
    <3>2. p.ok /\ p.h = ParkFloor(h, c)
      BY <3>1
    <3> HIDE DEF p
    <3> QED
      BY <2>2, <2>3, <3>2, ParkFloorSound DEF Parks, p
  <2>4. CASE ~ FloorHasRoom(h, c)
    <3>1. p = ParkOverflow(h, c, os) \/ p = ParkOverflow(h, c, "ok")
      <4>1. CASE ParkIsSimple(h.ovf, c)
        BY <1>2, <2>2, <2>4, <4>1, ParkLane DEF ParkFull
      <4>2. CASE ~ ParkIsSimple(h.ovf, c)
        BY <1>2, <2>4, <4>2 DEF ParkFull
      <4> QED
        BY <4>1, <4>2
    <3> QED
      BY <2>2, <2>4, <3>1, ParkOverflowSound
  <2> QED
    BY <2>3, <2>4
<1> QED
  BY <1>1, <1>2

-----------------------------------------------------------------------------
(* An empty magazine is reloaded                                           *)

LEMMA ReloadFloorSound ==
    ASSUME setup \in Setups, NEW h, Sound(h), NEW c \in Classes, h.class[c].slots = <<>>,
           h.class[c].floor # <<>>
    PROVE  Keeps(h, ReloadFloor(h, c))
<1> DEFINE x == h.class[c]
           f == x.floor
           m == Top(f)
           y == [x EXCEPT !.slots = m, !.virgin_mask = {}, !.floor = Front(f)]
           g == ReloadFloor(h, c)
<1>1. /\ h \in Heaps /\ h.class \in [Classes -> PerClass] /\ h.ovf \in Overflow
      /\ OverflowOK(h.ovf) /\ Rung(h.ovf) /\ ClassOK(h.ovf, x, c)
      /\ \A tag : Cached(h, c, tag) = Content(x, h.ovf, c, tag)
  BY SoundIs
<1>2. x \in PerClass /\ f \in Seq(Full) /\ f # <<>> /\ x.slots = <<>>
  BY <1>1, ClassIs
<1>3. /\ Front(f) \in Seq(Full) /\ Len(Front(f)) = Len(f) - 1
      /\ m \in Full /\ m \in Magazine /\ Len(f) > 0
      /\ \A tag : Cardinality(Places(f, tag))
                    = Cardinality(Places(Front(f), tag)) + Number(m, tag)
  <2> HIDE DEF f
  <2> QED
    BY <1>2, FloorTop
<1>4. g = Alter(h, [h.class EXCEPT ![c] = y], h.ovf)
  <2> DEFINE z == [x EXCEPT !.floor = Front(f)]
             a == [h EXCEPT !.class[c].floor = Front(@)]
  <2>1. a = [h EXCEPT !.class = [h.class EXCEPT ![c] = z]]
    BY <1>1 DEF Heaps, PerClass
  <2>2. z \in PerClass
    BY <1>2, <1>3 DEF PerClass
  <2>3. g = Reloaded(a, c, m)
    BY DEF ReloadFloor
  <2>4. y = [z EXCEPT !.slots = m, !.virgin_mask = {}]
    BY <1>2 DEF PerClass
  <2> HIDE DEF g, a, x, y, z, m
  <2>5. g = [h EXCEPT !.class = [h.class EXCEPT ![c] = [z EXCEPT !.slots = m, !.virgin_mask = {}]]]
    BY <1>1, <2>1, <2>2, <2>3 DEF Reloaded, Heaps, PerClass
  <2> QED
    BY <1>1, <2>4, <2>5 DEF Alter, Heaps
<1> HIDE DEF g, m
<1>5. /\ y \in PerClass /\ y.slots = m /\ y.floor = Front(f) /\ y.virgin_mask = {}
      /\ y.limit = x.limit /\ y.ovf = x.ovf /\ y.marks = x.marks
  BY <1>2, <1>3 DEF PerClass
<1> HIDE DEF y, x, f
<1>6. /\ Len(m) = TCACHE_CAP /\ Len(f) \in Nat /\ TCACHE_CAP \in Nat
  BY <1>2, <1>3, FloorIs, MagazineIs, ConstantsAre
<1>7. ClassOK(h.ovf, y, c)
  <2> DEFINE top == IF c \in DepotClasses THEN DEPOT_K[c] ELSE 0
  <2>1. Len(f) <= top /\ top \in Nat
    BY <1>1, ConstantsAre DEF ClassOK, f
  <2> HIDE DEF top
  <2>2. Len(y.floor) <= top /\ Len(f) <= top /\ ~ (Len(f) <= 0)
    BY <1>3, <1>5, <1>6, <2>1
  <2>3. c \in DepotClasses
    BY <2>2 DEF top
  <2>4. Len(y.slots) <= FREE_PARK_CAP[c]
    BY <1>5, <1>6, <2>3, ConstantsAre
  <2> QED
    BY <1>1, <1>5, <2>2, <2>4 DEF ClassOK, top
<1>8. \A tag : Content(y, h.ovf, c, tag) = Cached(h, c, tag)
  <2> TAKE tag
  <2> DEFINE b == Cardinality(Places(Front(f), tag))
             d == IF c \in DepotClasses THEN InRing(h.ovf, c, tag) ELSE 0
  <2>1. /\ b \in Nat /\ Number(m, tag) \in Nat /\ Number(<<>>, tag) = 0
    BY <1>3, FloorIs, MagazineIs, NumberType, NumberEmpty
  <2>2. d \in Nat
    BY <1>1, InRingType DEF OverflowOK
  <2>3. Cached(h, c, tag) = 0 + (b + Number(m, tag)) + d
    BY <1>1, <1>2, <1>3, <2>1, Zenon DEF Content, f
  <2>4. Content(y, h.ovf, c, tag) = Number(m, tag) + b + d
    BY <1>5, Zenon DEF Content
  <2> HIDE DEF b, d
  <2> QED
    BY <2>1, <2>2, <2>3, <2>4
<1>9. Others(h, h.ovf, c) /\ MarksOK(h.class[c], y)
  BY <1>1, <1>5 DEF Others, MarksOK
<1> QED
  BY <1>1, <1>4, <1>7, <1>8, <1>9, OneAltered DEF x, g

LEMMA IngressIs ==
    ASSUME setup \in Setups, NEW o, OverflowOK(o), NEW p, p = ingress_due(o)
    PROVE  /\ Spared(o, p) /\ p.armed = o.armed /\ p.starved = o.starved
           /\ p.len = o.len /\ p.bytes = o.bytes
<1> DEFINE n == (o.reloads_since_ingress + 1) % INGRESS_PERIOD
<1>1. o \in Overflow /\ o.reloads_since_ingress \in Nat
  BY DEF OverflowOK, Overflow
<1>2. n \in Nat
  BY <1>1, ConstantsAre
<1>3. p = [o EXCEPT !.reloads_since_ingress = n]
  BY DEF ingress_due
<1> HIDE DEF n
<1>4. p \in Overflow
  BY <1>1, <1>2, <1>3 DEF Overflow
<1>5. /\ (o.reserved => p.reserved) /\ p.armed = o.armed /\ p.starved = o.starved
      /\ p.ring = o.ring /\ p.len = o.len /\ p.head = o.head /\ p.bytes = o.bytes
      /\ p.committed = o.committed /\ p.debt = o.debt /\ p.low = o.low
  BY <1>1, <1>3 DEF Overflow
<1>6. \A d \in DepotClasses : /\ o.committed[d] \in Nat
                              /\ o.debt[d] <= o.len[d] /\ o.low[d] <= o.len[d]
  BY <1>1, OverflowIs DEF OverflowOK, BooksBalance
<1>7. \A d \in DepotClasses : /\ p.committed[d] >= o.committed[d]
                              /\ p.debt[d] <= p.len[d] /\ p.low[d] <= p.len[d]
  BY <1>5, <1>6
<1> QED
  BY <1>4, <1>5, <1>7 DEF Spared

(* Off the ring and into the magazine.                                     *)
LEMMA DrawnSound ==
    ASSUME setup \in Setups, NEW h, Sound(h), NEW c \in DepotClasses, h.class[c].slots = <<>>,
           h.ovf.len[c] > 0, NEW o, NEW m, Drawn(h.ovf, o, c, m)
    PROVE  Keeps(h, Reloaded([h EXCEPT !.ovf = o, !.class[c].ovf = HintAfter(h.ovf.len[c])], c, m))
<1> DEFINE x == h.class[c]
           hint == HintAfter(h.ovf.len[c])
           y == [x EXCEPT !.slots = m, !.virgin_mask = {}, !.ovf = hint]
           a == [h EXCEPT !.ovf = o, !.class[c].ovf = hint]
           g == Reloaded(a, c, m)
<1>1. /\ h \in Heaps /\ h.class \in [Classes -> PerClass] /\ h.ovf \in Overflow
      /\ OverflowOK(h.ovf) /\ Rung(h.ovf) /\ c \in Classes
      /\ \A d \in Classes : ClassOK(h.ovf, h.class[d], d)
      /\ \A d, tag : Cached(h, d, tag) = Content(h.class[d], h.ovf, d, tag)
  BY SoundIs, ConstantsAre
<1>2. /\ OverflowOK(o) /\ o \in Overflow /\ m \in Full /\ m \in Magazine
      /\ Len(m) = TCACHE_CAP /\ m \in Seq(Tags) /\ TCACHE_CAP \in Nat
      /\ (\A d \in DepotClasses : \A tag :
            InRing(h.ovf, d, tag) = InRing(o, d, tag) + IF d = c THEN Number(m, tag) ELSE 0)
      /\ (\A d \in DepotClasses : h.ovf.len[d] = o.len[d] + IF d = c THEN 1 ELSE 0)
      /\ h.ovf.armed = o.armed /\ h.ovf.starved = o.starved
      /\ h.ovf.bytes = o.bytes + mag_bytes[c]
  BY MagazineIs, ConstantsAre DEF Drawn, Stored, OverflowOK
<1>3. /\ \A d \in DepotClasses : o.len[d] \in Nat
      /\ \A d \in DepotClasses : \A tag : InRing(o, d, tag) \in Nat
      /\ mag_bytes[c] \in Nat /\ o.bytes \in Nat
  BY <1>2, InRingType, OverflowIs, ConstantsAre DEF OverflowOK, Overflow
<1>4. x \in PerClass /\ x.slots = <<>>
  BY <1>1
<1>5. hint = (IF o.len[c] > 0 THEN 1 ELSE 0) /\ hint \in {0, 1}
  BY <1>2, <1>3, HintIs
<1> HIDE DEF hint
<1>6. g = Alter(h, [h.class EXCEPT ![c] = y], o)
  <2> DEFINE z == [x EXCEPT !.ovf = hint]
  <2>1. a = [h EXCEPT !.class = [h.class EXCEPT ![c] = z], !.ovf = o]
    BY <1>1 DEF Heaps, PerClass
  <2>2. z \in PerClass
    BY <1>4, <1>5 DEF PerClass
  <2>3. y = [z EXCEPT !.slots = m, !.virgin_mask = {}]
    BY <1>4 DEF PerClass
  <2>4. g = Reloaded(a, c, m)
    OBVIOUS
  <2> HIDE DEF g, a, x, y, z
  <2>5. g = [h EXCEPT !.class = [h.class EXCEPT ![c] = [z EXCEPT !.slots = m, !.virgin_mask = {}]],
                      !.ovf = o]
    BY ZenonT(60), <1>1, <1>2, <2>1, <2>2, <2>4 DEF Reloaded, Heaps, PerClass
  <2> QED
    BY <2>3, <2>5 DEF Alter
<1> HIDE DEF g
<1>7. /\ y \in PerClass /\ y.slots = m /\ y.floor = x.floor /\ y.virgin_mask = {}
      /\ y.limit = x.limit /\ y.ovf = hint /\ y.marks = x.marks
  BY <1>2, <1>4, <1>5 DEF PerClass
<1> HIDE DEF y, x
<1>8. ClassOK(o, y, c)
  <2>1. Len(y.slots) <= FREE_PARK_CAP[c]
    BY <1>2, <1>7, ConstantsAre
  <2>2. ClassOK(h.ovf, x, c)
    BY <1>1 DEF x
  <2> QED
    BY <1>2, <1>5, <1>7, <2>1, <2>2 DEF ClassOK
<1>9. \A tag : Content(y, o, c, tag) = Cached(h, c, tag)
  <2> TAKE tag
  <2> DEFINE b == Cardinality(Places(x.floor, tag))
  <2>1. b \in Nat /\ Number(m, tag) \in Nat /\ Number(<<>>, tag) = 0
    BY <1>1, <1>2, <1>4, ClassIs, FloorIs, NumberType, NumberEmpty DEF x
  <2>2. Cached(h, c, tag) = 0 + b + InRing(h.ovf, c, tag)
    BY <1>1, <1>4, <2>1 DEF Content, x
  <2>3. InRing(h.ovf, c, tag) = InRing(o, c, tag) + Number(m, tag) /\ InRing(o, c, tag) \in Nat
    BY <1>2, <1>3
  <2>4. Content(y, o, c, tag) = Number(m, tag) + b + InRing(o, c, tag)
    BY <1>7 DEF Content
  <2> HIDE DEF b
  <2> QED
    BY <2>1, <2>2, <2>3, <2>4
<1>10. Others(h, o, c)
  <2>1. ASSUME NEW d \in DepotClasses, d # c
        PROVE  o.len[d] = h.ovf.len[d] /\ \A tag : InRing(o, d, tag) = InRing(h.ovf, d, tag)
    BY <1>2, <1>3, <2>1
  <2> QED
    BY <1>2, <2>1 DEF Others
<1>11. Rung(o) /\ MarksOK(h.class[c], y)
  BY <1>1, <1>2, <1>3, <1>7 DEF Rung, MarksOK
<1>12. Keeps(h, g)
  BY <1>1, <1>2, <1>6, <1>8, <1>9, <1>10, <1>11, OneAltered DEF x
<1> QED
  BY <1>12 DEF g, hint

LEMMA ReloadOverflowSound ==
    ASSUME setup \in Setups, NEW h, Sound(h), NEW c \in DepotClasses, h.class[c].slots = <<>>,
           h.ovf.len[c] > 0
    PROVE  Keeps(h, ReloadOverflow(h, c))
<1> DEFINE m == RingTop(h, c)
           r == reload(h.ovf, c)
           o == ingress_due(r)
           g == Reloaded([h EXCEPT !.ovf = o, !.class[c].ovf = HintAfter(h.ovf.len[c])], c, m)
<1>1. OverflowOK(h.ovf) /\ h \in Heaps
  BY SoundIs
<1>2. Drawn(h.ovf, r, c, m)
  <2>1. m = h.ovf.ring[c][Newest(h.ovf, c)]
    BY DEF RingTop, Newest
  <2> HIDE DEF m, r
  <2>2. Lesser(h.ovf, r, c, Newest(h.ovf, c))
    BY <1>1, ReloadSound DEF r
  <2> QED
    BY <1>1, <2>1, <2>2, LesserDraws
<1>3. ReloadOverflow(h, c) = Unstarved(g)
  BY DEF ReloadOverflow
<1> HIDE DEF m, r
<1>4. OverflowOK(r) /\ Stored(r, h.ovf, c, m) /\ m \in Full
  BY <1>2 DEF Drawn
<1>5. /\ Spared(r, o) /\ o.armed = r.armed /\ o.starved = r.starved
      /\ o.len = r.len /\ o.bytes = r.bytes
  BY <1>4, IngressIs
<1> HIDE DEF o
<1>6. OverflowOK(o) /\ \A d \in DepotClasses : \A tag : InRing(o, d, tag) = InRing(r, d, tag)
  BY <1>4, <1>5, SparedSound
<1>7. Drawn(h.ovf, o, c, m)
  BY <1>4, <1>5, <1>6 DEF Drawn, Stored
<1>8. Keeps(h, g)
  BY <1>7, DrawnSound
<1> HIDE DEF g
<1>9. Stays(g, Unstarved(g))
  BY <1>8, UnstarvedSound DEF Keeps
<1> QED
  BY <1>3, <1>8, <1>9, KeepsAgain DEF Stays

Loading(h, c, hint, m, o) == Reloaded([h EXCEPT !.ovf = o, !.class[c].ovf = hint], c, m)
Loaded(h, c, hint, m) ==
    [h.class EXCEPT ![c] = [h.class[c] EXCEPT !.slots = m, !.virgin_mask = {}, !.ovf = hint]]

LEMMA ReloadedIs ==
    ASSUME NEW h \in Heaps, NEW c \in Classes, NEW o, NEW hint \in {0, 1}, NEW m
    PROVE  Loading(h, c, hint, m, o) = Alter(h, Loaded(h, c, hint, m), o)
<1> DEFINE x == h.class[c]
           y == [x EXCEPT !.slots = m, !.virgin_mask = {}, !.ovf = hint]
           a == [h EXCEPT !.ovf = o, !.class[c].ovf = hint]
           g == Reloaded(a, c, m)
           z == [x EXCEPT !.ovf = hint]
<1>1. h.class \in [Classes -> PerClass] /\ x \in PerClass
  BY DEF Heaps
<1>2. a = [h EXCEPT !.class = [h.class EXCEPT ![c] = z], !.ovf = o]
  BY <1>1 DEF Heaps, PerClass
<1>3. z \in PerClass
  BY <1>1 DEF PerClass
<1>4. y = [z EXCEPT !.slots = m, !.virgin_mask = {}] 
  BY <1>1 DEF PerClass
<1>5. g = Reloaded(a, c, m)
  OBVIOUS
<1> HIDE DEF g, a, x, y, z
<1>6. g = [h EXCEPT !.class = [h.class EXCEPT ![c] = [z EXCEPT !.slots = m, !.virgin_mask = {}]],
                    !.ovf = o]
  BY ZenonT(60), <1>1, <1>2, <1>3, <1>5 DEF Reloaded, Heaps, PerClass
<1> QED
  BY <1>4, <1>6 DEF Alter, g, a, x, y, Loading, Loaded

(* A heap with nobody waiting is not changed by looking who can go on.     *)
LEMMA NoneStarved ==
    ASSUME NEW h \in Heaps, NEW cl \in [Classes -> PerClass], NEW o \in Overflow, o.starved = {}
    PROVE  Unstarved(Alter(h, cl, o)) = Alter(h, cl, o)
<1> DEFINE g == Alter(h, cl, o)
<1>1. g \in Heaps /\ g.class = cl /\ g.ovf = o
  BY DEF Alter, Heaps
<1> HIDE DEF g
<1>2. Ready(g.ovf) = {}
  BY <1>1 DEF Ready
<1>3. Unstarved(g) = [g EXCEPT !.ovf.starved = @ \ {}, !.class = [c \in Classes |-> cl[c]]]
  BY <1>1, <1>2 DEF Unstarved
<1>4. [c \in Classes |-> cl[c]] = cl
  OBVIOUS
<1>5. g.ovf.starved \ {} = o.starved
  BY <1>1
<1>6. Unstarved(g) = [g EXCEPT !.ovf = [o EXCEPT !.starved = o.starved], !.class = cl]
  BY <1>1, <1>3, <1>4, <1>5
<1>7. [o EXCEPT !.starved = o.starved] = o
  BY DEF Overflow
<1>8. [g EXCEPT !.ovf = g.ovf, !.class = g.class] = g
  BY <1>1 DEF Heaps
<1> QED
  BY <1>1, <1>6, <1>7, <1>8 DEF g

(* reload_simple does what reload_overflow and the tick would have done.   *)
LEMMA ReloadLane ==
    ASSUME setup \in Setups, NEW h, Sound(h), NEW c \in DepotClasses, ReloadIsSimple(h.ovf, c)
    PROVE  Tick(ReloadOverflow(h, c)) = ReloadSimple(h, c)
<1> DEFINE o == h.ovf
           k == Slot(o, c, o.len[c] - 1)
           r == reload(o, c)
           s == Shortened(o, c, k)
           m == RingTop(h, c)
           hint == HintAfter(o.len[c])
           cl == Loaded(h, c, hint, m)
           o2 == [s EXCEPT !.reloads_since_ingress = @ + 1]
           o3 == [s EXCEPT !.reloads_since_ingress = @ + 1,
                           !.events = @ + IF s.bytes = 0 THEN 0 ELSE 1]
           g == Alter(h, cl, o2)
<1>1. /\ h \in Heaps /\ h.class \in [Classes -> PerClass] /\ o \in Overflow /\ OverflowOK(o)
      /\ c \in Classes
  BY SoundIs, ConstantsAre
<1>2. /\ o.len[c] \in Nat /\ o.bytes \in Nat /\ o.events \in Nat /\ o.epoch_len \in Nat
      /\ o.reloads_since_ingress \in Nat /\ o.debt \in [DepotClasses -> Nat]
      /\ mag_bytes[c] \in Nat /\ INGRESS_PERIOD \in Nat \ {0}
  BY <1>1, ConstantsAre DEF Overflow
<1>3. /\ o.len[c] > 0 /\ debt_mask(o) = {} /\ o.starved = {}
      /\ o.reloads_since_ingress + 1 < INGRESS_PERIOD
      /\ o.bytes # mag_bytes[c] => o.events + 1 < o.epoch_len
  BY DEF ReloadIsSimple
<1>4. o.debt[c] = 0
  BY <1>2, <1>3 DEF debt_mask
<1>5. /\ s.bytes = o.bytes - mag_bytes[c] /\ s.debt = o.debt /\ s.starved = o.starved
      /\ s.events = o.events /\ s.epoch_len = o.epoch_len
      /\ s.reloads_since_ingress = o.reloads_since_ingress
  BY <1>1 DEF Shortened, Overflow
<1>6. r = s
  <2>1. r = [s EXCEPT !.debt[c] = Smaller(@, o.len[c] - 1)]
    BY DEF reload
  <2>2. Smaller(s.debt[c], o.len[c] - 1) = 0
    BY <1>2, <1>3, <1>4, <1>5 DEF Smaller
  <2>3. r = [s EXCEPT !.debt = [o.debt EXCEPT ![c] = 0]]
    BY <1>5, <2>1, <2>2
  <2>4. [o.debt EXCEPT ![c] = 0] = o.debt
    BY <1>2, <1>4
  <2>5. r = [s EXCEPT !.debt = s.debt]
    BY <1>5, <2>3, <2>4
  <2> HIDE DEF r
  <2>6. [s EXCEPT !.debt = s.debt] = s
    BY <1>1 DEF Shortened, Overflow
  <2> QED
    BY <2>5, <2>6
<1>7. s \in Overflow
  <2>1. Lesser(o, r, c, Newest(o, c))
    BY <1>1, <1>3, ReloadSound
  <2> QED
    BY <1>6, <2>1 DEF Lesser, OverflowOK
<1>8. m \in Magazine
  <2>1. Lesser(o, r, c, Newest(o, c))
    BY <1>1, <1>3, ReloadSound
  <2>2. m = o.ring[c][Newest(o, c)]
    BY DEF RingTop, Newest
  <2> HIDE DEF m, r, o
  <2>3. Drawn(o, r, c, m)
    BY <1>1, <2>1, <2>2, LesserDraws
  <2> QED
    BY <2>3, MagazineIs, ConstantsAre DEF Drawn
<1> HIDE DEF s, r, k
<1>9. ingress_due(r) = o2
  <2>1. ingress_due(s) = [s EXCEPT !.reloads_since_ingress =
                             (s.reloads_since_ingress + 1) % INGRESS_PERIOD]
    BY DEF ingress_due
  <2>2. (s.reloads_since_ingress + 1) % INGRESS_PERIOD = s.reloads_since_ingress + 1
    BY <1>2, <1>3, <1>5
  <2> QED
    BY <1>6, <2>1, <2>2
<1>10. o2 \in Overflow /\ o2.starved = {} /\ o2.bytes = s.bytes /\ o2.debt = o.debt
       /\ o2.events = o.events /\ o2.epoch_len = o.epoch_len
  <2> DEFINE n == s.reloads_since_ingress + 1
  <2>1. n \in Nat
    BY <1>2, <1>5
  <2>2. o2 = [s EXCEPT !.reloads_since_ingress = n]
    OBVIOUS
  <2> HIDE DEF n, o2
  <2>3. o2 \in Overflow
    BY <1>7, <2>1, <2>2 DEF Overflow
  <2>4. o2.starved = s.starved /\ o2.bytes = s.bytes /\ o2.debt = s.debt
        /\ o2.events = s.events /\ o2.epoch_len = s.epoch_len
    BY <1>7, <2>2 DEF Overflow
  <2> QED
    BY <1>3, <1>5, <2>3, <2>4
<1>11. hint \in {0, 1}
  BY DEF HintAfter
<1>12. cl \in [Classes -> PerClass]
  BY <1>1, <1>8, <1>11 DEF PerClass, Loaded
<1> HIDE DEF m, hint
<1>13. ReloadOverflow(h, c) = Unstarved(Loading(h, c, hint, m, o2))
  BY <1>9 DEF ReloadOverflow, m, hint, r, Loading
<1>14. \A p : Loading(h, c, hint, m, p) = Alter(h, cl, p)
  BY <1>1, <1>11, ReloadedIs
<1>15. ReloadOverflow(h, c) = g
  <2> HIDE DEF o2, cl
  <2> QED
    BY <1>1, <1>10, <1>12, <1>13, <1>14, NoneStarved
<1>16. ReloadSimple(h, c) = Alter(h, cl, o3)
  <2>1. ReloadSimple(h, c) = Loading(h, c, hint, m, o3)
    BY DEF ReloadSimple, s, k, m, hint, Loading
  <2> HIDE DEF o3, cl
  <2> QED
    BY <1>14, <2>1
<1> HIDE DEF cl
<1>17. g.ovf = o2 /\ g \in Heaps /\ g.class = cl
  <2> HIDE DEF o2
  <2> QED
    BY <1>1, <1>10, <1>12 DEF Alter, Heaps
<1>18. CASE s.bytes = 0
  <2>1. o3 = [o2 EXCEPT !.events = o2.events]
    <3>1. s.events + (IF s.bytes = 0 THEN 0 ELSE 1) = o2.events
      BY <1>2, <1>5, <1>10, <1>18
    <3> QED
      BY <1>7, <3>1 DEF Overflow
  <2>a. o3 = o2
    <3> HIDE DEF o2, o3
    <3> QED
      BY <1>10, <2>1 DEF Overflow
  <2>2. Tick(g) = g
    BY <1>10, <1>17, <1>18 DEF Tick
  <2> QED
    BY <1>15, <1>16, <2>a, <2>2
<1>19. CASE s.bytes # 0
  <2> DEFINE t == [g EXCEPT !.ovf.events = @ + 1]
  <2>1. o.events + 1 < o.epoch_len
    BY <1>2, <1>3, <1>5, <1>19
  <2>2. o3 = [o2 EXCEPT !.events = @ + 1] /\ o3 \in Overflow
    <3>1. o3 = [o2 EXCEPT !.events = o.events + 1]
      <4>1. s.events + (IF s.bytes = 0 THEN 0 ELSE 1) = o.events + 1
        BY <1>2, <1>5, <1>19
      <4> QED
        BY <1>7, <4>1 DEF Overflow
    <3> HIDE DEF o2, o3
    <3>2. o3 \in Overflow
      <4> DEFINE n == o.events + 1
      <4>1. n \in Nat /\ o3 = [o2 EXCEPT !.events = n]
        BY <1>2, <3>1
      <4> HIDE DEF n
      <4> QED
        BY <1>10, <4>1 DEF Overflow
    <3> QED
      BY <1>10, <3>1, <3>2
  <2>3. t = [g EXCEPT !.ovf = o3]
    BY <1>17, <2>2
  <2>4. t.ovf = o3 /\ t = Alter(h, cl, o3)
    <3> HIDE DEF o3, t, o2
    <3>1. t.ovf = o3
      BY <1>17, <2>3 DEF Heaps
    <3>2. t = Alter(h, cl, o3)
      BY <1>1, <2>3 DEF Alter, Heaps
    <3> QED
      BY <3>1, <3>2
  <2>5. o3.events = o.events + 1 /\ o3.epoch_len = o.epoch_len /\ o3.debt = o.debt
    BY <1>5, <1>7, <1>19 DEF Overflow
  <2> HIDE DEF o3
  <2>6. ~ (t.ovf.events >= t.ovf.epoch_len) /\ debt_mask(t.ovf) = {}
    BY <1>2, <1>3, <2>1, <2>4, <2>5 DEF debt_mask
  <2>7. g.ovf.bytes # 0
    BY <1>10, <1>17, <1>19
  <2> HIDE DEF g, t
  <2>8. t = [g EXCEPT !.ovf.events = @ + 1]
    BY DEF t
  <2>9. Tick(g) = t
    BY <2>6, <2>7, <2>8 DEF Tick
  <2> QED
    BY <1>15, <1>16, <2>4, <2>9
<1> QED
  BY <1>18, <1>19

LEMMA RefilledSound ==
    ASSUME setup \in Setups, NEW h, Sound(h), NEW c \in Classes, h.class[c].slots = <<>>,
           NEW zeroed
    PROVE  Keeps(h, Refilled(h, c, zeroed))
<1>1. h \in Heaps /\ OverflowOK(h.ovf) /\ ClassOK(h.ovf, h.class[c], c)
  BY SoundIs
<1>2. Stays(h, SegmentTick(h, c))
  BY SegmentTickSound
<1>3. CASE ~ (c \in DepotClasses /\ depot_may_reload(h, c))
  BY <1>2, <1>3 DEF Refilled, Stays
<1>4. CASE c \in DepotClasses /\ depot_may_reload(h, c)
  <2>1. CASE h.class[c].floor # <<>>
    BY <1>4, <2>1, ReloadFloorSound DEF Refilled
  <2>2. CASE h.class[c].floor = <<>>
    <3>1. h.class[c].ovf = 1 /\ h.class[c].ovf = IF h.ovf.len[c] > 0 THEN 1 ELSE 0
      BY <1>1, <1>4, <2>2 DEF depot_may_reload, ClassOK
    <3>2. h.ovf.len[c] > 0 /\ h.ovf.len[c] # 0
      BY <3>1
    <3>3. \/ Refilled(h, c, zeroed) = ReloadSimple(h, c) /\ ReloadIsSimple(h.ovf, c)
          \/ Refilled(h, c, zeroed) = Tick(ReloadOverflow(h, c))
      BY <1>4, <2>2, <3>2 DEF Refilled
    <3>4. Refilled(h, c, zeroed) = Tick(ReloadOverflow(h, c))
      BY <1>4, <3>3, ReloadLane
    <3> DEFINE g == ReloadOverflow(h, c)
    <3>5. Keeps(h, g)
      BY <1>4, <3>2, ReloadOverflowSound
    <3> HIDE DEF g
    <3>6. Stays(g, Tick(g))
      BY <3>5, TickSound DEF Keeps
    <3> QED
      BY <3>4, <3>5, <3>6, KeepsAgain DEF Stays, g
  <2> QED
    BY <2>1, <2>2
<1> QED
  BY <1>3, <1>4

-----------------------------------------------------------------------------
(* A heap that keeps nothing                                               *)

LEMMA EmptyBooks ==
    ASSUME setup \in Setups, NEW o \in Overflow, o.bytes = 0,
           \A d \in DepotClasses :
             /\ o.len[d] = 0 /\ o.head[d] = 0 /\ o.low[d] = 0 /\ o.debt[d] = 0
             /\ DOMAIN o.ring[d] = 1 .. cap_for(d)
    PROVE  OverflowOK(o) /\ \A d \in DepotClasses : \A tag : InRing(o, d, tag) = 0
<1>1. /\ Numbers(Bytes(o), DepotClasses) /\ DOMAIN Bytes(o) = DepotClasses
      /\ IsFiniteSet(DepotClasses)
  BY BytesAre, ConstantsAre
<1>2. \A d \in DepotClasses : Bytes(o)[d] = 0
  <2>1. \A d \in DepotClasses : mag_bytes[d] \in Nat
    BY ConstantsAre
  <2> QED
    BY <2>1 DEF Bytes
<1>3. Rows(Bytes(o), DepotClasses) = {}
  BY <1>2 DEF Rows
<1>4. Sum(Bytes(o)) = 0
  BY <1>1, <1>3, SumCounts, FS_EmptySet
<1>5. \A d \in DepotClasses : InUse(o, d) = {}
  BY DEF InUse
<1>6. depot_budget \in Nat /\ \A d \in DepotClasses : cap_for(d) \in Nat
  BY ConstantsAre
<1>7. BooksBalance(o)
  <2>1. o.bytes = Sum([c \in DepotClasses |-> o.len[c] * mag_bytes[c]])
    BY <1>4 DEF Bytes
  <2> QED
    BY <1>5, <1>6, <2>1 DEF BooksBalance
<1>8. OverflowOK(o)
  BY <1>6, <1>7 DEF OverflowOK, Unbacked, RingOK
<1>9. ASSUME NEW d \in DepotClasses, NEW tag
      PROVE  InRing(o, d, tag) = 0
  <2>1. DOMAIN Records(o, d) = {}
    BY <1>5 DEF Records
  <2> QED
    BY <2>1, PlacesNone DEF InRing
<1> QED
  BY <1>8, <1>9

LEMMA NoRecordsAre ==
    ASSUME setup \in Setups
    PROVE  /\ NoRecords \in [DepotClasses -> Seq(Magazine)] /\ Zero \in [DepotClasses -> Nat]
           /\ \A d \in DepotClasses : DOMAIN NoRecords[d] = 1 .. cap_for(d) /\ Zero[d] = 0
<1>1. ASSUME NEW d \in DepotClasses
      PROVE  [i \in 1 .. cap_for(d) |-> <<>>] \in Seq(Magazine)
  <2> DEFINE n == cap_for(d)
  <2>1. n \in Nat /\ <<>> \in Magazine
    BY ConstantsAre, NumberEmpty
  <2> HIDE DEF n
  <2> QED
    BY <2>1 DEF n
<1> QED
  BY <1>1 DEF NoRecords, Zero

LEMMA ReleasedIs ==
    ASSUME setup \in Setups, NEW q \in Overflow, NEW o, o = PagesReleased(q)
    PROVE  /\ OverflowOK(o) /\ (\A d \in DepotClasses : \A tag : InRing(o, d, tag) = 0)
           /\ o.armed = {} /\ o.bytes = 0 /\ o.starved = q.starved
           /\ \A d \in DepotClasses : o.len[d] = 0
<1> DEFINE el == IF q.reserved THEN EPOCH_MIN ELSE q.epoch_len
<1>1. /\ NoRecords \in [DepotClasses -> Seq(Magazine)] /\ Zero \in [DepotClasses -> Nat]
      /\ \A d \in DepotClasses : DOMAIN NoRecords[d] = 1 .. cap_for(d) /\ Zero[d] = 0
  BY NoRecordsAre
<1>2. el \in Nat
  BY ConstantsAre DEF Overflow
<1>3. o = [q EXCEPT !.armed = {}, !.bytes = 0, !.ring = NoRecords, !.len = Zero, !.head = Zero,
                    !.low = Zero, !.debt = Zero, !.committed = Zero, !.parked_in_epoch = {},
                    !.events = 0, !.epoch_len = el,
                    !.reloads_since_ingress = 0, !.reserve_failed = FALSE]
  BY DEF PagesReleased
<1> HIDE DEF el
<1>4. o \in Overflow
  <2> DEFINE a == [q EXCEPT !.ring = NoRecords, !.len = Zero, !.head = Zero, !.low = Zero,
                            !.debt = Zero, !.committed = Zero]
             b == [a EXCEPT !.armed = {}, !.bytes = 0, !.parked_in_epoch = {}, !.events = 0,
                            !.epoch_len = el, !.reloads_since_ingress = 0,
                            !.reserve_failed = FALSE]
  <2>1. a \in Overflow
    BY <1>1 DEF Overflow
  <2>2. o = b
    BY <1>3 DEF Overflow
  <2> HIDE DEF a
  <2>3. b \in Overflow
    BY <1>2, <2>1 DEF Overflow
  <2> QED
    BY <2>2, <2>3
<1>5. /\ o.armed = {} /\ o.bytes = 0 /\ o.starved = q.starved /\ o.len = Zero /\ o.head = Zero
      /\ o.low = Zero /\ o.debt = Zero /\ o.ring = NoRecords
  BY <1>3 DEF Overflow
<1> QED
  BY <1>1, <1>4, <1>5, EmptyBooks

(* Nothing cached: a class as it is at the start.                          *)
Bare(y) == y.slots = <<>> /\ y.virgin_mask = {} /\ y.floor = <<>> /\ y.ovf = 0 /\ y.marks = {}

LEMMA BareIs ==
    ASSUME setup \in Setups, NEW o, NEW y \in PerClass, Bare(y), NEW d \in Classes,
           d \notin o.armed,
           d \in DepotClasses =>
             /\ o.len[d] = 0 /\ \A tag : InRing(o, d, tag) = 0
             /\ y.limit = open_limit(d) \/ (y.limit = DEPOT_K[d] /\ d \in o.starved)
    PROVE  ClassOK(o, y, d) /\ \A tag : Content(y, o, d, tag) = 0
<1>1. /\ FREE_PARK_CAP[d] \in Nat /\ (d \in DepotClasses => DEPOT_K[d] \in Nat)
      /\ Len(<<>>) = 0
  BY ConstantsAre
<1>2. ClassOK(o, y, d)
  <2>1. Len(y.slots) <= FREE_PARK_CAP[d]
    BY <1>1 DEF Bare
  <2>2. Len(y.floor) <= IF d \in DepotClasses THEN DEPOT_K[d] ELSE 0
    BY <1>1 DEF Bare
  <2> QED
    BY <2>1, <2>2 DEF ClassOK, Bare
<1>3. ASSUME NEW tag
      PROVE  Content(y, o, d, tag) = 0
  <2>1. Number(y.slots, tag) = 0 /\ Cardinality(Places(y.floor, tag)) = 0
    BY NumberEmpty, PlacesNone DEF Bare
  <2> QED
    BY <2>1 DEF Content
<1> QED
  BY <1>2, <1>3

(* Trim: all that the classes keep goes back, the pages of the rings too.  *)
LEMMA DrainedSound ==
    ASSUME setup \in Setups, NEW h, Sound(h)
    PROVE  Keeps(h, [Drained(h) EXCEPT !.ovf = PagesReleased(@)])
<1> DEFINE kept == \E c \in Classes : Cached(h, c, "it") > 0
           cl == [c \in Classes |-> [h.class[c] EXCEPT !.slots = <<>>, !.virgin_mask = {},
                                        !.floor = <<>>, !.ovf = 0, !.marks = {}]]
           sg == IF kept THEN [live |-> h.seg.live - 1, state |-> "FREE", zeroed |-> FALSE]
                 ELSE h.seg
           fr == [c \in Classes |-> h.free[c] + Cached(h, c, "other")]
           o == PagesReleased(h.ovf)
           g == [Drained(h) EXCEPT !.ovf = PagesReleased(@)]
<1>1. /\ h \in Heaps /\ h.class \in [Classes -> PerClass] /\ h.ovf \in Overflow
      /\ Shape(h) /\ Base(h) /\ InHand(h, 0, 0) /\ Fresh(h)
      /\ \A d \in Classes : ClassOK(h.ovf, h.class[d], d)
  BY SoundIs DEF Sound, Base
<1>2. g = [h EXCEPT !.class = cl, !.seg = sg, !.free = fr, !.ovf = o]
  BY <1>1 DEF Drained, Heaps
<1> HIDE DEF g
<1>3. /\ OverflowOK(o) /\ (\A d \in DepotClasses : \A tag : InRing(o, d, tag) = 0)
      /\ o.armed = {} /\ o.bytes = 0 /\ o.starved = h.ovf.starved
      /\ (\A d \in DepotClasses : o.len[d] = 0) /\ o \in Overflow
  BY <1>1, ReleasedIs DEF OverflowOK
<1> HIDE DEF o
<1>4. ASSUME NEW d \in Classes
      PROVE  cl[d] \in PerClass /\ Bare(cl[d]) /\ cl[d].limit = h.class[d].limit
  <2> DEFINE x == h.class[d]
             y == [x EXCEPT !.slots = <<>>, !.virgin_mask = {}, !.floor = <<>>, !.ovf = 0,
                            !.marks = {}]
  <2>1. cl[d] = y /\ x \in PerClass
    BY <1>1
  <2> HIDE DEF x, cl
  <2>2. <<>> \in Magazine /\ <<>> \in Seq(Full)
    BY NumberEmpty
  <2>3. y \in PerClass
    BY <2>1, <2>2 DEF PerClass
  <2>4. Bare(y) /\ y.limit = x.limit
    BY <2>1 DEF Bare, PerClass
  <2> QED
    BY <2>1, <2>3, <2>4 DEF x
<1>5. cl \in [Classes -> PerClass]
  BY <1>4
<1> HIDE DEF cl
<1>6. ASSUME NEW d \in Classes
      PROVE  ClassOK(o, cl[d], d) /\ \A tag : Content(cl[d], o, d, tag) = 0
  <2>1. d \in DepotClasses =>
          cl[d].limit = open_limit(d) \/ (cl[d].limit = DEPOT_K[d] /\ d \in o.starved)
    BY <1>1, <1>3, <1>4 DEF ClassOK
  <2> QED
    BY <1>3, <1>4, <2>1, BareIs
<1>7. \A d \in Classes : \A tag : Cached(h, d, tag) \in Nat /\ h.free[d] \in Nat
  BY <1>1, CachedType, ClassIs
<1>8. h.seg \in Segment /\ h.seg.live \in Int
  BY <1>1 DEF Heaps, Segment
<1>9. sg \in Segment /\ fr \in [Classes -> Nat] /\ \A d \in Classes : fr[d] = Out(h, d)
  BY <1>7, <1>8 DEF Segment, Out
<1>10. ASSUME NEW d \in Classes, Cached(h, d, "it") > 0
       PROVE  h.seg.state = "MAG"
  <2>1. Cached(h, d, "it") + (IF d = 0 THEN 0 ELSE 0) = IF d = setup.it THEN Held(h, 0, 0) ELSE 0
    BY <1>1 DEF InHand
  <2> QED
    BY <1>7, <1>10, <2>1 DEF Held
<1>11. h.seg.state = "MAG" => kept
  <2> SUFFICES ASSUME h.seg.state = "MAG" PROVE kept
    OBVIOUS
  <2>1. setup.it \in Classes
    BY <1>1 DEF InHand
  <2>2. Cached(h, setup.it, "it") + (IF setup.it = 0 THEN 0 ELSE 0) = 1
    BY <1>1, <2>1 DEF InHand, Held
  <2>3. Cached(h, setup.it, "it") > 0
    BY <1>7, <2>1, <2>2
  <2> QED
    BY <2>1, <2>3
<1>12. kept => h.seg.state = "MAG" /\ h.seg.live = 1
  BY <1>1, <1>10 DEF InHand
<1> HIDE DEF kept, fr
<1>13. /\ sg.state # "MAG" /\ (sg.state = "LIVE" <=> h.seg.state = "LIVE")
       /\ sg.live = (IF sg.state \in {"MAG", "LIVE"} THEN 1 ELSE 0)
       /\ (sg.state \in {"MAG", "LIVE"} => setup.it \in Classes)
       /\ (sg.state = "NONE" => sg.zeroed)
  <2>1. CASE kept
    BY <1>12, <2>1
  <2>2. CASE ~ kept
    BY <1>1, <1>11, <2>2 DEF InHand, Fresh
  <2> QED
    BY <2>1, <2>2
<1> HIDE DEF sg
<1>14. g \in Heaps /\ g.class = cl /\ g.ovf = o /\ g.seg = sg /\ g.free = fr
  BY <1>1, <1>2, <1>3, <1>5, <1>9 DEF Heaps
<1>15. Shape(g) /\ DepotSound(g)
  <2>1. Rung(o)
    BY <1>3 DEF Rung
  <2> QED
    BY <1>3, <1>6, <1>14, <2>1, DepotIs
<1>16. Base(g)
  <2>1. VirginIn(g)
    BY <1>4, <1>14 DEF VirginIn, Bare
  <2>2. Fresh(g)
    BY <1>13, <1>14 DEF Fresh
  <2> QED
    BY <1>15, <2>1, <2>2 DEF Base
<1>17. \A d \in Classes : \A tag : Cached(g, d, tag) = 0
  BY <1>6, <1>14 DEF Cached, Content, InRing
<1>18. InHand(g, 0, 0)
  <2>1. Held(g, 0, 0) = 0
    BY <1>13, <1>14 DEF Held
  <2> QED
    BY <1>13, <1>14, <1>17, <2>1 DEF InHand
<1>19. \A d \in Classes : Out(g, d) = Out(h, d)
  <2> TAKE d \in Classes
  <2>1. Out(h, d) \in Nat /\ Out(g, d) = fr[d] + 0
    BY <1>7, <1>14, <1>17 DEF Out
  <2> QED
    BY <1>9, <2>1
<1>20. Keeps(h, g)
  BY <1>13, <1>14, <1>16, <1>18, <1>19 DEF Keeps, Sound
<1> QED
  BY <1>20 DEF g

-----------------------------------------------------------------------------
(* The inductive invariant                                                 *)

(* The blocks that the user has are those that the heap does not have.     *)
Accounted(h, u) ==
    /\ u \in [Classes -> [Tags -> Nat]]
    /\ \A c \in Classes : /\ u[c]["it"] = IF c = setup.it THEN LiveNow(h) ELSE 0
                          /\ Out(h, c) + u[c]["other"] = setup.others[c]

IInv == setup \in Setups /\ Sound(Heap) /\ Accounted(Heap, user)

(* The setup stays, so what is said of a heap is said of it after a step.  *)
LEMMA CapsStay ==
    ASSUME setup' = setup
    PROVE  /\ depot_budget' = depot_budget /\ \A c : cap_for(c)' = cap_for(c)
           /\ \A c : open_limit(c)' = open_limit(c)
<1>1. depot_budget' = depot_budget /\ \A c : cap_for(c)' = cap_for(c)
  BY DEF cap_for, depot_budget
<1> QED
  BY <1>1 DEF open_limit

LEMMA RingsStay ==
    ASSUME setup' = setup
    PROVE  /\ \A o, c : InUse(o, c)' = InUse(o, c)
           /\ \A h, c, tag : Cached(h, c, tag)' = Cached(h, c, tag)
<1>1. \A o, c, i : Slot(o, c, i)' = Slot(o, c, i)
  BY CapsStay DEF Slot
<1>2. \A o, c : InUse(o, c)' = InUse(o, c)
  BY <1>1 DEF InUse
<1>3. \A o, c : Records(o, c)' = Records(o, c)
  BY <1>2 DEF Records
<1>4. \A h, c, tag : Cached(h, c, tag)' = Cached(h, c, tag)
  BY <1>3 DEF Cached
<1> QED
  BY <1>2, <1>4

LEMMA SoundStays ==
    ASSUME setup' = setup, NEW h, Sound(h)
    PROVE  Sound(h)'
<1>1. WithinCaps(h)'
  BY CapsStay DEF WithinCaps, Sound, Base, Shape
<1>2. LatchIsStarved(h)'
  BY CapsStay DEF LatchIsStarved, Sound, Base, DepotSound
<1>3. BooksBalance(h.ovf)'
  BY CapsStay, RingsStay DEF BooksBalance, Sound, Base, DepotSound
<1>4. RecordsAreReachable(h)'
  BY DEF RecordsAreReachable, Sound, Base, DepotSound
<1>5. Unbacked(h.ovf)' /\ VirginIn(h)' /\ Fresh(h)'
  BY DEF Unbacked, VirginIn, Fresh, Sound, Base, DepotSound
<1>6. InHand(h, 0, 0)'
  BY RingsStay DEF InHand, Held, Sound
<1>7. h \in Heaps
  BY DEF Sound, Base, Shape
<1>8. Shape(h)'
  BY <1>1, <1>7 DEF Shape, Heaps
<1>9. DepotSound(h)'
  BY <1>2, <1>3, <1>4, <1>5 DEF DepotSound
<1>10. Base(h)'
  BY <1>5, <1>8, <1>9 DEF Base
<1> QED
  BY <1>6, <1>10 DEF Sound

LEMMA AccountStays ==
    ASSUME setup' = setup, NEW h, NEW u, Accounted(h, u)
    PROVE  Accounted(h, u)'
<1>1. \A c : Out(h, c)' = Out(h, c)
  BY RingsStay DEF Out
<1> QED
  BY <1>1 DEF Accounted, LiveNow

(* A call is over: the heap is h, or a segment of it was released.         *)
LEMMA CallEnds ==
    ASSUME IInv, NEW h, Sound(h), Becomes(h),
           \A g : Keeps(h, g) => Accounted(g, user')
    PROVE  IInv'
<1>1. setup \in Setups
  BY DEF IInv
<1>2. PICK g \in Settled(h) :
        /\ class' = g.class /\ ovf' = g.ovf /\ seg' = g.seg /\ free' = g.free
        /\ setup' = setup
  BY DEF Becomes
<1>3. Keeps(h, g) /\ Sound(g) /\ g \in Heaps
  BY <1>1, SettledSound DEF Keeps, Sound, Base, Shape
<1>4. Heap' = g
  BY <1>2, <1>3 DEF Heap, Heaps
<1>5. Sound(g)'
  BY <1>2, <1>3, SoundStays
<1>6. PICK u : u = user'
  OBVIOUS
<1>7. Accounted(g, u)'
  BY <1>2, <1>3, <1>6, AccountStays
<1>8. Sound(Heap)'
  BY <1>4, <1>5
<1>9. Accounted(Heap, user)'
  BY <1>4, <1>6, <1>7
<1> QED
  BY <1>1, <1>2, <1>8, <1>9 DEF IInv

-----------------------------------------------------------------------------
(* The calls                                                               *)

LEMMA KeptCall ==
    ASSUME IInv, NEW h, Keeps(Heap, h), Becomes(h), user' = user
    PROVE  IInv'
<1>1. Accounted(Heap, user)
  BY DEF IInv
<1>2. ASSUME NEW g, Keeps(h, g)
      PROVE  Accounted(g, user)
  <2>1. Keeps(Heap, g)
    BY <1>2, KeepsAgain
  <2>2. LiveNow(g) = LiveNow(Heap) /\ \A c \in Classes : Out(g, c) = Out(Heap, c)
    BY <2>1 DEF Keeps, LiveNow
  <2> QED
    BY <1>1, <2>2 DEF Accounted
<1>3. Sound(h)
  BY DEF Keeps
<1> QED
  BY <1>2, <1>3, CallEnds

LEMMA GiftAccounts ==
    ASSUME setup \in Setups, NEW h, NEW u, Accounted(h, u), Sound(h), NEW g, NEW c \in Classes,
           NEW some \in Seq(Tags), Gave(h, g, c, some), NEW x, Keeps(g, x), NEW v,
           v = [u EXCEPT ![c] = [tag \in Tags |-> u[c][tag] + Number(some, tag)]]
    PROVE  Accounted(x, v)
<1>1. /\ u \in [Classes -> [Tags -> Nat]]
      /\ \A d \in Classes : /\ u[d]["it"] = IF d = setup.it THEN LiveNow(h) ELSE 0
                            /\ Out(h, d) + u[d]["other"] = setup.others[d]
  BY DEF Accounted
<1>2. \A tag : Number(some, tag) \in Nat
  BY NumberType
<1>3. v \in [Classes -> [Tags -> Nat]]
  <2> DEFINE w == [tag \in Tags |-> u[c][tag] + Number(some, tag)]
  <2>1. w \in [Tags -> Nat]
    BY <1>1, <1>2
  <2> HIDE DEF w
  <2> QED
    BY <1>1, <2>1 DEF w
<1>4. ASSUME NEW d \in Classes, NEW tag \in Tags
      PROVE  v[d][tag] = u[d][tag] + IF d = c THEN Number(some, tag) ELSE 0
  BY <1>1, <1>2
<1>5. LiveNow(x) = LiveNow(g) /\ LiveNow(g) = LiveNow(h) + Number(some, "it")
      /\ LiveNow(h) \in Nat /\ (Number(some, "it") > 0 => c = setup.it)
  BY DEF Keeps, LiveNow, Gave
<1>6. ASSUME NEW d \in Classes
      PROVE  /\ Out(x, d) = Out(g, d) /\ Out(x, d) \in Nat
             /\ Out(g, d) + (IF d = c THEN Number(some, "other") ELSE 0) = Out(h, d)
  <2>1. Shape(x)
    BY DEF Keeps, Sound, Base
  <2>2. Out(x, d) \in Nat
    BY <2>1, CachedType, ClassIs DEF Out, Shape
  <2> QED
    BY <2>2 DEF Keeps, Gave
<1>7. ASSUME NEW d \in Classes
      PROVE  /\ v[d]["it"] = IF d = setup.it THEN LiveNow(x) ELSE 0
             /\ Out(x, d) + v[d]["other"] = setup.others[d]
  <2>1. /\ v[d]["it"] = u[d]["it"] + (IF d = c THEN Number(some, "it") ELSE 0)
        /\ v[d]["other"] = u[d]["other"] + (IF d = c THEN Number(some, "other") ELSE 0)
    BY <1>4 DEF Tags
  <2>2. /\ u[d]["it"] = IF d = setup.it THEN LiveNow(h) ELSE 0
        /\ Out(h, d) + u[d]["other"] = setup.others[d] /\ u[d]["other"] \in Nat
    BY <1>1 DEF Tags
  <2>3. Number(some, "it") \in Nat /\ Number(some, "other") \in Nat
    BY <1>2
  <2>4. v[d]["it"] = IF d = setup.it THEN LiveNow(x) ELSE 0
    BY <1>5, <2>1, <2>2, <2>3
  <2>5. Out(x, d) + v[d]["other"] = setup.others[d]
    BY SMTT(30), <1>6, <2>1, <2>2, <2>3
  <2> QED
    BY <2>4, <2>5
<1> QED
  BY <1>3, <1>7 DEF Accounted

LEMMA GiftCall ==
    ASSUME IInv, NEW h, NEW c \in Classes, NEW some \in Seq(Tags), Gave(Heap, h, c, some),
           Becomes(h), Gets(c, some)
    PROVE  IInv'
<1>1. setup \in Setups /\ Sound(Heap) /\ Accounted(Heap, user) /\ Sound(h)
  BY DEF IInv, Gave
<1>2. user' = [user EXCEPT ![c] = [tag \in Tags |-> user[c][tag] + Number(some, tag)]]
  BY DEF Gets
<1>3. ASSUME NEW g, Keeps(h, g)
      PROVE  Accounted(g, user')
  <2> DEFINE v == [user EXCEPT ![c] = [tag \in Tags |-> user[c][tag] + Number(some, tag)]]
  <2>1. Accounted(g, v)
    BY <1>1, <1>3, GiftAccounts
  <2> QED
    BY <1>2, <2>1
<1> QED
  BY <1>1, <1>3, CallEnds

LEMMA ReturnAccounts ==
    ASSUME setup \in Setups, NEW h, NEW u, Accounted(h, u), Sound(h), NEW g, NEW c \in Classes,
           NEW some \in Seq(Tags), Took(h, g, c, some), NEW x, Keeps(g, x), NEW v,
           \A tag \in Tags : Number(some, tag) <= u[c][tag],
           v = [u EXCEPT ![c] = [tag \in Tags |-> u[c][tag] - Number(some, tag)]]
    PROVE  Accounted(x, v)
<1>1. /\ u \in [Classes -> [Tags -> Nat]]
      /\ \A d \in Classes : /\ u[d]["it"] = IF d = setup.it THEN LiveNow(h) ELSE 0
                            /\ Out(h, d) + u[d]["other"] = setup.others[d]
  BY DEF Accounted
<1>2. \A tag : Number(some, tag) \in Nat
  BY NumberType
<1>3. v \in [Classes -> [Tags -> Nat]]
  <2> DEFINE w == [tag \in Tags |-> u[c][tag] - Number(some, tag)]
  <2>1. w \in [Tags -> Nat]
    BY <1>1, <1>2
  <2> HIDE DEF w
  <2> QED
    BY <1>1, <2>1 DEF w
<1>4. ASSUME NEW d \in Classes, NEW tag \in Tags
      PROVE  v[d][tag] = u[d][tag] - IF d = c THEN Number(some, tag) ELSE 0
  BY <1>1, <1>2
<1>5. LiveNow(x) = LiveNow(g) /\ LiveNow(g) + Number(some, "it") = LiveNow(h)
      /\ LiveNow(g) \in Nat /\ (Number(some, "it") > 0 => c = setup.it)
  <2>1. Number(some, "it") <= IF c = setup.it THEN LiveNow(h) ELSE 0
    BY <1>1 DEF Tags
  <2>2. Number(some, "it") > 0 => c = setup.it
    BY <1>2, <2>1
  <2> QED
    BY <2>2 DEF Keeps, LiveNow, Took
<1>6. ASSUME NEW d \in Classes
      PROVE  /\ Out(x, d) = Out(g, d) /\ Out(h, d) \in Nat
             /\ Out(g, d) = Out(h, d) + (IF d = c THEN Number(some, "other") ELSE 0)
  <2>1. Shape(h)
    BY DEF Sound, Base
  <2>2. Out(h, d) \in Nat
    BY <2>1, CachedType, ClassIs DEF Out, Shape
  <2> QED
    BY <2>2 DEF Keeps, Took
<1>7. ASSUME NEW d \in Classes
      PROVE  /\ v[d]["it"] = IF d = setup.it THEN LiveNow(x) ELSE 0
             /\ Out(x, d) + v[d]["other"] = setup.others[d]
  <2>1. /\ v[d]["it"] = u[d]["it"] - (IF d = c THEN Number(some, "it") ELSE 0)
        /\ v[d]["other"] = u[d]["other"] - (IF d = c THEN Number(some, "other") ELSE 0)
    BY <1>4 DEF Tags
  <2>2. /\ u[d]["it"] = IF d = setup.it THEN LiveNow(h) ELSE 0
        /\ Out(h, d) + u[d]["other"] = setup.others[d] /\ u[d]["other"] \in Nat
    BY <1>1 DEF Tags
  <2>3. Number(some, "it") \in Nat /\ Number(some, "other") \in Nat
    BY <1>2
  <2>4. v[d]["it"] = IF d = setup.it THEN LiveNow(x) ELSE 0
    BY <1>5, <2>1, <2>2, <2>3
  <2>5. Out(x, d) + v[d]["other"] = setup.others[d]
    BY <1>6, <2>1, <2>2, <2>3
  <2> QED
    BY <2>4, <2>5
<1> QED
  BY <1>3, <1>7 DEF Accounted

LEMMA ReturnCall ==
    ASSUME IInv, NEW h, NEW c \in Classes, NEW some \in Seq(Tags), Took(Heap, h, c, some),
           Becomes(h), Gives(c, some)
    PROVE  IInv'
<1>1. setup \in Setups /\ Sound(Heap) /\ Accounted(Heap, user) /\ Sound(h)
  BY DEF IInv, Took
<1>2. /\ \A tag \in Tags : Number(some, tag) <= user[c][tag]
      /\ user' = [user EXCEPT ![c] = [tag \in Tags |-> user[c][tag] - Number(some, tag)]]
  BY DEF Gives
<1>3. ASSUME NEW g, Keeps(h, g)
      PROVE  Accounted(g, user')
  BY <1>1, <1>2, <1>3, ReturnAccounts
<1> QED
  BY <1>1, <1>3, CallEnds

(* What the user gives back is his.                                        *)
LEMMA GivesLive ==
    ASSUME IInv, NEW c \in Classes, NEW some \in Seq(Tags), Gives(c, some)
    PROVE  Number(some, "it") <= IF c = setup.it THEN LiveNow(Heap) ELSE 0
BY DEF IInv, Accounted, Gives, Tags

LEMMA KeptGift ==
    \A h, g, x, c, s : Keeps(h, g) /\ Gave(g, x, c, s) => Gave(h, x, c, s)
BY DEF Keeps, Gave, LiveNow

LEMMA HeapIs ==
    /\ Heap.class = class /\ Heap.ovf = ovf /\ Heap.seg = seg /\ Heap.free = free
BY DEF Heap

LEMMA HitStep ==
    ASSUME IInv, NEW c \in Classes, Hit(c)
    PROVE  IInv'
<1>1. setup \in Setups /\ Sound(Heap) /\ Heap \in Heaps
  BY DEF IInv, Sound, Base, Shape
<1>2. Heap.class[c].slots # <<>> /\ Becomes(Issue(Heap, c)) /\ Gets(c, <<Top(Heap.class[c].slots)>>)
  BY HeapIs DEF Hit
<1> DEFINE s == Heap.class[c].slots
<1>3. Gave(Heap, Issue(Heap, c), c, <<Top(s)>>)
  BY <1>1, <1>2, IssueSound
<1>4. <<Top(s)>> \in Seq(Tags)
  <2>1. s \in Seq(Tags) /\ s # <<>>
    BY <1>1, <1>2, ClassIs
  <2> HIDE DEF s
  <2> QED
    BY <2>1 DEF Top
<1> HIDE DEF s
<1> QED
  BY <1>2, <1>3, <1>4, GiftCall DEF s

LEMMA MissStep ==
    ASSUME IInv, NEW c \in Classes, NEW zeroed \in BOOLEAN, Miss(c, zeroed)
    PROVE  IInv'
<1> DEFINE h == Refilled(Heap, c, zeroed)
<1>1. setup \in Setups /\ Sound(Heap) /\ Heap.class[c].slots = <<>>
  BY HeapIs DEF IInv, Miss
<1>2. Keeps(Heap, h)
  BY <1>1, RefilledSound
<1>3. IF h.class[c].slots # <<>>
        THEN Becomes(Issue(h, c)) /\ Gets(c, <<Top(h.class[c].slots)>>)
        ELSE \E some \in Found(h, c, FREE_PARK_CAP[c]) :
               IF some = <<>> THEN Becomes(h) /\ UNCHANGED user
               ELSE /\ Becomes(Issue(Filled(h, c, some, zeroed), c))
                    /\ Gets(c, <<Top(some)>>)
  BY DEF Miss
<1> HIDE DEF h
<1>4. Sound(h) /\ h \in Heaps
  BY <1>2 DEF Keeps, Sound, Base, Shape
<1>5. CASE h.class[c].slots # <<>>
  <2> DEFINE s == h.class[c].slots
  <2>1. Gave(Heap, Issue(h, c), c, <<Top(s)>>)
    BY <1>1, <1>2, <1>4, <1>5, IssueSound, KeptGift
  <2>2. <<Top(s)>> \in Seq(Tags)
    <3>1. s \in Seq(Tags) /\ s # <<>>
      BY <1>4, <1>5, ClassIs
    <3> HIDE DEF s
    <3> QED
      BY <3>1 DEF Top
  <2>3. Becomes(Issue(h, c)) /\ Gets(c, <<Top(s)>>)
    BY <1>3, <1>5
  <2> HIDE DEF s
  <2> QED
    BY <2>1, <2>2, <2>3, GiftCall
<1>6. CASE h.class[c].slots = <<>>
  <2>1. PICK some \in Found(h, c, FREE_PARK_CAP[c]) :
          IF some = <<>> THEN Becomes(h) /\ UNCHANGED user
          ELSE /\ Becomes(Issue(Filled(h, c, some, zeroed), c))
               /\ Gets(c, <<Top(some)>>)
    BY <1>3, <1>6
  <2>2. CASE some = <<>>
    BY <1>2, <2>1, <2>2, KeptCall
  <2>3. CASE some # <<>>
    <3> DEFINE g == Filled(h, c, some, zeroed)
    <3>1. Keeps(h, g) /\ g.class[c].slots = some
      BY <1>1, <1>4, <1>6, FilledSound
    <3>2. Becomes(Issue(g, c)) /\ Gets(c, <<Top(some)>>)
      BY <2>1, <2>3
    <3> HIDE DEF g
    <3>3. Keeps(Heap, g) /\ Sound(g) /\ g \in Heaps
      BY <1>2, <3>1, KeepsAgain DEF Keeps, Sound, Base, Shape
    <3>4. Gave(Heap, Issue(g, c), c, <<Top(some)>>)
      BY <1>1, <2>3, <3>1, <3>3, IssueSound, KeptGift
    <3>5. <<Top(some)>> \in Seq(Tags)
      <4>1. some \in Seq(Tags)
        BY <3>1, <3>3, ClassIs
      <4> QED
        BY <2>3, <4>1 DEF Top
    <3> QED
      BY <3>2, <3>4, <3>5, GiftCall
  <2> QED
    BY <2>2, <2>3
<1> QED
  BY <1>5, <1>6

LEMMA MadeKept ==
    ASSUME setup \in Setups, NEW h, NEW x, Keeps(h, x), NEW c \in Classes, NEW k \in Nat,
           k <= IF c = setup.it THEN LiveNow(h) ELSE 0
    PROVE  Made(h, x, c, k)
<1>1. Sound(x) /\ LiveNow(x) = LiveNow(h)
  BY DEF Keeps, LiveNow
<1>2. InHand(x, c, k) /\ Base(x)
  BY <1>1, HandGives
<1> QED
  BY <1>2 DEF Made, Keeps

LEMMA FreeStep ==
    ASSUME IInv, NEW c \in Classes, NEW tag \in Tags, Free(c, tag)
    PROVE  IInv'
<1> DEFINE k == Number(<<tag>>, "it")
<1>1. setup \in Setups /\ Sound(Heap) /\ Gives(c, <<tag>>) /\ <<tag>> \in Seq(Tags)
  BY DEF IInv, Free
<1>2. k \in Nat /\ k <= IF c = setup.it THEN LiveNow(Heap) ELSE 0
  BY <1>1, GivesLive, NumberType
<1>3. tag = "it" => Heap.seg.state = "LIVE"
  <2>1. tag = "it" => k = 1
    BY NumberOne
  <2> QED
    BY <1>2, <2>1 DEF LiveNow
<1> HIDE DEF k
<1>4. ASSUME NEW x, Keeps(Heap, x)
      PROVE  Made(Heap, x, c, k)
  BY <1>1, <1>2, <1>4, MadeKept
<1>5. ASSUME NEW h, Took(Heap, h, c, <<tag>>), Becomes(h)
      PROVE  IInv'
  BY <1>1, <1>5, ReturnCall
<1>6. CASE Len(Heap.class[c].slots) < FREE_PARK_CAP[c]
  <2>1. Becomes(Pushed(Heap, c, <<tag>>))
    BY <1>6, HeapIs DEF Free
  <2>2. Made(Heap, Heap, c, k)
    BY <1>1, <1>4, KeepsSelf
  <2>3. Took(Heap, Pushed(Heap, c, <<tag>>), c, <<tag>>)
    BY <1>1, <1>3, <1>6, <2>2, PushOne DEF k
  <2> QED
    BY <1>5, <2>1, <2>3
<1>7. CASE ~ (Len(Heap.class[c].slots) < FREE_PARK_CAP[c])
  <2>1. PICK os \in {"ok", "no_reserve", "no_commit"} :
          LET p == ParkFull(Heap, c, os)
          IN  Becomes(Pushed(IF p.ok THEN p.h
                             ELSE IF FREE_PARK_CAP[c] < TCACHE_CAP THEN Evicted(p.h, c)
                             ELSE HalfFlushed(p.h, c), c, <<tag>>))
    BY <1>7, HeapIs DEF Free
  <2> DEFINE p == ParkFull(Heap, c, os)
             s == Heap.class[c].slots
  <2>2. Heap \in Heaps /\ ClassOK(Heap.ovf, Heap.class[c], c)
    BY <1>1, SoundIs
  <2>3. /\ FREE_PARK_CAP[c] \in 1 .. TCACHE_CAP /\ TCACHE_CAP \in Nat /\ Len(s) \in Nat
        /\ Len(s) = FREE_PARK_CAP[c] /\ s \in Seq(Tags)
    <3>1. /\ FREE_PARK_CAP[c] \in 1 .. TCACHE_CAP /\ TCACHE_CAP \in Nat /\ s \in Seq(Tags)
          /\ Len(s) \in 0 .. TCACHE_CAP /\ Len(s) <= FREE_PARK_CAP[c]
      BY <1>1, <2>2, ClassIs, ConstantsAre DEF ClassOK
    <3> HIDE DEF s
    <3>2. ~ (Len(s) < FREE_PARK_CAP[c])
      BY <1>7 DEF s
    <3> QED
      BY <3>1, <3>2
  <2>4. Parks(Heap, c, p)
    <3>1. Len(Heap.class[c].slots) >= FREE_PARK_CAP[c]
      BY <2>3
    <3> HIDE DEF p, s
    <3> QED
      BY <1>1, <3>1, ParkFullSound DEF p
  <2>5. Becomes(Pushed(IF p.ok THEN p.h
                       ELSE IF FREE_PARK_CAP[c] < TCACHE_CAP THEN Evicted(p.h, c)
                       ELSE HalfFlushed(p.h, c), c, <<tag>>))
    BY <2>1
  <2> HIDE DEF p, s
  <2>6. Keeps(Heap, p.h) /\ Made(Heap, p.h, c, k)
    BY <1>4, <2>4 DEF Parks
  <2>7. CASE p.ok
    <3>1. Len(p.h.class[c].slots) < FREE_PARK_CAP[c]
      BY <2>3, <2>4, <2>7 DEF Parks
    <3>2. Took(Heap, Pushed(p.h, c, <<tag>>), c, <<tag>>)
      BY <1>1, <1>3, <2>6, <3>1, PushOne DEF k
    <3> QED
      BY <1>5, <2>5, <2>7, <3>2
  <2>8. CASE ~ p.ok /\ FREE_PARK_CAP[c] < TCACHE_CAP
    <3>1. p.h.class[c].slots = s /\ s # <<>>
      BY <2>3, <2>4, <2>8 DEF Parks, s
    <3>2. Took(Heap, Pushed(Evicted(p.h, c), c, <<tag>>), c, <<tag>>)
      BY <1>1, <1>3, <2>6, <3>1, EvictedSound DEF k
    <3> QED
      BY <1>5, <2>5, <2>8, <3>2
  <2>9. CASE ~ p.ok /\ ~ (FREE_PARK_CAP[c] < TCACHE_CAP)
    <3> DEFINE x == HalfFlushed(p.h, c)
    <3>1. FREE_PARK_CAP[c] = TCACHE_CAP
      BY <2>3, <2>9
    <3>2. p.h.class[c].slots = s
      BY <2>4, <2>9 DEF Parks, s
    <3>3. Base(p.h) /\ InHand(p.h, c, k)
      BY <2>6 DEF Made
    <3>4. Made(p.h, x, c, k) /\ Len(x.class[c].slots) < TCACHE_CAP
      BY <1>1, <1>2, <2>3, <3>1, <3>2, <3>3, HalfFlushedSound
    <3> HIDE DEF x
    <3>5. Made(Heap, x, c, k)
      BY <2>6, <3>4 DEF Made
    <3>6. Took(Heap, Pushed(x, c, <<tag>>), c, <<tag>>)
      BY <1>1, <1>3, <3>1, <3>4, <3>5, PushOne DEF k
    <3> QED
      BY <1>5, <2>5, <2>9, <3>6 DEF x
  <2> QED
    BY <2>7, <2>8, <2>9
<1> QED
  BY <1>6, <1>7

LEMMA DeallocBatchStep ==
    ASSUME IInv, NEW c \in Classes, NEW some \in Batches, DeallocBatch(c, some)
    PROVE  IInv'
<1> DEFINE room == Smaller(RoomFor(c), Len(some))
           h == Flush(Pushed(Heap, c, SubSeq(some, 1, room)), c,
                      SubSeq(some, room + 1, Len(some)))
           s == class[c].slots
<1>1. setup \in Setups /\ Sound(Heap) /\ Gives(c, some) /\ Becomes(h)
  BY DEF IInv, DeallocBatch
<1>2. some \in Seq(Tags) /\ Len(some) \in Nat
  <2>1. BATCH_MAX \in Nat
    BY MagazinesAssumption
  <2>2. PICK n \in 1 .. BATCH_MAX : some \in [1 .. n -> Tags]
    BY DEF Batches
  <2> QED
    BY <2>1, <2>2
<1>3. Heap \in Heaps /\ ClassOK(Heap.ovf, Heap.class[c], c)
  BY <1>1, SoundIs
<1>4. /\ FREE_PARK_CAP[c] \in Nat /\ Len(s) \in Nat /\ Len(s) <= FREE_PARK_CAP[c]
      /\ Heap.class[c].slots = s
  BY SMTT(30), <1>1, <1>3, ClassIs, ConstantsAre, HeapIs, MagazineIs DEF ClassOK
<1>5. room \in 0 .. Len(some) /\ Len(s) + room <= FREE_PARK_CAP[c]
  <2>1. RoomFor(c) = FREE_PARK_CAP[c] - Len(s)
    BY DEF RoomFor
  <2> HIDE DEF s
  <2> QED
    BY <1>2, <1>4, <2>1 DEF Smaller
<1>6. Number(some, "it") <= IF c = setup.it THEN LiveNow(Heap) ELSE 0
  BY <1>1, <1>2, GivesLive
<1> HIDE DEF room
<1>7. Took(Heap, h, c, some)
  <2>1. Len(Heap.class[c].slots) + room <= FREE_PARK_CAP[c]
    BY <1>4, <1>5
  <2> QED
    BY <1>1, <1>2, <1>5, <1>6, <2>1, BatchTaken
<1> HIDE DEF h
<1> QED
  BY <1>1, <1>2, <1>7, ReturnCall

LEMMA TrimStep ==
    ASSUME IInv, Trim
    PROVE  IInv'
<1> DEFINE g == [Drained(Heap) EXCEPT !.ovf = PagesReleased(@)]
<1>1. setup \in Setups /\ Sound(Heap) /\ Becomes(Unstarved(g)) /\ user' = user
  BY DEF IInv, Trim
<1>2. Keeps(Heap, g) /\ Sound(g)
  BY <1>1, DrainedSound DEF Keeps
<1> HIDE DEF g
<1>3. Keeps(Heap, Unstarved(g))
  BY <1>1, <1>2, UnstarvedSound, KeepsAgain DEF Stays
<1> QED
  BY <1>1, <1>3, KeptCall

LEMMA AllocBatchStep ==
    ASSUME IInv, NEW c \in Classes, NEW n \in 1 .. BATCH_MAX, AllocBatch(c, n)
    PROVE  IInv'
<1> DEFINE s == class[c].slots
           k == Smaller(n, Len(s))
           m == Len(s) - k
           out == SubSeq(s, m + 1, m + k)
           h == [Heap EXCEPT !.class[c].slots = SubSeq(@, 1, m),
                             !.class[c].virgin_mask = @ \cap (1 .. m),
                             !.seg.state = IF Number(out, "it") > 0 THEN "LIVE" ELSE @]
<1>1. setup \in Setups /\ Sound(Heap) /\ Heap \in Heaps /\ Heap.class[c].slots = s
  BY HeapIs DEF IInv, Sound, Base, Shape
<1>2. s \in Seq(Tags) /\ Len(s) \in Nat /\ n \in Nat
  BY <1>1, ClassIs, MagazineIs, MagazinesAssumption
<1>3. PICK some \in Found(h, c, n - k) :
        LET g == Taken(h, c, some, "LIVE")
        IN  /\ Becomes([g EXCEPT !.seg.zeroed = @ /\ Number(out \o some, "it") = 0])
            /\ Gets(c, out \o some)
  BY DEF AllocBatch
<1> DEFINE given == out \o some
           x == Lent(h, c, some, given)
<1>4. Becomes(x) /\ Gets(c, given)
  BY <1>3 DEF Lent
<1> HIDE DEF s
<1>5. k \in Nat /\ m \in 0 .. Len(s) /\ m + k = Len(s) /\ n - k \in Nat
  BY <1>2 DEF Smaller
<1> HIDE DEF k, m
<1>6. out = SubSeq(s, m + 1, Len(s))
  BY <1>5
<1> HIDE DEF out
<1>7. h = BatchOut(Heap, c, m, out)
  BY <1>1 DEF BatchOut
<1> HIDE DEF h
<1>8. Gave(Heap, h, c, out) /\ out \in Seq(Tags)
  BY <1>1, <1>5, <1>6, <1>7, BatchOutSound
<1>9. Sound(h) /\ h \in Heaps /\ LiveNow(h) = LiveNow(Heap) + Number(out, "it")
  BY <1>8 DEF Gave, Sound, Base, Shape
<1>10. some \in Seq(Tags) /\ Number(some, "it") \in Nat
  BY <1>1, <1>3, <1>5, <1>9, FoundIs, NumberType
<1>11. /\ given \in Seq(Tags) /\ \A tag : Number(given, tag) = Number(out, tag) + Number(some, tag)
       /\ \A tag : Number(out, tag) \in Nat /\ Number(some, tag) \in Nat
  BY <1>8, <1>10, NumberConcat, NumberType
<1>12. Number(given, "it") > 0 => Number(some, "it") > 0 \/ h.seg.state = "LIVE"
  <2>1. Number(out, "it") > 0 => h.seg.state = "LIVE"
    <3>1. LiveNow(Heap) \in Nat
      BY DEF LiveNow
    <3> QED
      BY <1>9, <1>11, <3>1 DEF LiveNow
  <2> QED
    BY <1>11, <2>1
<1> HIDE DEF given
<1>13. Gave(h, x, c, some)
  <2>1. Number(given, "it") \in Nat /\ (Number(some, "it") > 0 => Number(given, "it") > 0)
    BY <1>11
  <2> QED
    BY <1>1, <1>3, <1>5, <1>9, <1>12, <2>1, LentSound
<1> HIDE DEF x
<1>14. Gave(Heap, x, c, given)
  <2>1. Sound(x)
    BY <1>13 DEF Gave
  <2>2. ASSUME NEW d \in Classes
        PROVE  Out(x, d) + (IF d = c THEN Number(given, "other") ELSE 0) = Out(Heap, d)
    <3>1. Out(x, d) \in Nat
      BY <1>1, <2>1, CachedType, ClassIs DEF Sound, Base, Shape, Out
    <3> QED
      BY <1>8, <1>11, <1>13, <3>1 DEF Gave
  <2>3. LiveNow(x) = LiveNow(Heap) + Number(given, "it")
    <3>1. LiveNow(Heap) \in Nat
      BY DEF LiveNow
    <3> QED
      BY <1>8, <1>11, <1>13, <3>1 DEF Gave
  <2>4. Number(given, "it") > 0 => c = setup.it
    BY <1>8, <1>11, <1>13 DEF Gave
  <2> QED
    BY <2>1, <2>2, <2>3, <2>4 DEF Gave
<1> QED
  BY <1>4, <1>11, <1>14, GiftCall

-----------------------------------------------------------------------------
(* The invariant is inductive                                              *)

LEMMA InitHolds ==
    ASSUME Init
    PROVE  IInv
<1>1. setup \in Setups
  BY DEF Init
<1>2. /\ NoRecords \in [DepotClasses -> Seq(Magazine)] /\ Zero \in [DepotClasses -> Nat]
      /\ \A d \in DepotClasses : DOMAIN NoRecords[d] = 1 .. cap_for(d) /\ Zero[d] = 0
  BY <1>1, NoRecordsAre
<1>3. /\ ovf \in Overflow /\ ovf.bytes = 0 /\ ovf.armed = {}
      /\ \A d \in DepotClasses :
           /\ ovf.len[d] = 0 /\ ovf.head[d] = 0 /\ ovf.low[d] = 0 /\ ovf.debt[d] = 0
           /\ DOMAIN ovf.ring[d] = 1 .. cap_for(d)
  <2>1. ovf = [reserved |-> FALSE, reserve_failed |-> FALSE, bytes |-> 0, armed |-> {},
               events |-> 0, epoch_len |-> 0, parked_in_epoch |-> {}, starved |-> {},
               reloads_since_ingress |-> 0, ring |-> NoRecords, len |-> Zero,
               head |-> Zero, low |-> Zero, debt |-> Zero, committed |-> Zero]
    BY DEF Init
  <2>2. ovf \in Overflow
    BY <1>2, <2>1 DEF Overflow
  <2>3. /\ ovf.bytes = 0 /\ ovf.armed = {} /\ ovf.len = Zero /\ ovf.head = Zero
        /\ ovf.low = Zero /\ ovf.debt = Zero /\ ovf.ring = NoRecords
    BY <2>1
  <2> QED
    BY <1>2, <2>2, <2>3
<1>4. OverflowOK(ovf) /\ \A d \in DepotClasses : \A tag : InRing(ovf, d, tag) = 0
  BY <1>1, <1>3, EmptyBooks
<1>5. /\ class \in [Classes -> PerClass]
      /\ \A d \in Classes : Bare(class[d]) /\ class[d].limit = open_limit(d)
  <2>1. class = [c \in Classes |->
                   [slots |-> <<>>, virgin_mask |-> {}, floor |-> <<>>, ovf |-> 0,
                    limit |-> open_limit(c), marks |-> {}]]
    BY DEF Init
  <2>2. /\ <<>> \in Magazine /\ <<>> \in Seq(Full)
        /\ \A c \in Classes : open_limit(c) \in Nat
    BY <1>1, NumberEmpty, ConstantsAre
  <2>3. ASSUME NEW d \in Classes
        PROVE  class[d] \in PerClass /\ Bare(class[d]) /\ class[d].limit = open_limit(d)
    <3>1. class[d] = [slots |-> <<>>, virgin_mask |-> {}, floor |-> <<>>, ovf |-> 0,
                      limit |-> open_limit(d), marks |-> {}]
      BY <2>1
    <3> QED
      BY <2>2, <3>1 DEF PerClass, Bare
  <2> QED
    BY <2>1, <2>3
<1>6. \A d \in Classes : ClassOK(ovf, class[d], d) /\ \A tag : Content(class[d], ovf, d, tag) = 0
  BY <1>1, <1>3, <1>4, <1>5, BareIs
<1>7. /\ seg \in Segment /\ seg.live = 0 /\ seg.state = "NONE" /\ seg.zeroed
      /\ free = setup.others /\ free \in [Classes -> Nat]
  BY <1>1, ConstantsAre DEF Init, Segment
<1>8. Heap \in Heaps
  BY <1>3, <1>5, <1>7 DEF Heap, Heaps
<1>9. Shape(Heap) /\ DepotSound(Heap)
  <2>1. Rung(ovf)
    BY <1>3 DEF Rung
  <2> QED
    BY <1>1, <1>4, <1>6, <1>8, <2>1, DepotIs, HeapIs
<1>10. \A d \in Classes : \A tag : Cached(Heap, d, tag) = 0
  BY <1>6, HeapIs DEF Cached, Content, InRing
<1>11. Base(Heap)
  BY <1>5, <1>7, <1>9, HeapIs DEF Base, VirginIn, Fresh, Bare
<1>12. InHand(Heap, 0, 0)
  BY <1>7, <1>10, HeapIs DEF InHand, Held
<1>13. Accounted(Heap, user)
  <2>1. user = [c \in Classes |-> [tag \in Tags |-> 0]]
    BY DEF Init
  <2>2. user \in [Classes -> [Tags -> Nat]]
    BY <2>1
  <2>3. LiveNow(Heap) = 0 /\ \A c \in Classes : Out(Heap, c) = setup.others[c] + 0
    BY <1>7, <1>10, HeapIs DEF LiveNow, Out
  <2>4. ASSUME NEW c \in Classes
        PROVE  /\ user[c]["it"] = IF c = setup.it THEN LiveNow(Heap) ELSE 0
               /\ Out(Heap, c) + user[c]["other"] = setup.others[c]
    <3>1. user[c]["it"] = 0 /\ user[c]["other"] = 0
      BY <2>1 DEF Tags
    <3>2. setup.others[c] \in Nat
      BY <1>7
    <3> QED
      BY <2>3, <3>1, <3>2
  <2> QED
    BY <2>2, <2>4 DEF Accounted
<1> QED
  BY <1>1, <1>11, <1>12, <1>13 DEF IInv, Sound

LEMMA StepHolds ==
    ASSUME IInv, [Next]_vars
    PROVE  IInv'
<1>1. ASSUME NEW c \in Classes, Hit(c)
      PROVE  IInv'
  BY <1>1, HitStep
<1>2. ASSUME NEW c \in Classes, NEW zeroed \in BOOLEAN, Miss(c, zeroed)
      PROVE  IInv'
  BY <1>2, MissStep
<1>3. ASSUME NEW c \in Classes, NEW tag \in Tags, Free(c, tag)
      PROVE  IInv'
  BY <1>3, FreeStep
<1>4. ASSUME NEW c \in Classes, NEW n \in 1 .. BATCH_MAX, AllocBatch(c, n)
      PROVE  IInv'
  BY <1>4, AllocBatchStep
<1>5. ASSUME NEW c \in Classes, NEW some \in Batches, DeallocBatch(c, some)
      PROVE  IInv'
  BY <1>5, DeallocBatchStep
<1>6. ASSUME Trim
      PROVE  IInv'
  BY <1>6, TrimStep
<1>7. ASSUME UNCHANGED vars
      PROVE  IInv'
  <2>1. Heap' = Heap /\ user' = user /\ setup' = setup
    BY <1>7 DEF vars, Heap
  <2>2. PICK g, u : g = Heap /\ u = user
    OBVIOUS
  <2>3. setup \in Setups /\ Sound(g) /\ Accounted(g, u)
    BY <2>2 DEF IInv
  <2>4. Sound(g)' /\ Accounted(g, u)'
    BY <2>1, <2>3, SoundStays, AccountStays
  <2>5. Heap' = g /\ user' = u
    BY <2>1, <2>2
  <2>6. Sound(Heap)' /\ Accounted(Heap, user)'
    BY <2>4, <2>5
  <2> QED
    BY <2>1, <2>3, <2>6 DEF IInv
<1> QED
  BY <1>1, <1>2, <1>3, <1>4, <1>5, <1>6, <1>7 DEF Next

(* After every call of the heap's owner (alloc, free, the batches, trim)   *)
(* its magazines, floors and rings are well formed, the overflow's books   *)
(* hold, marks are true, and the user has exactly the blocks that the heap *)
(* does not have.                                                          *)
THEOREM InvariantHolds == Spec => []IInv
<1>1. Init => IInv
  BY InitHolds
<1>2. IInv /\ [Next]_vars => IInv'
  BY StepHolds
<1> QED
  BY <1>1, <1>2, PTL DEF Spec

(* A block is in one place, and none is lost: whatever the sequence of     *)
(* calls, with refills, parks, decay and trims in between, a block is with *)
(* the user, cached once by the heap, or free in its segment, as its state *)
(* byte says, and the live count of its segment counts exactly the blocks  *)
(* that are out or cached (alloc_core's live_count, at every flush and     *)
(* refill of registry/heap_core).                                          *)
THEOREM BlocksHaveOneHolder == Spec => []OneHolder
<1>1. IInv => OneHolder
  <2> SUFFICES ASSUME IInv PROVE OneHolder
    OBVIOUS
  <2>1. setup \in Setups /\ Sound(Heap) /\ InHand(Heap, 0, 0) /\ Shape(Heap) /\ Heap \in Heaps
    BY DEF IInv, Sound, Base, Shape
  <2>2. ASSUME NEW c \in Classes
        PROVE  /\ Cached(Heap, c, "it") = IF c = setup.it /\ seg.state = "MAG" THEN 1 ELSE 0
               /\ user[c]["it"] = IF c = setup.it /\ seg.state = "LIVE" THEN 1 ELSE 0
               /\ free[c] + user[c]["other"] + Cached(Heap, c, "other") = setup.others[c]
    <3>1. Cached(Heap, c, "it") + (IF c = 0 THEN 0 ELSE 0)
            = IF c = setup.it THEN Held(Heap, 0, 0) ELSE 0
      BY <2>1 DEF InHand
    <3>2. Cached(Heap, c, "it") \in Nat /\ Cached(Heap, c, "other") \in Nat /\ free[c] \in Nat
      BY <2>1, CachedType, ClassIs, HeapIs
    <3>3. /\ user[c]["it"] = IF c = setup.it THEN LiveNow(Heap) ELSE 0
          /\ Out(Heap, c) + user[c]["other"] = setup.others[c]
          /\ user[c]["other"] \in Nat
      BY DEF IInv, Accounted, Tags
    <3>4. Cached(Heap, c, "it") = IF c = setup.it /\ seg.state = "MAG" THEN 1 ELSE 0
      BY <3>1, <3>2, HeapIs DEF Held
    <3>5. user[c]["it"] = IF c = setup.it /\ seg.state = "LIVE" THEN 1 ELSE 0
      BY <3>3, HeapIs DEF LiveNow
    <3>6. free[c] + user[c]["other"] + Cached(Heap, c, "other") = setup.others[c]
      BY <3>2, <3>3, HeapIs DEF Out
    <3> QED
      BY <3>4, <3>5, <3>6
  <2>3. /\ seg.live = IF seg.state \in {"MAG", "LIVE"} THEN 1 ELSE 0
        /\ seg.state \in {"MAG", "LIVE"} => setup.it \in Classes
    BY <2>1, HeapIs DEF InHand
  <2> QED
    BY <2>2, <2>3 DEF OneHolder
<1> QED
  BY <1>1, InvariantHolds, PTL

(* The virgin-zero-skip marks tell the truth: a magazine slot marked       *)
(* virgin holds a block nobody has written, whatever flushes, pushes and   *)
(* half flushes moved in the magazine since it was marked.                 *)
THEOREM MarkedBlocksAreVirgin == Spec => []VirginMarksTrue
<1>1. IInv => VirginMarksTrue
  BY DEF IInv, Sound, Base, VirginMarksTrue
<1> QED
  BY <1>1, InvariantHolds, PTL

(* The depot overflow keeps its books: its bytes are those of its rings    *)
(* and within the budget, full magazines lie in committed memory, debt and *)
(* low water never exceed a ring, a parked record is reachable by its      *)
(* class's hint and counted by every refill, and a class whose limit was   *)
(* lowered is on the starved list (registry/heap_core depot and epochs).   *)
THEOREM OverflowKeepsItsBooks == Spec => []OverflowAccounts
<1>1. IInv => OverflowAccounts
  <2> SUFFICES ASSUME IInv PROVE OverflowAccounts
    OBVIOUS
  <2>1. /\ setup \in Setups /\ DepotSound(Heap) /\ Shape(Heap)
        /\ user \in [Classes -> [Tags -> Nat]]
    BY DEF IInv, Sound, Base, Accounted
  <2> QED
    BY <2>1, HeapIs DEF OverflowAccounts, TypeOK, DepotSound, Shape
<1> QED
  BY <1>1, InvariantHolds, PTL

(* The two fast lanes, park_simple and reload_simple, do what the slow     *)
(* paths they stand for would have done, the decay tick included.          *)
THEOREM LanesAgree == Spec => []FastLanesAgree
<1>1. IInv => FastLanesAgree
  <2> SUFFICES ASSUME IInv, NEW c \in DepotClasses
               PROVE  /\ (/\ Len(class[c].slots) = TCACHE_CAP
                          /\ depot_may_park(Heap, c) /\ ~ FloorHasRoom(Heap, c)
                          /\ ParkIsSimple(ovf, c))
                         => ParkOverflow(Heap, c, "ok") = [ok |-> TRUE, h |-> ParkSimple(Heap, c)]
                      /\ (/\ class[c].slots = <<>> /\ class[c].floor = <<>>
                          /\ ReloadIsSimple(ovf, c))
                         => Tick(ReloadOverflow(Heap, c)) = ReloadSimple(Heap, c)
    BY DEF FastLanesAgree
  <2>1. setup \in Setups /\ Sound(Heap)
    BY DEF IInv
  <2>2. ASSUME Len(class[c].slots) = TCACHE_CAP, ParkIsSimple(ovf, c)
        PROVE  ParkOverflow(Heap, c, "ok") = [ok |-> TRUE, h |-> ParkSimple(Heap, c)]
    <3>1. Len(Heap.class[c].slots) >= FREE_PARK_CAP[c]
      BY <2>1, <2>2, HeapIs, ConstantsAre
    <3> QED
      BY <2>1, <2>2, <3>1, HeapIs, ParkableIs, ParkLane
  <2>3. ASSUME ReloadIsSimple(ovf, c)
        PROVE  Tick(ReloadOverflow(Heap, c)) = ReloadSimple(Heap, c)
    BY <2>1, <2>3, HeapIs, ReloadLane
  <2> QED
    BY <2>2, <2>3
<1> QED
  BY <1>1, InvariantHolds, PTL
=============================================================================
